------------------------------ MODULE FileSys ------------------------------
(***************************************************************************)
(* kernel/fs.c and the calls of kernel/sysfile.c that work on names: the   *)
(* inode table, inodes and directories on disk, path lookup, open, create, *)
(* mkdir, link, unlink, chdir and close, with crashes.                     *)
(*                                                                         *)
(* A step is a critical section of an inode's sleep lock, or of            *)
(* itable.lock; a process that keeps an inode locked while it waits for    *)
(* another one does so in a step of its own.  The entry of the inode table *)
(* for an inode carries the inode's name: iget, under itable.lock, looks   *)
(* for an entry before it makes one.  The log (module Log) makes the calls *)
(* in progress durable together, when the last of them ends.  File         *)
(* contents and the blocks that hold them are in module Files; here the    *)
(* disk may be found full whenever a directory grows.                      *)
(***************************************************************************)
EXTENDS Naturals, Sequences, FiniteSets

CONSTANTS Proc, Name,
          Ino, Root,   \* inodes, and the root directory's
          Path,        \* the paths that are used, sequences of elements; "/" first if absolute
          Disks,       \* the file systems the machine may boot from
          MaxCalls,    \* bound on the calls made
          None         \* no process, no inode

ASSUME FileSysAssumption ==
  /\ Root \in Ino /\ None \notin Ino \cup Proc
  /\ IsFiniteSet(Proc) /\ IsFiniteSet(Ino) /\ IsFiniteSet(Name)
  /\ Name \cap {".", "..", "/"} = {}
  /\ \A path \in Path : /\ path \in Seq(Name \cup {".", "..", "/"})
                        /\ \A k \in 2 .. Len(path) : path[k] # "/"

VARIABLES
  disk,        \* inodes as the buffer cache holds them: type, nlink, directory entries
  committed,   \* the inodes after a crash and recovery
  itable,      \* the inode table
  outstanding, \* file system calls in progress, log.outstanding
  calls,       \* calls made so far, to bound them
  crashed,     \* whether the machine has crashed
  stray,       \* what was done in removed directories: "name", a name made; "up", ".." followed
  st           \* what each process does

vars == <<disk, committed, itable, outstanding, calls, crashed, stray, st>>

Entry == Name \cup {".", ".."}
NoEntries == [n \in Entry |-> None]
FreeInode == [type |-> "free", nlink |-> 0, ent |-> NoEntries]
RootInode == [type |-> "dir", nlink |-> 1, ent |-> [NoEntries EXCEPT !["."] = Root, ![".."] = Root]]

\* File system D with a new inode i in directory d, as create leaves it.
Made(D, i, type, d, n) ==
  [D EXCEPT ![i] = [type |-> type, nlink |-> 1,
                    ent |-> IF type = "dir" THEN [NoEntries EXCEPT !["."] = i, ![".."] = d] ELSE NoEntries],
            ![d].nlink = IF type = "dir" THEN @ + 1 ELSE @,
            ![d].ent[n] = i]
Formatted == [i \in Ino |-> IF i = Root THEN RootInode ELSE FreeInode]

\* The links to inode i that file system D has: the names that lead to it, the ".." of the
\* directories in it, and the root directory's own.
Links(D, i) ==
  {l \in {"name"} \X Ino \X Name : D[l[2]].ent[l[3]] = i}
    \cup {l \in {"sub"} \X {i} \X Name : D[i].ent[l[3]] # None /\ D[D[i].ent[l[3]]].type = "dir"}
    \cup {l \in {"root"} \X {i} \X {i} : i = Root}

\* No name leads to i any more, or yet.
Unnamed(D, i) == i # Root /\ \A x \in Ino, n \in Name : D[x].ent[n] # i
Empty(D, i) == \A n \in Name : D[i].ent[n] = None

\* Directories form a tree: each has one name, in the directory that is its "..", and rank grows downwards.
Tree(D) ==
  /\ D[Root].type = "dir" /\ D[Root].ent[".."] = Root
  /\ \A i \in Ino : D[i].ent["."] \in {i, None}
  /\ \A i, x \in Ino, e \in Name : D[i].type = "dir" /\ D[x].ent[e] = i =>
       D[i].ent[".."] = x /\ \A f \in Name : D[x].ent[f] = i => f = e
Descends(D, rank) ==
  \A d \in Ino, e \in Name : D[d].ent[e] # None /\ D[D[d].ent[e]].type = "dir" => rank[d] < rank[D[d].ent[e]]

Inode == [type : {"free", "dir", "file"}, nlink : Nat, ent : [Entry -> Ino \cup {None}]]

\* The machine boots from a consistent file system, as mkfs makes it.
ASSUME DisksAssumption == \A D \in Disks :
  /\ D \in [Ino -> Inode]
  /\ Tree(D) /\ \E rank \in [Ino -> 0 .. Cardinality(Ino)] : Descends(D, rank)
  /\ \A i \in Ino : /\ D[i].nlink = Cardinality(Links(D, i))
                    /\ D[i].type = "free" => D[i] = FreeInode
                    /\ D[i].type = "file" => D[i].ent = NoEntries
                    /\ Unnamed(D, i) => Empty(D, i)

Unused == [ref |-> 0, valid |-> 0, type |-> "free", nlink |-> 0, lock |-> None]

Idle(cwd, file) ==
  [pc |-> "user", call |-> "", path |-> <<>>, name |-> ".", ip |-> None, dp |-> None,
   old |-> None, puts |-> <<>>, free |-> "", cwd |-> cwd, file |-> file]

\* Every process starts in the root directory.
Booted == [i \in Ino |-> IF i = Root THEN [Unused EXCEPT !.ref = Cardinality(Proc)] ELSE Unused]

Init ==
  /\ disk \in Disks
  /\ committed = disk
  /\ itable = Booted
  /\ outstanding = 0
  /\ calls = 0
  /\ crashed = FALSE
  /\ stray = {}
  /\ st = [p \in Proc |-> Idle(Root, None)]

Crash ==
  /\ disk' = committed
  /\ itable' = Booted
  /\ outstanding' = 0
  /\ st' = [p \in Proc |-> Idle(Root, None)]
  /\ crashed' = TRUE
  /\ UNCHANGED <<committed, calls, stray>>

(***************************************************************************)
(* The inode table                                                         *)
(***************************************************************************)
\* iget or idup: one more reference to i in table t.
IGet(t, i) == [t EXCEPT ![i].ref = @ + 1]

\* The inode whose lock the next step of process p takes.
Wants(p) ==
  LET s == st[p] IN
  IF s.puts # <<>> THEN None
  ELSE IF s.pc = "namex" THEN (IF s.path = <<>> THEN None ELSE s.ip)
  ELSE IF s.pc \in {"unlink", "create", "linkdir"} THEN s.dp
  ELSE IF s.pc \in {"unlinkip", "createold", "createnew", "open", "chdir", "link"} THEN s.ip
  ELSE IF s.pc = "bad" THEN s.old
  ELSE None

\* i's entry once ilock has read the inode, if that was needed.
Loaded(i) == IF itable[i].valid = 1 THEN itable[i] ELSE
  [itable[i] EXCEPT !.valid = 1, !.type = disk[i].type, !.nlink = disk[i].nlink]

\* ilock returns with the inode.
ILock(p, pc) ==
  /\ st[p].pc = pc /\ Wants(p) # None
  /\ itable[Wants(p)].lock = None /\ Loaded(Wants(p)).type # "free"

\* "ilock: no type".  panic does not return; the other processors go on.
ILockPanic(p) ==
  /\ Wants(p) # None /\ itable[Wants(p)].lock = None /\ Loaded(Wants(p)).type = "free"
  /\ itable' = [itable EXCEPT ![Wants(p)] = [Loaded(Wants(p)) EXCEPT !.lock = p]]
  /\ st' = [st EXCEPT ![p].pc = "panic"]
  /\ UNCHANGED <<disk, committed, outstanding, calls, crashed, stray>>

\* i's entry, held by h or by nobody, with n links.
Holding(i, h, n) == [Loaded(i) EXCEPT !.lock = h, !.nlink = n]
Held(i, h) == Holding(i, h, Loaded(i).nlink)

(***************************************************************************)
(* iput: puts holds the inodes the process is about to put                 *)
(***************************************************************************)
Put(p) == Head(st[p].puts)
Putting(p, step) == st[p].puts # <<>> /\ st[p].free = step

\* Mutant: the reference count is not looked at.
LastPutAny(i) == itable[i].valid = 1 /\ itable[i].nlink = 0

\* Nobody else refers to the inode, and no directory does.
LastPut(i) == itable[i].ref = 1 /\ itable[i].valid = 1 /\ itable[i].nlink = 0

\* The reference is given back; an entry without references may be recycled.
Unref(p) ==
  /\ itable' = [itable EXCEPT ![Put(p)] = IF @.ref = 1 THEN Unused ELSE [@ EXCEPT !.ref = @ - 1]]
  /\ st' = [st EXCEPT ![p].puts = Tail(@), ![p].free = ""]
  /\ UNCHANGED <<disk, committed, outstanding, calls, crashed, stray>>

IPut(p) == Putting(p, "") /\ ~LastPut(Put(p)) /\ Unref(p)

\* The inode is freed.  acquiresleep, under itable.lock, must not have to wait.
IPutLast(p) ==
  /\ Putting(p, "") /\ LastPut(Put(p)) /\ itable[Put(p)].lock = None
  /\ itable' = [itable EXCEPT ![Put(p)].lock = p]
  /\ st' = [st EXCEPT ![p].free = "itrunc"]
  /\ UNCHANGED <<disk, committed, outstanding, calls, crashed, stray>>

\* itrunc, and the inode's type becomes 0 on disk.
IPutFree(p) ==
  /\ Putting(p, "itrunc")
  /\ disk' = [disk EXCEPT ![Put(p)] = FreeInode]
  /\ itable' = [itable EXCEPT ![Put(p)].type = "free"]
  /\ st' = [st EXCEPT ![p].free = "iupdate"]
  /\ UNCHANGED <<committed, outstanding, calls, crashed, stray>>

\* The entry no longer holds the inode, whose number ialloc may already have given out again.
IPutUnlock(p) ==
  /\ Putting(p, "iupdate")
  /\ itable' = [itable EXCEPT ![Put(p)].valid = 0, ![Put(p)].type = "free", ![Put(p)].lock = None]
  /\ st' = [st EXCEPT ![p].free = "freed"]
  /\ UNCHANGED <<disk, committed, outstanding, calls, crashed, stray>>

IPutFreed(p) == Putting(p, "freed") /\ Unref(p)

(***************************************************************************)
(* Calls: begin_op, the work, end_op                                       *)
(***************************************************************************)
Calls == {"open", "create", "mkdir", "unlink", "link", "chdir"}

\* namex starts at the root directory or at the process's own.
Start(p, path) == IF path # <<>> /\ Head(path) = "/" THEN Root ELSE st[p].cwd
Elements(path) == IF path # <<>> /\ Head(path) = "/" THEN Tail(path) ELSE path

\* Mutant: the lookup starts without a reference of its own.
CallUncounted(p) ==
  /\ st[p].pc = "user" /\ calls < MaxCalls
  /\ \E c \in Calls, path \in Path :
       st' = [st EXCEPT ![p].pc = "namex", ![p].call = c, ![p].path = Elements(path), ![p].ip = Start(p, path)]
  /\ outstanding' = outstanding + 1
  /\ calls' = calls + 1
  /\ UNCHANGED <<disk, committed, itable, crashed, stray>>

Call(p) ==
  /\ st[p].pc = "user" /\ calls < MaxCalls
  /\ \E c \in Calls, path \in Path :
       /\ st' = [st EXCEPT ![p].pc = "namex", ![p].call = c, ![p].path = Elements(path), ![p].ip = Start(p, path)]
       /\ itable' = IGet(itable, Start(p, path))
  /\ outstanding' = outstanding + 1
  /\ calls' = calls + 1
  /\ UNCHANGED <<disk, committed, crashed, stray>>

\* sys_close, fileclose of the last descriptor.
Close(p) ==
  /\ st[p].pc = "user" /\ st[p].file # None
  /\ st' = [st EXCEPT ![p].pc = "end", ![p].puts = <<st[p].file>>, ![p].file = None]
  /\ outstanding' = outstanding + 1
  /\ UNCHANGED <<disk, committed, itable, calls, crashed, stray>>

\* Mutant: a call commits although others are still at work.
EndOpEager(p) ==
  /\ st[p].pc = "end" /\ st[p].puts = <<>>
  /\ st' = [st EXCEPT ![p] = Idle(@.cwd, @.file)]
  /\ outstanding' = outstanding - 1
  /\ committed' = disk
  /\ UNCHANGED <<disk, itable, calls, crashed, stray>>

\* end_op: the last call in progress commits them all.
EndOp(p) ==
  /\ st[p].pc = "end" /\ st[p].puts = <<>>
  /\ st' = [st EXCEPT ![p] = Idle(@.cwd, @.file)]
  /\ outstanding' = outstanding - 1
  /\ committed' = IF outstanding = 1 THEN disk ELSE committed
  /\ UNCHANGED <<disk, itable, calls, crashed, stray>>

\* The call goes on at pc, once it has put the inodes of puts.
Goto(p, pc, puts) == st' = [st EXCEPT ![p].pc = pc, ![p].puts = puts]

(***************************************************************************)
(* Directories                                                             *)
(***************************************************************************)
DirLookup(d, n) == disk[d].ent[n]

\* File system D once dirlink has written the entry, and once iupdate has written i's link count.
DirLink(D, d, n, i) == [D EXCEPT ![d].ent[n] = i]
IUpdate(D, i, n) == [D EXCEPT ![i].nlink = n]

\* A free inode, marked allocated on disk with no link.
IAlloc(j, type) == disk[j].type = "free" /\ disk' = [disk EXCEPT ![j].type = type]

(***************************************************************************)
(* namex                                                                   *)
(***************************************************************************)
\* nameiparent, rather than namei.
Parent(p) == st[p].call \in {"create", "mkdir", "unlink"} \/ st[p].old # None

\* What follows a lookup that fails, and one that finds the inode.
NotFound(p) == IF st[p].old # None THEN "bad" ELSE "end"
Found(p) ==
  IF st[p].old # None THEN "linkdir"
  ELSE IF st[p].call = "mkdir" THEN "create" ELSE st[p].call

NamexEnd(p) ==
  /\ st[p].pc = "namex" /\ st[p].puts = <<>> /\ st[p].path = <<>>
  /\ IF Parent(p) THEN Goto(p, NotFound(p), <<st[p].ip>>) ELSE Goto(p, Found(p), <<>>)
  /\ UNCHANGED <<disk, committed, itable, outstanding, calls, crashed, stray>>

\* One element of the path.
Namex(p) ==
  /\ ILock(p, "namex")
  /\ LET d == st[p].ip
         e == Head(st[p].path)
         next == DirLookup(d, e)
         t == [itable EXCEPT ![d] = Held(d, None)]
     IN IF Loaded(d).type # "dir"
        THEN Goto(p, NotFound(p), <<d>>) /\ itable' = t /\ UNCHANGED stray
        ELSE IF Parent(p) /\ Len(st[p].path) = 1
        THEN /\ st' = [st EXCEPT ![p].pc = Found(p), ![p].dp = d, ![p].name = e, ![p].path = <<>>]
             /\ itable' = t /\ UNCHANGED stray
        ELSE IF next = None
        THEN Goto(p, NotFound(p), <<d>>) /\ itable' = t /\ UNCHANGED stray
        ELSE /\ st' = [st EXCEPT ![p].ip = next, ![p].path = Tail(@), ![p].puts = <<d>>]
             /\ itable' = IGet(t, next)
             /\ stray' = stray \cup {x \in {"up"} : e = ".." /\ Unnamed(disk, d)}
  /\ UNCHANGED <<disk, committed, outstanding, calls, crashed>>

(***************************************************************************)
(* create                                                                  *)
(***************************************************************************)
\* Mutant: the directory stays locked while the inode that has the name is locked.
CreateKeep(p) ==
  /\ ILock(p, "create")
  /\ LET d == st[p].dp
         i == DirLookup(d, st[p].name)
         type == IF st[p].call = "mkdir" THEN "dir" ELSE "file"
     IN \/ /\ i # None
           /\ itable' = IGet([itable EXCEPT ![d] = Held(d, p)], i)
           /\ st' = [st EXCEPT ![p].pc = "createold", ![p].ip = i, ![p].puts = <<d>>]
           /\ UNCHANGED disk
        \/ /\ i = None /\ \A j \in Ino : disk[j].type # "free"
           /\ itable' = [itable EXCEPT ![d] = Held(d, None)]
           /\ Goto(p, "end", <<d>>)
           /\ UNCHANGED disk
        \/ \E j \in Ino :
             /\ i = None /\ IAlloc(j, type)
             /\ itable' = IGet([itable EXCEPT ![d] = Held(d, p)], j)
             /\ st' = [st EXCEPT ![p].pc = "createnew", ![p].ip = j]
  /\ UNCHANGED <<committed, outstanding, calls, crashed, stray>>

\* The directory is locked; the name is there, or there is no inode left, or ialloc takes one.
Create(p) ==
  /\ ILock(p, "create")
  /\ LET d == st[p].dp
         i == DirLookup(d, st[p].name)
         type == IF st[p].call = "mkdir" THEN "dir" ELSE "file"
     IN \/ /\ i # None
           /\ itable' = IGet([itable EXCEPT ![d] = Held(d, None)], i)
           /\ st' = [st EXCEPT ![p].pc = "createold", ![p].ip = i, ![p].puts = <<d>>]
           /\ UNCHANGED disk
        \/ /\ i = None /\ \A j \in Ino : disk[j].type # "free"
           /\ itable' = [itable EXCEPT ![d] = Held(d, None)]
           /\ Goto(p, "end", <<d>>)
           /\ UNCHANGED disk
        \/ \E j \in Ino :
             /\ i = None /\ IAlloc(j, type)
             /\ itable' = IGet([itable EXCEPT ![d] = Held(d, p)], j)
             /\ st' = [st EXCEPT ![p].pc = "createnew", ![p].ip = j]
  /\ UNCHANGED <<committed, outstanding, calls, crashed, stray>>

\* An existing file may be opened, anything else is an error.
CreateOld(p) ==
  /\ ILock(p, "createold")
  /\ LET i == st[p].ip IN
     IF st[p].call = "create" /\ Loaded(i).type = "file"
       THEN itable' = [itable EXCEPT ![i] = Held(i, p)] /\ Goto(p, "opened", <<>>)
       ELSE itable' = [itable EXCEPT ![i] = Held(i, None)] /\ Goto(p, "end", <<i>>)
  /\ UNCHANGED <<disk, committed, outstanding, calls, crashed, stray>>

\* The new inode gets its link, a directory its entries, and its own name in dp; full: the disk is
\* full at one of the dirlinks.
CreateNew(p) ==
  /\ ILock(p, "createnew")
  /\ LET i == st[p].ip
         d == st[p].dp
         dir == Loaded(i).type = "dir"
         own == IF dir THEN [disk[i].ent EXCEPT !["."] = i, ![".."] = d] ELSE disk[i].ent
         up == IF dir THEN Loaded(d).nlink + 1 ELSE Loaded(d).nlink
     IN \/ /\ disk' = IUpdate(DirLink([disk EXCEPT ![i].nlink = 1, ![i].ent = own], d, st[p].name, i), d, up)
           /\ itable' = [itable EXCEPT ![i] = Holding(i, p, 1), ![d] = Holding(d, None, up)]
           /\ Goto(p, IF dir THEN "made" ELSE "opened", <<d>>)
           /\ stray' = stray \cup {x \in {"name"} : Unnamed(disk, d)}
        \/ /\ disk' = [disk EXCEPT ![i].nlink = 0, ![i].ent = own]
           /\ itable' = [itable EXCEPT ![i] = Holding(i, None, 0)]
           /\ Goto(p, "createfail", <<i>>)
           /\ UNCHANGED stray
  /\ UNCHANGED <<committed, outstanding, calls, crashed>>

\* The locked inode x of a call that is done with it is unlocked and put.
Done(p, pc, x) ==
  /\ st[p].pc = pc /\ st[p].puts = <<>>
  /\ itable' = [itable EXCEPT ![x].lock = None]
  /\ Goto(p, "end", <<x>>)
  /\ UNCHANGED <<disk, committed, outstanding, calls, crashed, stray>>

CreateFail(p) == Done(p, "createfail", st[p].dp)
Mkdir(p) == Done(p, "made", st[p].ip)

(***************************************************************************)
(* sys_open and sys_chdir, after the lookup                                *)
(***************************************************************************)
\* A directory may only be read.
Open(p) ==
  /\ ILock(p, "open")
  /\ LET i == st[p].ip IN \E omode \in {"rdonly", "write"} :
     IF Loaded(i).type = "dir" /\ omode = "write"
       THEN itable' = [itable EXCEPT ![i] = Held(i, None)] /\ Goto(p, "end", <<i>>)
       ELSE itable' = [itable EXCEPT ![i] = Held(i, p)] /\ Goto(p, "opened", <<>>)
  /\ UNCHANGED <<disk, committed, outstanding, calls, crashed, stray>>

\* filealloc or fdalloc fails: a process has one descriptor here.
OpenFail(p) == st[p].file # None /\ Done(p, "opened", st[p].ip)

Opened(p) ==
  /\ st[p].pc = "opened" /\ st[p].puts = <<>> /\ st[p].file = None
  /\ itable' = [itable EXCEPT ![st[p].ip].lock = None]
  /\ st' = [st EXCEPT ![p].pc = "end", ![p].file = st[p].ip]
  /\ UNCHANGED <<disk, committed, outstanding, calls, crashed, stray>>

\* Mutant: the old directory is not put.
ChdirKeep(p) ==
  /\ ILock(p, "chdir")
  /\ LET i == st[p].ip IN
     /\ itable' = [itable EXCEPT ![i] = Held(i, None)]
     /\ IF Loaded(i).type # "dir" THEN Goto(p, "end", <<i>>)
        ELSE st' = [st EXCEPT ![p].pc = "end", ![p].cwd = i]
  /\ UNCHANGED <<disk, committed, outstanding, calls, crashed, stray>>

Chdir(p) ==
  /\ ILock(p, "chdir")
  /\ LET i == st[p].ip IN
     /\ itable' = [itable EXCEPT ![i] = Held(i, None)]
     /\ IF Loaded(i).type # "dir" THEN Goto(p, "end", <<i>>)
        ELSE st' = [st EXCEPT ![p].pc = "end", ![p].puts = <<st[p].cwd>>, ![p].cwd = i]
  /\ UNCHANGED <<disk, committed, outstanding, calls, crashed, stray>>

(***************************************************************************)
(* sys_link                                                                *)
(***************************************************************************)
\* The file gets its link before the directory gets the entry; then nameiparent(new).
Link(p) ==
  /\ ILock(p, "link")
  /\ LET i == st[p].ip
         n == Loaded(i).nlink + 1
     IN IF Loaded(i).type = "dir"
        THEN itable' = [itable EXCEPT ![i] = Held(i, None)] /\ Goto(p, "end", <<i>>) /\ UNCHANGED disk
        ELSE \E new \in Path :
             /\ disk' = IUpdate(disk, i, n)
             /\ itable' = IGet([itable EXCEPT ![i] = Holding(i, None, n)], Start(p, new))
             /\ st' = [st EXCEPT ![p].pc = "namex", ![p].path = Elements(new), ![p].old = i, ![p].ip = Start(p, new)]
  /\ UNCHANGED <<committed, outstanding, calls, crashed, stray>>

\* dirlink succeeds, or finds the name (a reference to get and put), or the disk full.
LinkDir(p) ==
  /\ ILock(p, "linkdir")
  /\ LET d == st[p].dp
         i == DirLookup(d, st[p].name)
         t == [itable EXCEPT ![d] = Held(d, None)]
     IN \/ /\ i = None
           /\ disk' = DirLink(disk, d, st[p].name, st[p].old)
           /\ itable' = t
           /\ Goto(p, "end", <<d, st[p].old>>)
           /\ stray' = stray \cup {x \in {"name"} : Unnamed(disk, d)}
        \/ i = None /\ itable' = t /\ Goto(p, "bad", <<d>>) /\ UNCHANGED <<disk, stray>>
        \/ i # None /\ itable' = IGet(t, i) /\ Goto(p, "bad", <<i, d>>) /\ UNCHANGED <<disk, stray>>
  /\ UNCHANGED <<committed, outstanding, calls, crashed>>

\* bad: the link is taken back.
LinkBad(p) ==
  /\ ILock(p, "bad")
  /\ LET i == st[p].old
         n == Loaded(i).nlink - 1
     IN /\ disk' = IUpdate(disk, i, n)
        /\ itable' = [itable EXCEPT ![i] = Holding(i, None, n)]
        /\ Goto(p, "end", <<i>>)
  /\ UNCHANGED <<committed, outstanding, calls, crashed, stray>>

(***************************************************************************)
(* sys_unlink                                                              *)
(***************************************************************************)
\* The directory is locked and the name looked up.
Unlink(p) ==
  /\ ILock(p, "unlink")
  /\ LET d == st[p].dp
         i == DirLookup(d, st[p].name)
     IN IF st[p].name \in {".", ".."} \/ i = None
        THEN itable' = [itable EXCEPT ![d] = Held(d, None)] /\ Goto(p, "end", <<d>>)
        ELSE /\ itable' = IGet([itable EXCEPT ![d] = Held(d, p)], i)
             /\ st' = [st EXCEPT ![p].pc = "unlinkip", ![p].ip = i]
  /\ UNCHANGED <<disk, committed, outstanding, calls, crashed, stray>>

IsDirEmpty(i) == Empty(disk, i)

\* The inode is locked too, and the entry erased.
UnlinkIp(p) ==
  /\ ILock(p, "unlinkip")
  /\ LET i == st[p].ip
         d == st[p].dp
         dir == Loaded(i).type = "dir"
         up == IF dir THEN Loaded(d).nlink - 1 ELSE Loaded(d).nlink
     IN IF Loaded(i).nlink < 1 THEN Goto(p, "panic", <<>>) /\ UNCHANGED <<disk, itable>>
        ELSE IF dir /\ ~IsDirEmpty(i)
        THEN /\ itable' = [itable EXCEPT ![i] = Held(i, None), ![d] = Held(d, None)]
             /\ Goto(p, "end", <<i, d>>)
             /\ UNCHANGED disk
        ELSE /\ disk' = IUpdate(DirLink(disk, d, st[p].name, None), d, up)
             /\ itable' = [itable EXCEPT ![i] = Held(i, p), ![d] = Holding(d, None, up)]
             /\ Goto(p, "unlinked", <<d>>)
  /\ UNCHANGED <<committed, outstanding, calls, crashed, stray>>

\* The inode loses its link.
Unlinked(p) ==
  /\ st[p].pc = "unlinked" /\ st[p].puts = <<>>
  /\ LET i == st[p].ip
         n == itable[i].nlink - 1
     IN /\ disk' = IUpdate(disk, i, n)
        /\ itable' = [itable EXCEPT ![i] = Holding(i, None, n)]
        /\ Goto(p, "end", <<i>>)
  /\ UNCHANGED <<committed, outstanding, calls, crashed, stray>>

Step(p) ==
  \/ IPut(p) \/ IPutLast(p) \/ IPutFree(p) \/ IPutUnlock(p) \/ IPutFreed(p)
  \/ ILockPanic(p) \/ NamexEnd(p) \/ Namex(p) \/ EndOp(p)
  \/ Create(p) \/ CreateOld(p) \/ CreateNew(p) \/ CreateFail(p) \/ Mkdir(p)
  \/ Open(p) \/ OpenFail(p) \/ Opened(p) \/ Chdir(p)
  \/ Link(p) \/ LinkDir(p) \/ LinkBad(p) \/ Unlink(p) \/ UnlinkIp(p) \/ Unlinked(p)

Next ==
  \/ \E p \in Proc : Call(p) \/ Close(p) \/ Step(p)
  \/ Crash

Spec == Init /\ [][Next]_vars

(***************************************************************************)
(* Properties                                                              *)
(***************************************************************************)
Panicked == \E p \in Proc : st[p].pc = "panic"

\* The steps of a call at which its variables ip, dp and old are references.
HasIp == {"namex", "open", "chdir", "link", "createold", "createnew", "opened", "made",
          "unlinkip", "unlinked"}
HasDp == {"create", "createnew", "createfail", "unlink", "unlinkip", "linkdir"}
HasOld == {"namex", "linkdir", "bad"}

\* The number of references to inode i in a process's state s: its directory and file, the inodes the
\* call in progress has in its variables, and the ones it is about to put.
Bit(c) == IF c THEN 1 ELSE 0
Refs(s, i) ==
  Bit(s.cwd = i) + Bit(s.file = i) + Bit(s.pc \in HasIp /\ s.ip = i) + Bit(s.pc \in HasDp /\ s.dp = i)
    + Bit(s.pc \in HasOld /\ s.old = i) + Cardinality({k \in DOMAIN s.puts : s.puts[k] = i})

\* The references to i: a process and a number for each.
Pointers(i) == UNION {{p} \X (1 .. Refs(st[p], i)) : p \in Proc}

\* ip->ref is the number of pointers to the inode, on every path through every call: none is leaked
\* on an error path, none is put twice.
RefsExact == ~Panicked => \A i \in Ino : itable[i].ref = Cardinality(Pointers(i))

\* "ref == 1 means no other process can have ip locked, so this acquiresleep() won't block" (iput,
\* which holds the spin lock itable.lock there).
PutNeverWaits ==
  ~Panicked => \A p \in Proc : Putting(p, "") /\ LastPut(Put(p)) => itable[Put(p)].lock = None

\* The directories a path from the root can reach on file system D.
Closed(D, S) == Root \in S /\ \A d \in S, e \in Name : LET i == D[d].ent[e] IN i # None /\ D[i].type = "dir" => i \in S
Reachable(D) == {i \in Ino : \A S \in SUBSET Ino : Closed(D, S) => i \in S}

\* On the disk that recovery finds after a crash, every name a path can reach leads to an allocated
\* inode that counts at least the links leading to it, and a directory has one name, in the directory
\* that is its "..".  The counts are exact, nlink is the "number of links to inode in file system"
\* (fs.h), as long as no name was made in a directory that had been removed: create and sys_link do
\* not look at the nlink of the directory.  And nothing is said once a process went up from a removed
\* directory: its ".." may be an inode that was freed and given out again, and that create has
\* allocated but not yet given its link.
NamesSound ==
  outstanding = 0 /\ "up" \notin stray =>
  LET D == committed
      tree == Reachable(D)
      From(i, Dirs) == {l \in Dirs \X Entry : D[l[1]].ent[l[2]] = i /\ l[2] # "."}
  IN /\ \A d \in tree, e \in Name : D[d].ent[e] # None =>
          LET i == D[d].ent[e]
              links == From(i, tree)
          IN /\ D[i].type # "free" /\ D[i].nlink >= Cardinality(links)
             /\ D[i].type = "dir" => D[i].ent[".."] = d /\ {l \in links : l[2] \in Name} = {<<d, e>>}
     /\ stray = {} => \A i \in Ino : D[i].nlink = Cardinality(From(i, {d \in Ino : D[d].nlink > 0}))

\* An inode that a process has open or works in is allocated on disk, whatever the others unlink.
\* (The root directory is, after a crash, as long as NamesSound holds of it.)
OpenStaysAllocated ==
  \A p \in Proc : \A i \in {st[p].cwd, st[p].file} \ {None} :
    (i = Root => "up" \notin stray) => disk[i].type # "free"

\* "iput() frees if the reference and link counts have fallen to zero": only a crash leaves an
\* inode allocated without a link and without a reference.
NoOrphan ==
  ~crashed /\ outstanding = 0 =>
    \A i \in Ino : committed[i].type # "free" /\ committed[i].nlink = 0 => itable[i].ref > 0

\* No circle of processes in which each waits for an inode lock that the next one holds, and no lock
\* is kept beyond the end of a call.
NoCircularWait ==
  /\ \A P \in (SUBSET Proc) \ {{}} : \E p \in P : Wants(p) = None \/ itable[Wants(p)].lock \notin P
  /\ \A i \in Ino : itable[i].lock # None => st[itable[i].lock].pc \notin {"user", "end"} \/ st[itable[i].lock].puts # <<>>
=============================================================================
