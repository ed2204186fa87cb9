------------------------------- MODULE Memory -------------------------------
(***************************************************************************)
(* Physical pages and user page tables: kernel/kalloc.c, kernel/vm.c, and  *)
(* the calls that make, copy, grow and replace a process's memory: fork,   *)
(* sbrk, exec, exit and wait (kernel/proc.c, kernel/exec.c, sys_exec).     *)
(*                                                                         *)
(* A page table belongs to one process, so a call is one step; what it     *)
(* shares with the rest of the system is the list of free pages, which may *)
(* run dry at any kalloc of any call: the other users of memory take and   *)
(* give back pages between calls.  Which page kalloc returns makes no      *)
(* difference, so pages are counted: one that is lost, freed twice or      *)
(* mapped twice shows in the sum.  A page table is a tree: node holds the  *)
(* places that have a table, leaf the virtual pages that are mapped, with  *)
(* their permissions.  Addresses are in units of which a page has PGSIZE,  *)
(* so that sizes need not be page aligned.                                 *)
(***************************************************************************)
EXTENDS Integers, Sequences, SequencesExt, FiniteSetsExt, TLC

CONSTANTS Proc,
          NPAGE,   \* physical pages
          FAN,     \* entries of a page table (512)
          PGSIZE,
          Program, \* the programs to execute: where each segment ends
          Change   \* the sizes sbrk is called with

TRAMPOLINE == FAN * FAN * FAN - 1   \* virtual page numbers
TRAPFRAME == TRAMPOLINE - 1
USERSTACK == 1

\* Physical memory is smaller than the user's address space.
ASSUME MemoryAssumption ==
  /\ PGSIZE >= 1 /\ FAN >= 2 /\ NPAGE < TRAPFRAME
  /\ Program \subseteq Seq(Nat) /\ Change \subseteq Int

VARIABLES
  free,    \* number of pages on kmem.freelist
  others,  \* number of pages that the rest of the kernel has allocated
  proc,    \* state, memory size and page table of each process
  last     \* the last call, whether it failed, and whether it came to a panic

vars == <<free, others, proc, last>>

PgRoundUp(n) == (n + PGSIZE - 1) \div PGSIZE   \* in pages

(***************************************************************************)
(* The state s a call works on: the free pages, a page table and the size  *)
(* of the user memory in it; ok while no step has failed; panic            *)
(***************************************************************************)
NoTable == [node |-> {}, leaf |-> <<>>, sz |-> 0]
On(f, t) == [free |-> f, node |-> t.node, leaf |-> t.leaf, sz |-> t.sz, ok |-> TRUE, panic |-> FALSE]
Fails(s) == [s EXCEPT !.ok = FALSE]

\* F(s), where s is evaluated once; and the loop that applies F for v = m .. n - 1.
Then(s, F(_)) == CHOOSE t \in {F(x) : x \in {s}} : TRUE
Loop(s, m, n, F(_, _)) ==
  FoldLeft(LAMBDA x, v : Then(x, LAMBDA y : F(y, v)), s, [i \in 1 .. n - m |-> m + i - 1])

KAlloc(s) == [s EXCEPT !.free = @ - 1]
KFree(s, n) == [s EXCEPT !.free = @ + n]

\* walk for alloc = 1: the tables on the way to virtual page v are made, the root excepted.
Table(s, place) ==
  IF ~s.ok \/ place \in s.node THEN s
  ELSE IF s.free = 0 THEN Fails(s)
  ELSE [KAlloc(s) EXCEPT !.node = @ \cup {place}]
Walk(s, v) ==
  LET top == v \div (FAN * FAN)
  IN Then(Table(s, <<top>>), LAMBDA t : Table(t, <<top, (v \div FAN) % FAN>>))

\* mappages of one page.
MapPage(s, v, perm) ==
  Then(Walk(s, v), LAMBDA t :
    IF ~t.ok THEN t
    ELSE [t EXCEPT !.panic = @ \/ v \in DOMAIN t.leaf, !.leaf = (v :> perm) @@ @])

\* uvmunmap of the virtual pages V.
UvmUnmap(s, V, dofree) ==
  LET t == [s EXCEPT !.leaf = Restrict(@, DOMAIN @ \ V), !.panic = @ \/ ~(V \subseteq DOMAIN s.leaf)]
  IN IF dofree THEN KFree(t, Cardinality(V \cap DOMAIN s.leaf)) ELSE t

\* Mutant: the page that could not be mapped is not given back.
GrowLeak(s, first, v, perm) ==
  LET undo == first .. v - 1
  IN IF ~s.ok THEN s
     ELSE IF s.free = 0 THEN UvmUnmap(Fails(s), undo, TRUE)
     ELSE Then(MapPage(KAlloc(s), v, perm), LAMBDA mapped :
            IF mapped.ok THEN mapped ELSE UvmUnmap(mapped, undo, TRUE))

\* A page for virtual page v; when there is none the pages from first on are unmapped again.
Grow(s, first, v, perm) ==
  LET undo == first .. v - 1
  IN IF ~s.ok THEN s
     ELSE IF s.free = 0 THEN UvmUnmap(Fails(s), undo, TRUE)
     ELSE Then(MapPage(KAlloc(s), v, perm), LAMBDA mapped :
            IF mapped.ok THEN mapped ELSE UvmUnmap(KFree(mapped, 1), undo, TRUE))

\* uvmalloc from s.sz to newsz; the size 0 means failure, even when nothing had to be allocated.
UvmAlloc(s, newsz, perm) ==
  LET first == PgRoundUp(s.sz)
  IN IF ~s.ok \/ newsz < s.sz THEN s
     ELSE Then(Loop(s, first, PgRoundUp(newsz), LAMBDA x, v : Grow(x, first, v, perm)), LAMBDA t :
            IF t.ok /\ newsz > 0 THEN [t EXCEPT !.sz = newsz] ELSE Fails(t))

\* Mutant: the new size is rounded down.
UvmDeallocDown(s, newsz) ==
  IF newsz >= s.sz THEN s
  ELSE [UvmUnmap(s, newsz \div PGSIZE .. PgRoundUp(s.sz) - 1, TRUE) EXCEPT !.sz = newsz]

UvmDealloc(s, newsz) ==
  IF newsz >= s.sz THEN s
  ELSE [UvmUnmap(s, PgRoundUp(newsz) .. PgRoundUp(s.sz) - 1, TRUE) EXCEPT !.sz = newsz]

\* freewalk panics on a leaf.
UvmFree(s) ==
  Then(UvmUnmap(s, 0 .. PgRoundUp(s.sz) - 1, TRUE), LAMBDA t :
    [KFree(t, Cardinality(t.node)) EXCEPT !.panic = @ \/ t.leaf # <<>>, !.node = {}, !.leaf = <<>>, !.sz = 0])

ProcFreePagetable(s) == Then(UvmUnmap(s, {TRAMPOLINE, TRAPFRAME}, FALSE), UvmFree)

\* proc_pagetable; when it fails nothing is left of the table.
ProcPagetable(s) ==
  LET Trapframe(t) == IF t.ok THEN t ELSE UvmFree(UvmUnmap(t, {TRAMPOLINE}, FALSE))
      Trampoline(t) == IF t.ok THEN Then(MapPage(t, TRAPFRAME, "none"), Trapframe) ELSE UvmFree(t)
      Root(t) == IF t.ok THEN Then(MapPage(t, TRAMPOLINE, "none"), Trampoline) ELSE t
  IN Then(Table(s, <<>>), Root)

(***************************************************************************)
(* Copying between the kernel and the user memory of table t               *)
(***************************************************************************)
Writable(t, v) == v \in DOMAIN t.leaf /\ t.leaf[v] = "rw"

\* walkaddr finds the page, and the user may access it.
Readable(t, v) == v \in DOMAIN t.leaf /\ t.leaf[v] # "none"

\* Mutant: a piece that starts inside a page is a page long.
PiecesLong(va, len) ==
  LET pieces[a \in va .. va + len + PGSIZE, n \in 0 .. len] ==
        IF n = 0 THEN <<>>
        ELSE LET m == Min({PGSIZE, n}) IN <<a .. a + m - 1>> \o pieces[PGSIZE * (a \div PGSIZE + 1), n - m]
  IN pieces[va, len]

\* The ranges of addresses, one per page, that the loops of copyin and copyout go through.
Pieces(va, len) ==
  LET pieces[a \in va .. va + len + PGSIZE, n \in 0 .. len] ==
        IF n = 0 THEN <<>>
        ELSE LET m == Min({PGSIZE - (a % PGSIZE), n}) IN <<a .. a + m - 1>> \o pieces[PGSIZE * (a \div PGSIZE + 1), n - m]
  IN pieces[va, len]

PageOf(piece) == Min(piece) \div PGSIZE

\* What a copy of len bytes at va transfers, until a page that is not among pages.
Copy(va, len, pages) ==
  LET ps == Pieces(va, len)
      done == {k \in DOMAIN ps : \A j \in 1 .. k : PageOf(ps[j]) \in pages}
  IN [ok |-> done = DOMAIN ps, bytes |-> UNION {ps[k] : k \in done}]

CopyOut(t, va, len) == Copy(va, len, {v \in DOMAIN t.leaf : Writable(t, v)})
CopyIn(t, va, len) == Copy(va, len, {v \in DOMAIN t.leaf : Readable(t, v)})

\* copyinstr of a string that ends at address nul.
CopyInStr(t, va, max, nul) ==
  LET ps == Pieces(va, max)
  IN \E k \in DOMAIN ps : nul \in ps[k] /\ \A j \in 1 .. k : Readable(t, PageOf(ps[j]))

(***************************************************************************)
(* The calls                                                               *)
(***************************************************************************)
Unused == [state |-> "unused", node |-> {}, leaf |-> <<>>, sz |-> 0]
Image(s) == [state |-> "used", node |-> s.node, leaf |-> s.leaf, sz |-> s.sz]

\* allocproc: a page for the trapframe, and the page table.
AllocProc(s) ==
  IF s.free = 0 THEN Fails(s)
  ELSE Then(ProcPagetable(KAlloc(s)), LAMBDA t : IF t.ok THEN t ELSE KFree(t, 1))

\* freeproc of a process with a page table.
FreeProc(s) == ProcFreePagetable(KFree(s, 1))

\* userinit: the first process has one page.
Init ==
  \E s \in {UvmAlloc(AllocProc(On(NPAGE, NoTable)), PGSIZE, "rw")} :
     /\ free = s.free
     /\ others = 0
     /\ \E first \in Proc : proc = [p \in Proc |-> IF p = first THEN Image(s) ELSE Unused]
     /\ last = [call |-> "init", fails |-> FALSE, panic |-> s.panic]

Did(c, fails, s) == last' = [call |-> c, fails |-> fails, panic |-> s.panic]

\* Mutant: a failed copy keeps what it has mapped.
UvmCopyKeep(t, s) == Loop(s, 0, PgRoundUp(t.sz), LAMBDA x, v : Grow(x, v, v, t.leaf[v]))

\* uvmcopy of t's memory to the table of s, which has none.
UvmCopy(t, s) == Loop(s, 0, PgRoundUp(t.sz), LAMBDA x, v : Grow(x, 0, v, t.leaf[v]))

\* fork as far as memory goes; freeproc when a step fails.
Fork(p, c) ==
  /\ proc[p].state = "used" /\ proc[c].state = "unused"
  /\ \E new \in {AllocProc(On(free, NoTable))} : \E s \in {UvmCopy(proc[p], new)} :
        \/ /\ s.ok
           /\ free' = s.free
           /\ proc' = [proc EXCEPT ![c] = Image([s EXCEPT !.sz = proc[p].sz])]
           /\ Did("fork", FALSE, s)
        \/ /\ ~s.ok
           /\ \E gone \in {IF new.ok THEN FreeProc(s) ELSE new} : free' = gone.free /\ Did("fork", TRUE, gone)
           /\ UNCHANGED proc
  /\ UNCHANGED others

\* growproc; a size below 0 wraps around and changes nothing.
GrowProc(s, n) ==
  IF n > 0 THEN UvmAlloc(s, s.sz + n, "rw") ELSE IF s.sz + n < 0 THEN s ELSE UvmDealloc(s, s.sz + n)

Sbrk(p) ==
  /\ proc[p].state = "used"
  /\ \E n \in Change : \E s \in {GrowProc(On(free, proc[p]), n)} :
       /\ free' = s.free
       /\ proc' = [proc EXCEPT ![p] = Image(s)]
       /\ Did("sbrk", ~s.ok, s)
  /\ UNCHANGED others

\* uvmclear makes the guard page inaccessible.
Stack(s) ==
  LET base == PgRoundUp(s.sz)
  IN Then(UvmAlloc([s EXCEPT !.sz = base * PGSIZE], (base + USERSTACK + 1) * PGSIZE, "rw"), LAMBDA t :
       IF t.ok THEN [t EXCEPT !.leaf[base] = "none"] ELSE t)

Flags2Perm(k) == IF k = 1 THEN "rx" ELSE "rw"

\* The new table with the segments and the stack.  The file cannot be read to the end if fault = "load".
NewImage(s, prog, fault) ==
  LET Segment(x, k) == UvmAlloc(x, prog[k], Flags2Perm(k))
  IN Then(Loop(s, 1, Len(prog) + 1, Segment), LAMBDA t : Stack(IF fault = "load" THEN Fails(t) ELSE t))

\* exec with avail free pages.  fault: the file is no program, it cannot be read, or the arguments do
\* not fit on the stack.  The old memory goes when the new one is complete.
Exec(p, avail, prog, fault) ==
  LET Bad(s) == [Fails(On(s.free, proc[p])) EXCEPT !.panic = s.panic]
      Commit(s) == Then(ProcFreePagetable(On(s.free, proc[p])), LAMBDA old :
                     [s EXCEPT !.free = old.free, !.panic = @ \/ old.panic])
      Loaded(s) == IF s.ok /\ fault # "args" THEN Commit(s) ELSE Then(ProcFreePagetable(s), Bad)
  IN IF fault = "header" THEN Fails(On(avail, proc[p]))
     ELSE Then(ProcPagetable(On(avail, NoTable)), LAMBDA made :
            IF made.ok THEN Then(NewImage(made, prog, fault), Loaded) ELSE Bad(made))

\* The arguments are copied to argc pages of the kernel first, and these are freed last.
SysExec(p) ==
  /\ proc[p].state = "used"
  /\ \E prog \in Program, argc \in 0 .. 1, fault \in {"none", "header", "load", "args"} :
       \E s \in {IF argc > free THEN Fails(On(free - argc, proc[p])) ELSE Exec(p, free - argc, prog, fault)} :
       /\ free' = s.free + argc
       /\ proc' = [proc EXCEPT ![p] = Image(s)]
       /\ Did("exec", ~s.ok, s)
  /\ UNCHANGED others

\* exit leaves the memory to wait, which frees it.
Exit(p) ==
  /\ proc[p].state = "used" /\ \E q \in Proc \ {p} : proc[q].state = "used"
  /\ proc' = [proc EXCEPT ![p].state = "zombie"]
  /\ Did("exit", FALSE, On(free, NoTable))
  /\ UNCHANGED <<free, others>>

Wait(p) ==
  /\ proc[p].state = "zombie"
  /\ \E s \in {FreeProc(On(free, proc[p]))} : free' = s.free /\ Did("wait", FALSE, s)
  /\ proc' = [proc EXCEPT ![p] = Unused]
  /\ UNCHANGED others

\* Pipes, arguments of exec, other processes.
OthersTake == free > 0 /\ free' = free - 1 /\ others' = others + 1 /\ UNCHANGED <<proc, last>>
OthersGive == others > 0 /\ free' = free + 1 /\ others' = others - 1 /\ UNCHANGED <<proc, last>>

Next ==
  \/ \E p \in Proc : Sbrk(p) \/ SysExec(p) \/ Exit(p) \/ Wait(p) \/ \E c \in Proc : Fork(p, c)
  \/ OthersTake \/ OthersGive

Spec == Init /\ [][Next]_vars

(***************************************************************************)
(* Properties                                                              *)
(***************************************************************************)
\* The pages of process p: trapframe, page tables, and user memory.
Owned(p) == IF proc[p].state = "unused" THEN 0
            ELSE 1 + Cardinality(proc[p].node) + Cardinality(DOMAIN proc[p].leaf \ {TRAMPOLINE, TRAPFRAME})

\* Every page is on the free list or has one owner: whichever kalloc fails in whichever call, no
\* page is lost, none is freed twice and none is in two memories.
PagesAccounted == free + others + FoldSet(LAMBDA p, n : n + Owned(p), 0, Proc) = NPAGE

\* The panics of mappages (remap), uvmunmap (not mapped) and freewalk (leaf) are never reached, and a
\* process has exactly the pages below its size mapped.
ImageComplete ==
  /\ ~last.panic
  /\ \A p \in Proc : proc[p].state # "unused" =>
       DOMAIN proc[p].leaf = (0 .. PgRoundUp(proc[p].sz) - 1) \cup {TRAMPOLINE, TRAPFRAME}

\* copyin, copyout and copyinstr go on exactly as far as the user's own access would, at every address
\* and length: in particular a range that starts or ends inside a page, or spans the guard page.
CopiesExact ==
  \A p \in Proc : proc[p].state = "used" =>
    LET t == proc[p]
        Reach(S, Ok(_)) == {b \in S : \A c \in S : c <= b => Ok(c \div PGSIZE)}
    IN \A va \in 0 .. t.sz + 1, len \in 0 .. 2 * PGSIZE + 1 :
         LET S == va .. va + len - 1
             R == Reach(S, LAMBDA v : Readable(t, v))
             W == Reach(S, LAMBDA v : Writable(t, v))
         IN /\ CopyIn(t, va, len) = [ok |-> R = S, bytes |-> R]
            /\ CopyOut(t, va, len) = [ok |-> W = S, bytes |-> W]
            /\ \A nul \in S \cup {va + len} : CopyInStr(t, va, len, nul) <=> nul \in R

\* A call that fails leaves the memory of every process as it was; a failed fork or exec also gives
\* back every page it took (a failed sbrk may keep page tables, in the process that asked).
FailureUndone ==
  [][last'.fails =>
       /\ \A p \in Proc : proc'[p].leaf = proc[p].leaf /\ proc'[p].sz = proc[p].sz
       /\ last'.call # "sbrk" => proc' = proc /\ free' + others' = free + others]_vars
=============================================================================
