# A TLA+ verification of the xv6-riscv lab kernel

This directory holds TLA+ models of the kernel and user programs in
`src/xv6-labs-2024`, the TLC configurations that check them on small instances,
and theorems about them that TLAPS checks for every size. All source paths below
are relative to `src/xv6-labs-2024`.

## The system

xv6 is a small Unix for a RISC-V multiprocessor. The build is the `util` lab
(`conf/lab.mk`).

| part | source | state it keeps | who changes it concurrently |
|---|---|---|---|
| spinlocks, interrupt nesting | `kernel/spinlock.c` | `locked`, `cpu`, per-CPU `noff`, `intena` | CPUs, interrupt handlers |
| processes and scheduler | `kernel/proc.c`, `swtch.S` | `proc[]`, `cpus[]`, `nextpid`, `wait_lock` | all CPUs, timer interrupts |
| traps, clock | `kernel/trap.c`, `sysproc.c` | `ticks` | timer interrupt, `sys_sleep` |
| sleep locks | `kernel/sleeplock.c` | `locked`, `pid` | processes |
| buffer cache | `kernel/bio.c` | LRU list, `refcnt`, `valid` | processes |
| write-ahead log | `kernel/log.c` | `log`, on-disk header and log blocks | processes, power failure |
| block and inode layer | `kernel/fs.c` | bitmap, `itable`, dinodes, directories | processes |
| files, descriptors | `kernel/file.c`, `sysfile.c` | `ftable`, `ofile[]` | processes |
| pipes | `kernel/pipe.c` | ring buffer, open flags | readers, writers, `kill` |
| page allocator, page tables | `kernel/kalloc.c`, `vm.c` | free list, page tables | CPUs |
| exec | `kernel/exec.c` | address space of the caller | the caller |
| disk driver | `kernel/virtio_disk.c` | descriptor and used rings | processes, device, interrupt |
| console, UART | `kernel/console.c`, `uart.c` | line buffer, transmit buffer | processes, interrupts |
| system call entry | `kernel/syscall.c` | none | |
| file-system image builder | `mkfs/mkfs.c` | the image | |
| user allocator | `user/umalloc.c` | free list | |
| lab programs | `user/primes.c`, `pingpong.c`, `find.c`, `xargs.c` | pipes, processes | the processes they fork |
| init, shell | `user/init.c`, `sh.c` | children, parse tree | |
| other programs, tests | `user/*.c` | | |

How they interact: system calls run on the process's kernel stack and wait with
`sleep`/`wakeup` (`proc.c`). File-system calls bracket their writes with the log
(`begin_op`, `end_op`), which pins and writes blocks through the buffer cache,
which reads and writes through the disk driver, which sleeps until its interrupt.
Pipes and the console sleep on their own channels. `fork`, `exit` and `wait`
share the process table with the scheduler.

The modules follow that layering, and what a module takes as one step is what the
model of the layer below shows to be one. `Sched` shows that `sleep` and `wakeup`
are atomic for the users of a condition lock, which `Log`, `Pipe`, `BufCache`,
`Virtio` and `Devices` take as a step. `Virtio` shows that a transfer is one step,
which `BufCache` and `Log` use. `BufCache` shows that a block has one copy with
exclusive use, which `Log` uses as `cache`. `Log` shows that the operations in
progress become durable together, which `FileSys` and `Files` use as `committed`.
`Programs` uses pipes, descriptors and `wait` as `Pipe`, `Files` and `ProcTable`
establish them. These links between modules are an argument; they are not
machine-checked. Within a module several parts are composed: `FileSys` joins the
inode table, directories, path lookup and the calls; `Files` the descriptors, the
file table, the inodes' blocks and crashes; `Devices` spinlocks, interrupts, clock,
console and UART; `Memory` the allocator, page tables, `fork`, `sbrk` and `exec`;
`Programs` the shell, the programs and the pipes between them.

## Modules

| module | models | promise it is checked against | proofs |
|---|---|---|---|
| `Log` | `log.c` with crashes | `AtomicDisk` | `LogProofs` |
| `BufCache` | `bio.c`, `sleeplock.c` | `BlockStore` | `BufCacheProofs` |
| `Virtio` | `virtio_disk.c` and the device | `BlockDevice` | `VirtioProofs`, with `Rings` |
| `Pipe` | `pipe.c`, with close, fork, exit, kill | `ByteQueue` | `PipeProofs`, with `Rings` |
| `ProcTable` | `fork`, `exit`, `wait`, `kill` of `proc.c`, `user/init.c` | invariants | `ProcTableProofs` |
| `Sched` | `scheduler`, `sched`, `yield`, `sleep`, `wakeup` of `proc.c` | `CondVar` | `SchedProofs` |
| `FileSys` | `fs.c` and `sysfile.c`: inodes, directories, paths, the calls on names, crashes | invariants | model-checked only |
| `Files` | `file.c`, descriptors, bitmap, `bmap`, `itrunc`, `readi`, `writei`, crashes | each file's contents as a sequence of bytes (`text`) | model-checked only |
| `Memory` | `kalloc.c`, `vm.c`, `exec.c`, memory of `fork`, `sbrk`, `exit`, `wait` | invariants; `copyin` etc. against a byte-wise definition | model-checked only |
| `Devices` | `spinlock.c`, `trap.c`, `sys_sleep`, `console.c`, `uart.c` | invariants | model-checked only |
| `Shell` | the parser of `user/sh.c` | a grammar | model-checked only |
| `Programs` | `user/primes.c`, `pingpong.c`, `sh.c` (`runcmd`, `main`), `echo.c`, `cat.c` | the numbers, characters and exits they should produce | model-checked only |

`MCLog`, `MCBufCache`, ... are the instances; they add symmetry sets, for runs
without liveness, and the values of set-valued constants. A definition whose
comment begins with *Mutant* is a plausible bug; nothing uses it, except to see
that the property it is meant for notices it.

### Log

State: the disk (`home`, `logblk`, `head`), the cached blocks and pins, `log.lh`,
`log.outstanding`, `log.committing`, and where each process is in
`begin_op .. end_op`. A critical section of `log.lock` is an action. `write_log`,
`write_head`, `install_trans` and the erasing of the header take one step per disk
write; `Crash` may happen between any two steps and in the middle of a write of a
log or home block, which then holds anything, including during recovery. The
header fits in one sector and is written whole or not at all. `log_write` panics
where the code does. Abstracted: block contents are values, a process logs at most `MAXOPBLOCKS`
blocks per operation as the comment on `begin_op` requires.

### BufCache

State: the fields of `struct buf`, the list as a permutation with the most
recently used buffer first, the holder of each buffer's sleep lock, and the log's
pins. `bget` is one action with three outcomes (hit, recycle, panic) because it
holds `bcache.lock` throughout; `acquiresleep`, the disk transfer, `bpin`,
`bunpin` and the two halves of `brelse` are steps of their own. Once `bget` has
panicked `bcache.lock` stays locked, so everybody who needs it hangs. Callers
keep the discipline of `fs.c` and `log.c`: what they change they log. A process
uses one buffer at a time; the order in which the callers nest two buffers
is left out (the inode locks above them are in `FileSys`).

### Virtio

State: descriptors (`free`, `next`, and `addr` where it is a buffer), both rings
and their indices modulo `WORD`, `info`, the request blocks, the interrupt line,
`b->disk`, `vdisk_lock`. The callers, the interrupt handler (acknowledge, one step
per ring entry, leave the loop, return) and the device interleave; the device
takes requests in ring order and completes them in any order. The device is
external: it is modelled from the comments and the use the driver makes of it.
Both panics are outcomes (`lock = Panic`). `virtio_disk_init` is the initial state.

### Pipe

State: `struct pipe` with counters modulo `WORD`, `pi->lock`, who sleeps where,
the descriptors of every process, `killed`. Every test, byte, sleep and return is
a step, since `wakeup`, `kill` and `copyout` failures fall between them. `fork`
duplicates descriptors, `close`, `exit` and a killed process's exit close them.

### ProcTable

State: `state`, `pid`, `parent`, `chan`, `killed`, every `p->lock`, `wait_lock`,
and the scan indices of `fork`, `exit`, `wait`, `kill`, `wakeup` and `reparent`;
each slot a scan visits is a step. Slot 1 runs `init.c`. Page-table work is left
out, except that an allocation may fail, in `allocproc` or later in `fork`.

### Sched

State: `state`, `chan`, `p->lock`, `c->proc`, the stack each CPU is on, the
scheduler's loop index, and a condition lock with its flag, which the processes
use as drivers and pipes do. `swtch` is the change of the stack a CPU runs on,
with `p->lock` held across it.

### FileSys

State: the inodes on disk as the cache holds them and as a crash would leave them,
`itable` (reference count, cached fields, sleep lock), the number of file-system
calls in progress, and for each process its call, its place in it, its current
directory and one open file. A step is a critical section of an inode's lock or of
`itable.lock`, so two processes interleave between any two path elements, between
the halves of `iput`, and between the two directories that `link` and `unlink`
touch. Directory entries are a function from names; a directory that has to grow
may find the disk full. `Crash` forgets everything but `committed`. `ilock`'s panic
on an inode without a type is an outcome: it is reached through `..` of a removed
directory whose parent has been removed too.

### Files

State: the bitmap, blocks, inodes with direct and indirect addresses, what the
open transaction has logged, the committed disk, the inode references and locks, the
file table, the descriptors and the open flags of pipes. `text` is what a reader of
the manual expects of each file: for each byte, the values a read may return. It is
a set because `writei` copies part of a block and then finds that `copyin` fails:
the buffer is changed but not logged, and the old bytes come back when the buffer
is recycled. `writei` takes one step per block and `filewrite` one transaction per
`CHUNK`, between which other processes run. `bmap`, `itrunc`, `balloc` and `bfree` are
operators on the disk that those steps apply. Every failure of `sys_open` and
`sys_pipe` is an outcome, with the undoing the code does. Names are given by
inode; that is `FileSys`'s half.

### Memory

State: how many pages are free, how many the rest of the kernel has, and each
process's size and page table, a tree of page-table pages with mapped leaves. A
call is one step, since its page table belongs to one process; every `kalloc` in it
may be the one that fails, because others take pages before it. Pages are counted:
one that is lost, freed twice or used twice shows in the sum. `mappages`' remap,
`uvmunmap`'s "not mapped" and `freewalk`'s "leaf" panics are recorded.

### Devices

State: per CPU the interrupt flag, `noff`, `intena` and a stack of frames; who holds
each spinlock; `ticks`; the console's and the UART's rings with indices modulo
`WORD`; the device's FIFO, receive register and interrupt. An interrupt pushes a
handler's frame wherever interrupts are on. `acquire` and `release` take two steps
each (`push_off`, the atomic instruction). Coarser than the code: the characters an
echo writes are one `uartputc_sync`, and the test of `killed` and the `sleep` after it
are one step, so that a `kill` does not fall between them.

### Shell and Programs

`Shell` is the recursive-descent parser on tokens. `Programs` runs `primes`,
`pingpong` or a shell line: a step is one system call with the calls after it that
neither wait nor fail. `fork` and `pipe` fail when processes (`Limits`) or pipes run
out; the programs then go on as the code does, which in `primes` and `pingpong` is
to take the failed `fork` for the parent's return. A shell builds the command tree
with `Shell`'s parser. `>>` opens without truncating and without appending, as
`sh.c` has it; of two redirections of one descriptor the last is outermost, so that the
first on the line is opened last and wins.

## Runs

| run | instance | states | shows |
|---|---|---|---|
| `log` | 2 processes, 3 blocks, 2 values, operations of 2 blocks, LOGSIZE 4 | 330 000 | crash-atomic groups, space reservation, durability on return, no forgotten sleeper |
| `buffer_cache` | 2 processes, 2 buffers, 3 blocks, 2 values | 180 000 | block store whatever is recycled, sleepers woken |
| `virtio` | 3 callers, 7 descriptors, indices modulo 7 | 740 000 (symmetry) | atomic transfers, descriptors accounted for, no unnoticed completion, nobody oversleeps |
| `pipe` | 2 processes, ring of 2, counters modulo 4, 2 byte values | 460 000 | FIFO, freed once with nobody inside, end of file and broken pipe |
| `process_table` | 3 slots | 150 000 | no lost exit, quiet stacks, every child has a parent, no deadlock, `exit` completes, `init` reaps orphans |
| `scheduler` | 3 processes, 2 CPUs | 7 400 | one CPU per stack, atomic `sleep`/`wakeup`, round robin runs everybody |
| `file_system` | 2 processes, 3 inodes, 4 paths, 3 calls, empty disk or up to two files | 2 800 000 (symmetry) | exact references, names lead to inodes after a crash, open files stay allocated, `iput` never waits, no circular wait |
| `inode_orphan` | the same with 2 calls | violation | see Findings |
| `files` | 2 processes, 2 files of up to 3 blocks of 2 bytes, 4 blocks, 3 struct files, 2 descriptors | 1 300 000 (symmetry) | exact reference counts of files, pipes and inodes; every block owned once; contents kept |
| `memory` | 2 process slots, 18 pages, tables of 3 entries, 3 programs | 29 000 (symmetry) | no page lost, images complete, copies exact, failures undone |
| `devices` | 2 CPUs, rings of 2, indices modulo 4 | 150 000 | interrupt nesting, input intact, output in order, sleeps long enough, sleepers woken |
| `programs` | up to 8 processes and 7 pipes of 2 numbers; `primes` to 13, `pingpong`, ten shell lines; the parser on every line of up to 5 tokens | 22 000 | right results, parser agrees with the grammar, programs finish |

### Bounds, and why they are enough

* Log: two operations of two blocks overlap, absorb each other's blocks and wait
  for space; the log area (`NLOG` 3) is a block shorter than `mkfs`'s, so that three
  blocks overfill it. The proofs do not depend on these sizes. `SpaceReserved` and
  `SleeperWoken` are only checked here, with at most one sleeper in `begin_op`
  beside a running operation.
* BufCache: fewer buffers than blocks, so that recycling and the panic happen; one
  process holds while the other sleeps or recycles. The safety properties are
  proved for any number.
* Virtio: seven descriptors are two chains and one left over, so that requests
  complete out of order and a third caller's `alloc3_desc` fails half-way; the
  indices wrap after seven requests. `WORD` need only be a multiple of `NUM`, as
  2^16 is of 8. The safety properties are proved for any ring size and any number
  of callers.
* Pipe: a ring of two wraps, and counters modulo four wrap once per two ring
  lengths, as 2^32 does for 512. A call moves at most two bytes (`MaxCount`), and
  sleeps in the middle when the ring is not empty. Safety is proved for any number
  of processes, any ring size and any width of the counters that the ring divides.
* ProcTable: `init`, a parent and a child that becomes an orphan are the smallest
  family. Four slots were not exhausted in 25 minutes; the safety properties are
  proved for any number.
* Sched: more processes than CPUs, so that RUNNABLE processes wait, and two CPUs
  that contend for one. The safety properties are proved for any number.
* FileSys: with three inodes there is a directory in a directory, or a directory
  and a file in it; three calls by two processes (`MaxCalls`) are a call that
  races two others. Longer histories are partly replaced by the initial disks.
* Files: four data blocks and a file of up to three (one direct, two through the
  indirect block, which itself takes one) make the disk run full at each of
  `bmap`'s allocations. Writes are a byte or three bytes, so that they start, end
  and cross block boundaries. A `Scenario` restricts which calls occur together and
  how many (4, or 5 for descriptors).
* Memory: tables with three entries need a second table within the sizes used, so
  that a page-table allocation fails too. `MemoryAssumption` keeps physical memory
  smaller than the address space, as on the machine.
* Devices: rings of two fill and wrap, indices modulo four wrap twice as late, as
  in the code. A behaviour exercises one source of system calls (clock, console
  output with echo, console input).
* Programs: six primes up to 13 make a chain of stages longer than a pipe; the
  limits leave room for all processes or for too few. `MAXARGS` is 4 so that the
  parser's panic for too many arguments is reached.

Deadlock is checked in every run but those of `Pipe` (a process may wait for ever
for a byte only it could write), `FileSys` and `Files` (the bounded calls are used
up) and `Programs` (the programs end).

### Fairness

* A process that is RUNNABLE runs: the timer interrupt yields (`trap.c`) and the
  scheduler goes round the table; `scheduler` checks this from the fairness of
  the CPUs alone. Hence weak fairness of kernel code that waits for nothing, and
  of the programs' steps in `Programs`.
* A spinning `acquire` of a lock that is free again and again succeeds sometime:
  strong fairness of the steps that take a spinlock.
* A file-system operation that began ends, and a buffer that was got is released:
  the callers' loops are bounded. User processes are not fair otherwise, except
  for `init`'s loop and the exit of a process that was killed.
* The UART sends, the timer of CPU 0 ticks and its pending interrupts are taken
  when they are enabled again and again (hardware). In `Devices` each CPU, and the
  process under its handlers, runs again and again: handlers are finite.
* No fairness is assumed between waiters of a sleep lock or of `begin_op`: the
  properties promise that a sleeper is woken, not that it wins.

## Findings

`inode_orphan`: the comment on `iput` (`kernel/fs.c:332`) says "If that was the last
reference and the inode has no links to it, free the inode (and its content) on
disk". `iput` frees the inode on disk and unlocks it before it drops its reference.
`ialloc` may take the inode number in between, and `iget` then finds the entry that
is still in the table and makes its `ref` 2. If that `create` fails on a full disk,
its `iput` sees `ref` 2 and leaves the inode, and the first `iput` drops the last
reference without looking again. The inode stays allocated, with no name and no
reference, without a crash. The names on the disk stay sound (`NamesSound`).

Two things done in a removed directory that somebody works in weaken what the
names say, and `stray` records them. `create` and `sys_link` do not look whether
their directory has been removed; once a name was made in one, link counts are only
bounds. And `..` of a removed directory may be an inode that was freed and given out
again. A process that goes there can make a name in, or link to, an inode that
another `create` has allocated and not yet given its link; that `create` then writes
`nlink = 1` (`sysfile.c:273`) over the count. `NamesSound` says nothing after such a
step. It takes five calls to get there.

Other behaviour that the models have and that no comment or test contradicts:

* `log_write` panics when `log.lh.n >= log.size - 1` (`log.c:220`), and `mkfs` makes
  `nlog = LOGSIZE`; the log therefore holds one block less than the reservations
  `begin_op` gives out (`log.c:133`).
* A writer killed in mid-write returns without waking the readers (`pipe.c:84-87`),
  who sleep although there are bytes; `ReadersSleepOnEmpty` has the exception.
* `kill(0)` matches an unused slot, whose `pid` is 0 (`proc.c:604`), and sets
  `killed`, which `allocproc` does not reset; the next process born there is killed.
* NBUF equals LOGSIZE: with the log full of pins, `bget` can run out of buffers.
* `primes` up to 280 has 59 stages. That is 61 of the 64 processes with `init` and
  the shell, and more struct files than `NFILE` if all stages are alive at once; it
  depends on the early stages' closing theirs in time.

## Proofs

All theorems hold for every value of the constants that satisfies the module's
`ASSUME`: finitely many processes, non-zero sizes, ring size dividing the counter
range, and null values different from real ones.

* `LogProofs`: `TypeCorrect`, `CommitsAlone`, `ReturnsDurable`,
  `SleepersHaveWakers`, `SpaceIsReserved`, `LogRefinesAtomicDisk`. The invariant `LogInv` ties
  `outstanding` to the number of processes inside an operation, and says for each
  phase which of cache, log area, header and home blocks agree: without it, a
  crash in the middle of `install_trans` cannot be seen to be recoverable.
  `SpaceInv` counts what the operations inside may still log as one set of
  (process, number) pairs next to the header; a block that a process logs removes
  a pair of its own, an absorbed one only that.
* `BufCacheProofs`: `TypeCorrect`, `BlocksCachedOnce`, `ReferencesCounted`,
  `CacheRefinesBlockStore`. `BufInv` adds that a valid copy which differs from the
  disk is pinned or about to be (`CopyInv`): that is why recycling loses nothing.
  That `bget`'s second loop finds an unused buffer needs that the list is complete
  (`LruComplete`, a conjunct of `BufInv`) and that a set of positions has a last
  one (well-foundedness).
* `PipeProofs`: `TypeCorrect`, `NeverUsedAfterFree`, `WritersSleepOnFull`,
  `ReadersSleepOnEmpty`, `PipeRefinesByteQueue`. `PipeInv` says who may hold the
  lock, that an end is open as long as somebody has or is closing it, and that a
  sleeper on a ring that is no longer full (empty) has its waker in the critical
  section. `CountInv` puts two numbers that never wrap behind `nread` and `nwrite`;
  the queue is the slice of the ring between them.
* `ProcTableProofs`: `ExitsAreNotLost`, `StacksAreQuiet`, `ChildrenHaveParents`.
  `ProcInv` says what each state of a slot allows its thread to be doing, that the
  slot `fork` fills is nobody else's (`ForkInv`), how far `reparent` and `wait` have
  come in their scans (`OrphanInv`, `ScanInv`), and that a zombie whose parent is
  going to sleep has its wakeup under way (`WakeInv`): the scan indices are needed
  because the table changes behind them, slot by slot.
* `VirtioProofs`: `NoDescriptorLost`, `CompletionsAreNoticed`, `SleepersHaveReason`,
  `DriverNeverPanics`, `VirtioRefinesBlockDevice`. `VirtioInv` follows a request
  through the chain of three descriptors (`ChainInv`) and from the avail ring over
  the device to the used ring (`RequestInv`). The two 16-bit indices of a ring are
  the remainders of two counts that never wrap and are less than a turn apart
  (`AvailInv`, `UsedInv`): that makes the cell written next an empty one. There is
  always room because a request takes three of the `NUM` descriptors. `Rings` has
  the lemmas on remainders and ring windows, with a bound on the number of
  entries by an injection into the descriptors.
* `SchedProofs`: `TypeCorrect`, `StacksExclusive`, `SchedNeverPanics`,
  `SchedRefinesCondVar`. `SchedInv` follows `p->lock` through `swtch`, from the CPU
  that acquired it to the one that releases it.

Only model-checked: all liveness properties (the prover does not do fairness) and
everything about `FileSys`, `Files`,
`Memory`, `Devices`, `Shell` and `Programs` (`Shell`'s parser is recursive).

## Not modelled

* `find` and `xargs`: sequential walks over strings that share nothing. Two limits
  read from the code: each level of `find` keeps a descriptor open, and the return
  at `find.c:40` leaves one; `xargs` chooses its line buffer by the number of words
  read so far, which goes beyond the array after MAXARG words.
* Of the shell: `cd`, the splitting of characters into tokens, `nulterminate`. Of
  `cat`: arguments. The other programs and the tests only call the system.
* `umalloc.c`: private to a process.
* `mkfs`: a sequential host program; what it writes as the root directory is
  `FileSys`'s initial state.
* `sys_mknod`, device files in the file table (the console's own functions are in
  `Devices`), `sys_fstat` and `filestat`, which change nothing.
* The inode that `exec` holds locked while it loads.
* Liveness of the disk driver: an instance with two chains and fairness is too
  large; `NobodyOversleeps` and `CompletionNoticed` are the safety side of it.
* Assembly (`swtch.S`, `trampoline.S`, `entry.S`), boot, PLIC and other register
  code, `kvminit`, formatting.
