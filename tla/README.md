# A specification of miros

miros is a single-binary runtime for x86-64 Linux: it is the ELF loader, the
dynamic linker, the C library, the thread library and the memory allocator of
the program it runs. These TLA+ modules specify the parts of it that keep
state: those in which several threads share it, with a lock that miros itself
implements or with none; those whose long histories of calls matter; and the
computations that everything else rests on. They are written from the source;
a path below is relative to `src/src/` unless it begins with `xtask/`, which
is under `src/`.

1. [The system](#1-the-system)
2. [Modules and what they stand for](#2-modules-and-what-they-stand-for)
3. [What the runs check](#3-what-the-runs-check)
4. [Fairness](#4-fairness)
5. [What is proved](#5-what-is-proved)
6. [Where the code differs from what it says](#6-where-the-code-differs-from-what-it-says)
7. [Assumptions and limits](#7-assumptions-and-limits)
8. [Not modelled](#8-not-modelled)
9. [Plan](#9-plan)

Run a check with `tlc -config Threads.cfg MCThreads.tla`, a proof with
`tlapm ThreadsProofs.tla`. The list of runs, the source lines of each
definition and the hazards are in `PROJECT.json`.

## 1. The system

### Start to end of a program

The kernel enters `_start` (start/mod.rs). miros relocates itself, sets up its
own thread-local storage, runs its own initialisers and installs the first
heap. It then reads the executable and runs a pipeline over the graph of
objects: load the dependencies breadth first by name, skipping the libraries
it replaces; relocate; bind the cells that a program may interpose; register
the objects' TLS modules; run the initialisers, dependencies first. It jumps
to the program, whose `__libc_start_main` calls `main`, the main thread's
`thread_local` destructors, the exit handlers in reverse order, a flush of all
streams and `exit_group`.

A thread made by `pthread_create` (libc/threads/create.rs) runs: install a
heap; the program's routine; `thread_local` and key destructors; give the heap
up; leave or unmap the region.

### Components

| Component | State | Operations | What makes it correct |
|---|---|---|---|
| mutex (libc/threads/mutex.rs) | futex word 0/1/2, owner, recursion count, kind | lock, trylock, unlock; release and re-acquire for a condition wait | one holder; owner and depth describe it; no sleeper is forgotten; every call returns |
| once (once.rs) | one word: not run, in progress, done | `pthread_once` | the routine runs once; nobody returns before it has ended; nobody sleeps for ever |
| thread lifecycle (create, join, self_detach) | a control block in each thread's region: tid, detach state, return value | create, exit, join, detach | the region is unmapped once, after its last use; a join returns the value; `tid` is zero only when the thread is gone |
| thread-specific data (key.rs, mod.rs) | table of keys with generations; each thread's values; destructor stack | key create and delete, get, set, teardown | no value crosses from one life of a key to the next; teardown forgets nothing and ends |
| condition variable (cond.rs) | ticket counter with a slot bit, two groups with sizes and signal counts, an internal lock, a reference count | wait, signal, broadcast, destroy | a signal wakes a thread that waited when it was sent; nobody leaves without a signal; destroy waits for the last user |
| read-write lock (rwlock.rs) | `readers` (count, phase, writer bit, waiting bit), `writers`, two futex words, current writer | read, write, try, unlock; three preferences | a read-write lock; nobody waits for a hand-over that no thread owes; writers are not overtaken when they must not be |
| small allocations (allocator/heap, span, primary, class_window) | per thread: magazines and span lists; per span: owner, bitmap, remote bitmap; shared: pool of abandoned spans | malloc, free, thread start and exit | no slot belongs to two; none is lost; lists agree with bitmaps; a free reaches the right bitmap |
| windows (window_directory.rs, primary.rs) | directory by address, current window of each class, growth lock | carve, mint, look up | a lookup finds every published window; one mint for each exhaustion |
| large allocations, malloc interface (large_allocator.rs, libc/alloc.rs) | list of regions, cache of eight | malloc, calloc, aligned, realloc, free | a region is in one place; a block is as large and aligned as asked; zeroed memory is zero |
| TLS layout (tls/) | free list of one layout shared by all threads, registry of modules | allocate and release a block, register, initialise a thread | blocks are disjoint; every thread has every module's image |
| metadata lists (utils/) | intrusive lists; regions of slots with bitmaps | push, remove, splice; allocate, free | a node is in one list; a region's list follows from its count |
| buffered output (libc/stdio) | stream buffer, flags, recursive futex lock by thread id, list of streams | put, write, flush, close, flush all | each byte is written once, in order; a locked operation is not interleaved |
| exit (libc/process) | stack of handlers | register, exit | last registered first; each once; nothing accepted is left behind |
| start-up (start/) | the kernel's stack, own image, settings | self relocation, own TLS and initialisers, direct invocation | nothing runs before what it uses is there; the program sees the stack a kernel would have given it |
| loading (objects/, elf/) | the graph of objects; each file's image, tables and relocations | load, relocate, resolve, initialise | dependencies first; the first definition in search order wins; one variable is one variable |
| option parsing (libc/getopt) | scan position, block of non-options | `getopt_long` | options first, both orders kept |
| formatting (libc/str/printf) | position, argument list, writer | the printf family | each field takes its own arguments and shows its value, up to a long double; the count is right or the call fails |
| directory streams (libc/fs/dir.rs) | descriptor, buffer with two offsets | opendir, readdir, closedir | every entry once; no descriptor leaks |
| example runner (xtask/src/test/runner.rs) | output buffers, claims, deadlines | the directives of a test | a pass means all output is claimed; which directives fail does not depend on timing, but for an INPUT to a program that may be gone |
| strings, files, network, locale, small services | none, or one buffer | one call each | results of pure functions; one system call |

The components meet at few places. The condition variable uses the mutex
through `release_for_wait` and `acquire_after_wait`. Thread start and exit
call the key teardown and the heap's install and abandon, in the order above.
All blocking goes through one futex wait and one futex wake (threads/mod.rs,
syscall/futex.rs). The allocator is beneath everything else: a large request
goes to the regions, a small one to a heap, whose spans come out of windows,
whose metadata come out of lists. Exit walks the streams under their locks.

What is hard here: words that pack several fields and are changed by several
threads with compare-exchange; wakes that are sent after the state they
announce has changed again; slots of memory that are freed by a thread which
does not own them, while the owner exits; memory that is unmapped while the
kernel still holds an address in it; keys, groups and heaps that are reused
under a new generation; writes that fail half way; order, of libraries, of
initialisers and of moved words, that follows from a whole history; and
integers at the edge of their width.

## 2. Modules and what they stand for

In a module of threads an action is one access to state that other threads
reach, together with the private computation around it. In a module of a part
that runs on one thread, or under one lock from its first access to its last,
an action is one call, or one stage. Names are the code's. A
history variable (`held`, `live`, `lapses`, `listed`, ...) is never read by an
action's guard unless it stands for the rules the caller must keep (it unlocks
what it holds, frees what it got). Where a definition has a neighbour that
differs by one slip (`MustWake` and `MustWakeIfLocked`), the neighbour is a
faulty variant which the runs reject; no behaviour uses it.

| Module | Of the code | Correspondence |
|---|---|---|
| `Mutex` | mutex.rs | `state`, `owner`, `recursion`, `kind` are the fields; `Cas`, `Swap`, `FutexWait` are `acquire`; `Release`, `FutexWake` are `release`; `Own` the stores of `acquire_owned`; `CondWait`, `ClearRecursion`, `Resume` what a condition wait does to the mutex. A futex may return for no reason (`SpuriousReturn`) |
| `OwnedLock` | what a mutex promises | a depth for each thread, and the depth a waiting thread has given up; at most one is positive |
| `Once` | once.rs | the word, the routine's start and end, the park and the wake |
| `ThreadLifecycle` | create, join, self_detach, thread_control_block, syscall/exit | `memory` holds the control block of each mapped region; `UnmapSelf` and `KernelExit` are the two system calls at the end of a detached thread, between which another thread may map the region again (`Reuse`) |
| `ThreadKeys` | key.rs, the destructors of mod.rs | `entries` is the global table, `locals` each thread's; a destructor is a pause in which the thread may call anything again. `ScanFind` is the lookup of a destructor under the table lock, `ScanCall` the clearing of the value and the call, after the unlock; `found` is the life of the key that the lookup saw |
| `Cond` | cond.rs | each load, exchange and store of `pthread_cond_*` is an action, the internal lock included; the mutex is an `OwnedLock` of one level. A woken futex queue gives its head; a thread joins it at the end when `FifoWake`, anywhere otherwise, as the kernel orders by priority |
| `Rwlock` | rwlock.rs | `readers`, `writers`, `phaseWord`, `writersWord`, `current` are the words; `ReadLock` to `Check` are `read_lock`, `WriteLock` to `WriteOwn` are `write_lock`, `ReadRelease` and `WriteClose` to `WriteReadersIn` the unlocks |
| `SharedLock` | what a read-write lock promises | holders of each kind; a writer excludes everybody |
| `SpanHeap` | allocator/heap, allocator/span, primary.rs, class_window.rs | one size class: `lists` and `magazine` are a thread's heap, `occupied` the bitmap of the owner, `freed` and `summary` the remote one, `abandoned` the pool, `carved` the window. `Refill` to `CreateSpan` are the nested loops of `refill` and `replenish_partial`, `SwapSummary` and `ReclaimWord` the drain |
| `SlotAllocator` | what malloc and free promise | how often the program holds each slot |
| `Windows` | primary.rs, window_directory.rs, class_window.rs | `slot` is the directory, `current` the table of current windows, `growth` the lock; carving is a compare-exchange on the cursor, minting goes through its second look, the reservation with slack, the trimming, the directory and the metadata step by step, each of which may be refused |
| `Malloc` | libc/alloc.rs, large_allocator.rs, page_size.rs, parts of primary.rs and size_class | `live` and `cache` are the two lists of regions, `mapped` and `dirty` the pages behind them; sizes wrap at `WordSize` |
| `LinkedList`, `NodeLists` | utils/linked_list.rs | links in the nodes, five operations; `NodeLists` is the sequences they promise |
| `Metadata` | utils/metadata_allocator.rs | the geometry of a region, its bitmap and count, the lists and the cached empty region |
| `Tls` | tls/ | `free` is the layout's free list with its four merges, `modules` the registry, `content` what each thread's copy holds |
| `FileLock` | libc/stdio/file_lock.rs | the word is `owner` and `waiters`; an action is one access to it or one futex call |
| `Stdio` | libc/stdio (file, stream_write, stream_control, stream_list, open and close), libc/process/exit.rs | `file` is the `IoFile` of each stream, `chain` the list of streams; writes are partial, interrupted or fail; handlers are popped one at a time |
| `OutputQueue` | what an output stream promises | bytes accepted, bytes sent; after a failed write bytes may be sent again |
| `Loader` | objects/strategies, object_data_graph.rs, interposable.rs, start/mod.rs | one stage after the other over a scenario: who needs, defines and uses what, which files exist. A cell is the sequence of its exported names; `Bind` takes the first that anybody else defines. `asked` is the history of the resolver functions that IRELATIVE relocations called |
| `ElfImage` | objects/object_data, hash_tables.rs, relocate.rs, dynamic_fields.rs | computations on one file: the mapped image, Relr, both hash tables, the dynamic array. The linker that wrote the tables is external |
| `Startup` | start/ | the stack as a sequence of words; stages of `Bootstrap`, the settings, the stages of `DirectInvocation` |
| `Printf` | libc/str/printf | one item of the format is a step: `parse.rs`, `specifier.rs` and `format.rs` in turn; words have the widths of the types. The arguments lie one after the other, a long double in two words |
| `Getopt` | libc/getopt | one call is a step; `argv` is the order the words are in |
| `DirStream` | libc/fs/dir.rs | the buffer is the records of one `getdents64`, `buffer_offset` runs through it |
| `Runner` | xtask/src/test/runner.rs | the session, two readers and the waiting thread take turns; a program is a script |

The `MC...` modules hold the instances. `MCThreads`, `MCProcess` and
`MCSequential` put several parts into one run: parts that share no state in
the code either. A variable `subject` says which of them the behaviour
exercises; the others rest in one initial state, so the run explores the sum
of the parts' states and not their product, and each behaviour of each part
is there. A property of a part that rests holds of its initial state.
`MCInputs` holds the inputs of the parts that read text. `MCSpanHeap` also
states the properties of `SpanHeap`. `CondProofs` and `SpanHeapProofs` hold the
proofs of the parts, `CondWakeProofs` what `Cond`
promises about wakeups, over the invariant of `CondProofs`; `ThreadsProofs` has
those of `Mutex`, `Once`, `FileLock`, `ThreadKeys` and `ThreadLifecycle`, and carries all those of
the parts of `MCThreads` over to it. `ProcessProofs` is about the
parts of `MCProcess`, in its specification from the start, and
`SequentialProofs` in the same way about those of `MCSequential`. `RwlockSteps` holds the
inductive invariant of `Rwlock` and what each step does to it, `RwlockProofs`
puts it together.

### Composition and refinement

- `Mutex` implements `OwnedLock`: `depth` is how often each thread holds the
  mutex. It holds the mutex from the exchange that takes the word to the swap
  that gives it up; the owner field is detail. `Cond` is composed with
  `OwnedLock` rather than with `Mutex`, which this refinement (checked, and
  proved) justifies.
- `FileLock` implements `OwnedLock` too; `Stdio` has a stream's lock as an
  owner for that reason.
- `Stdio` composes the buffers, the list of streams with its lock, and the
  exit of the process with its handlers; it implements `OutputQueue`.
- `Rwlock` implements `SharedLock`: a read lock begins at the load, exchange
  or wake that lets the reader return, a write lock at the store of the owner.
- `SpanHeap` implements `SlotAllocator`. The abstract state is a count for
  each slot and not a set of slots, so that handing a slot out a second time
  is a change, and not a stutter.
- `LinkedList` implements `NodeLists`: the sequence of a list is what its walk
  returns.

## 3. What the runs check

Twelve runs. Seven pass; five show a counterexample (section 6). The state
counts are of distinct states.

**threads** (`Threads.cfg`, 570 000 states). Five parts of the thread library.
- *Mutex*: three threads, four calls, one adaptive spin, every kind and an
  unsupported flag. `ImplementsLock`, `OwnerRecordsHolder` (depth and owner stay
  right through nested locks and condition waits), `ParkedIsRemembered` (a
  parked thread is known to the word, to a wake on its way, or to a thread
  about to swap). Three threads are what the word protocol needs: a holder, a
  sleeper and one that takes the fast path in between; four calls let one of
  them nest or wait while the others lock.
- *Once*: three threads, two calls each, fresh and corrupt words. `OnceOnly`
  joins "at most once" with "nobody returns before the end".
- *Stream lock*: three threads, three calls, nesting. `ImplementsStreamLock`:
  it is an `OwnedLock`, and nobody sleeps whom no bit, wake or awake thread
  remembers.
- *Lifecycle*: a main thread, three workers, two regions so that creation can
  fail, every mixture of detached and joinable, detaches before, during and
  after exit. In `ThreadsEndClean`: no use after unmap, the kernel's zero in
  `tid` means the thread is gone, no region is lost, a join returns the value
  of its own target. Regions are not mapped again at the same address here.
- *Keys*: two threads, two keys, two rounds, five calls. `NoStaleValue` (a get
  never returns a value of an earlier life of the key), `DestructorGetsOwnLife`
  (a destructor is handed a value of its own life of the key, also if another
  thread deletes the key and creates it again between the lookup and the call),
  and in `ThreadsEndClean` that after teardown a value is left only if the
  rounds ran out or its key died. Two threads because one deletes and creates
  what the other holds; with five calls one creates and sets, and the other
  deletes and creates in that gap, or a destructor calls again. What the
  code does not promise is not claimed: a delete after the lookup does not stop
  the call.

`EveryPartReturns` is the liveness of all but the keys: calls return, sleepers
get up, whoever waits for a thread that exits gets its answer.
`ThreadsEndClean` also holds the type invariants.

**cond_signal** (`CondSafety.cfg`; three waiters, two signalers, two calls;
2.6 million states, signals only). `SignalsDelivered` (each signal to a blocked
waiter gets one out, and a posted one is delivered), `NoStolenSignal` (a signal
is not used by a thread that came later), `SignalersAreRemembered`. Three
tickets are enough for two groups of different sizes and a switch while a
member of the old group is still on its way out.

**cond_mixed** (`CondMixed.cfg`; two waiters, three tickets, one signaler;
260 000 states; signals, broadcasts and destroy). `GroupsAndDestroy` (sizes,
starts and signal counts add up to the waiters that are there; nobody touches
a destroyed variable), `CallsTakeEffect` (liveness: a broadcast gets everybody
out, destroy returns).

**rwlock** (`Rwlock.cfg`; three threads, four calls, the three preferences, the
reader limit at three so that both undo and EAGAIN are reached; 812 000
states). `ImplementsSharedLock`, `NobodyForgotten` (whoever waits for a phase
has somebody who owes it, whoever parks is remembered), `NoReaderOvertakes`,
`EveryCallReturns`. Three threads let a reader, a primary writer and a second
writer or reader meet.

**span_heap** (`SpanHeap.cfg`; two threads, three heaps in all, two spans of
two bitmap words, one slot each, magazines of two with a low-water mark of
one; 950 000 states). `HeapsConsistent` (each taken bit has one holder: the
program, a magazine, a free under way or a remote word; each span is in the
list that its bitmap calls for, and in one; a remote free is noted by the
summary or by a thread about to), `OwnerHoldsSpan` (the owner cell leads to the
unsynchronised path only while the heap holds the span), `ImplementsAllocator`,
`NullMeansExhausted`, `EveryCallReturns`. With four slots both threads' frees
cross, spans fill, empty, are reserved, abandoned and adopted; a third heap
lets an exited thread start again and adopt what it left. Deadlock is checked
here: the final state is an explicit `Ended`.

**process** (`Process.cfg`, 924 000 states). Three parts.
- *Streams*: two threads, two streams (one buffered by line or by block, one
  unbuffered), two calls each of put, write, flush, flush of all, close,
  registration of a handler and exit; a buffer of two bytes and a text of
  three, writes cut short anywhere, one failure. `ImplementsQueue`: no byte is
  lost, doubled or out of order, except that a failed write may repeat.
  `CallsStayTogether`: the bytes of one call are not split by another's.
  `ExitFlushes`: what was accepted before the last flush began has been
  written, also when two threads exit at once.
- *Loader*: every graph of three libraries with up to two needs each, cycles
  included; every way three objects and miros define and use one symbol, and
  every way the program and a library define, use and copy the two names of one
  of miros's variables; files missing in each of two places, both kinds of
  search path, a bad library, a full reserve; objects with resolver functions.
  `LibrariesInOrder`: breadth-first search order against a reference definition,
  dependencies before dependents wherever no cycle forbids it, no initialiser
  and no code of the program's own before all stages before are done. Resolver
  functions do run while objects are still being relocated (relocate.rs:74-84);
  the claim about them is that each finds what its object needs relocated,
  except round a cycle. Its own object is relocated only as far as the
  entries before it. `OneVariable`: all who use a name use one definition, with
  relocated contents (`NamesAgree`), and so does miros's own code whatever
  name of the cell they use, as long as one object owns the names that are
  defined outside (`MirosAgrees`). A bind that tries the first name only splits
  the variable, and is its mutant.
- *Windows*: two threads, two classes, windows of two spans in eleven units, so
  that a class can mint twice, one large block in the way; each step of a mint
  may be refused. `SpansRoute`: a free finds the window and the class of its pointer,
  no span is carved twice, racing threads mint one successor.

`ProcessGoesOn` is their liveness: a call returns, exit ends the process,
start-up enters the program or exits, the growth lock is let go on every path.

**sequential** (`Sequential.cfg`, 472 000 states). Ten parts that run alone or
under one lock, each over all inputs of a small domain.
- *malloc*: pages of four units, a machine word of 32, three slot sizes, a cache
  of two, two blocks, five calls, requests of nothing, a slot, more than a page
  and more than two, two alignments. `HeapHolds`: each mapped page is in one
  region, live or cached; blocks fit and do not overlap through realloc; a
  block said to be zeroed has never been written. Five calls reach a freed
  region taken from the cache for a smaller request, grown and freed again.
- *lists*: four nodes, two lists: all reachable link structures.
  `ImplementsLists`; `RegionsHold` has the links mirror each other.
- *metadata*: three regions, five objects, types of one, two and four units with
  three alignments. `RegionsHold`: a region is in the list its count says,
  objects are aligned, disjoint and past the header and the bitmap. Types of
  one slot a region go from full to empty in one call.
- *tls*: a reserve of seven, three templates, two threads.
  `BlocksOfEveryThread`: every unit is free or in one block, free chunks are
  sorted and merged; every thread's copy holds every registered module. That
  modules are registered before the first thread starts, as the loader does,
  is assumed here; alignment is not covered (section 6).
- *elf*: segments that end inside a page, that overlap a page with the next, and
  with zeroes past the file; every set of nine relocated words as Relr; names
  with every collision of hash values; all sets of dynamic tags. `ImagesHold`
  compares each with its reference definition, and the two hash tables with
  each other.
- *startup*: direct and indirect starts, option texts, environments, auxiliary
  vectors with null values in the middle, images with absent arrays.
  `ProgramsStartRight`.
- *printf*: thirteen flag texts with widths, precisions, stars, length modifiers
  and all conversions over negative, large and zero words; writers that fail at
  once, after five bytes, at the flush. `FormatsRight`: the arguments a
  specifier takes are its own, a field read back gives the value, the call
  returns the length of the whole text or fails. The first two hold up to a
  long double: behind one a specifier takes its argument too early, as
  format.rs:85-87 notes, and the property says so.
- *getopt*: all lines of two words of nineteen kinds with a third of the six kinds
  that move, and of five words of these six, two option strings, two scans. `OptionsRight`: options
  as a reader of the unpermuted line finds them, operands behind them in their
  own order.
- *dirent*: directories of up to three names of three lengths and of four names of
  two, a buffer that
  holds one to three records, failing system calls and allocations.
  `EveryEntryOnce`.
- *runner*: eight programs, eight lists of directives, exits and signals, up to
  four deadlines that pass. `VerdictsHold`: a pass means that all output was
  claimed and the status is the expected one; a test that met no deadline
  and sends no signal has the failures, all of them and in their order, that
  its output and its exit code have, however the threads interleave. One
  failure is excepted: an INPUT races with the end of the program
  (runner.rs:422-426), and whether its write fails is a matter of timing.

**mutex_adaptive**, **lifecycle_reuse** (regions are mapped again at once),
**rwlock_marker**, **span_heap_leak** (words of two and one slots),
**stdio_purge**: see section 6.

`CHECK_DEADLOCK` is off in all runs but the two of `SpanHeap`: each bounds the
calls, and once they are used up the system has no step left. That nobody is
stuck before is what the liveness properties say.

## 4. Fairness

Weak fairness of the steps a running thread takes in the library's code: the
kernel schedules runnable threads. Callers are fair only where the interface
demands it: a holder unlocks some time (`Mutex`, `Rwlock`, `FileLock`), a once
routine or an exit handler returns, a condition wait ends. A parked thread is
not running: only a wake moves it, and the return of a futex for no reason has
no fairness, so liveness never rests on it. The loader is one thread, its
fairness is that of its next step. A thread inside `Windows` is fair only while
it grows (`Grow`): whether it asks for another span is its own business.

Two steps of `Cond` have strong fairness. A waiter that competes for the
mutex gets it in the end, which no futex mutex guarantees but any scheduler
gives with probability one; and a weak compare-exchange does not lose for
ever. `ThreadLifecycle` does not ask a worker's routine to return: its part of
`EveryPartReturns` is about threads that did exit. In the run `process` a write
may fail once and be cut short, but takes at least one byte if it does not
fail: that is why a flush ends.

No part of `sequential` has a liveness property; its calls are single steps or
short loops over a shrinking input.

## 5. What is proved

For all values of the constants, by TLAPS:

- `ThreadsProofs`, of `Mutex`: `TypeCorrect`, `Exclusion` (at most one holder, and
  the word is nonzero exactly while there is one), `OwnerIsHolder`, `NoLostWakeup`
  and `Refinement` (`Mutex` implements `OwnedLock`).
- `CondProofs`: `NoStolenSignalHolds`, `SignalersAreRememberedHolds` and
  `GroupsAndDestroyHold` (the runs' properties of the same names), however the
  kernel orders its queues.
- `CondWakeProofs`: `SignalsDeliveredHolds` (the run's `SignalsDelivered`), under the
  hypothesis `FifoWake`. With it, all safety the two runs of `Cond` check is
  proved.
- `ThreadsProofs`, of `ThreadLifecycle`: `LifecycleSafe` (types, no use after unmap, a zero `tid`
  means gone, no region lost, a join returns its target's value), under the
  hypothesis `Reuse = FALSE`.
- `ThreadsProofs`: further, of `Once`, `OnceTypes` and `RunsOnce`; of `FileLock`,
  `LockTypes`, `LockNoLostWakeup` and `LockRefines` (`FileLock` implements
  `OwnedLock`); of `ThreadKeys`, `KeysTypeCorrect`, `NeverStale`, `OwnLife` (an
  action property) and `TeardownComplete`; then all of `ThreadsSpec`, the specification the run
  `threads` checks: `MutexAmongThreads` (its behaviours are behaviours of
  `Mutex`), `OnceAmongThreads`, `KeysNeverStale`, `KeysOwnLife`,
  `StreamLockAmongThreads` (its behaviours keep to `OwnedLock`) and `ThreadsClean`
  (the run's `ThreadsEndClean`, again if `Reuse = FALSE`). A step of
  `ThreadsNext` is a step of the part that is the subject, and leaves the
  variables of the others alone; with that, the theorems of the parts apply.
- `SpanHeapProofs`: `InvHolds` and, from it, all safety the run `span_heap` checks:
  `OwnerTrue`, `Consistent`, `NullExhausts` (an action property) and `Allocates`
  (`SpanHeap` implements `SlotAllocator`).
- `RwlockProofs`: all safety the run `rwlock` checks: `SharesLock` (`Rwlock` implements
  `SharedLock`), `Remembered` (its `NobodyForgotten`: the words hold what they
  count, parked threads are remembered, a phase that is awaited is owed) and
  `NoneOvertakes` (its `NoReaderOvertakes`, an action property).
- `ProcessProofs`: `Routed` (the run's `SpansRoute`) and `WholeCalls` (its
  `CallsStayTogether`); then, under the hypothesis `"purge" \notin Operations`,
  `FlushHolds` (where each accepted byte is), `ExitHasFlushed` (the run's
  `ExitFlushes`) and `StreamsImplementQueue` (its `ImplementsQueue`: both streams
  implement `OutputQueue`). With them, all safety of the run `process` about
  streams and windows is proved.
- `SequentialProofs`: `HeapSafe` (the run's `HeapHolds`), under the hypothesis
  `NoWrap`.

The assumptions are the named `ASSUME`s of the modules: the
null thread is not a thread, bounds are natural numbers; for `SpanHeap`, that
the words of a bitmap are disjoint, not empty, at least one, of finitely many
slots, and that the low-water mark is below the capacity of a magazine; for
`Rwlock`, that the threads are finitely many and the limit of readers is not zero; for
`Cond`, that the threads are finitely many and none both waits and signals; for
`Stdio`, that a text to write is a nonempty sequence of characters, as a call
for no bytes returns at once (stream_write.rs:132); for `Malloc`, what follows from
the powers of two that alignments, the page and the largest class are (libc/alloc.rs:70,
size_classes.rs:20-37): of an alignment and a page one divides the other, and an
alignment that is no larger than the largest class divides it. TLC evaluates them. `Reuse = FALSE` is a hypothesis and not an assumption: with
`Reuse` the property is false, which the run `lifecycle_reuse` shows. `FifoWake` is
one too, for the last theorem of `Cond` alone: the futexes of threads of one
priority are first in first out, those of different priorities are not, and
then `EverySignalCounts` is false (section 6). So is `"purge" \notin Operations`, for
what a stream delivers: `__fpurge` is there to drop bytes, and the code drops
more than it should after it, which the run `stdio_purge` shows. The run `process`
leaves the call out as well. So is `NoWrap`, for large blocks: a request within a
page of the largest size wraps when it is rounded to pages (section 6), and the
property is false then.

**The mutex argument.** Mutual exclusion is not inductive alone. `Inv` of
`ThreadsProofs` adds where in the code a thread holds the mutex (`PlacesOK`),
that the kinds which cannot nest keep counts at one (`FlatOK`), that the count
moves from `recursion` to the waiting thread and back without loss
(`DepthOK`), and that the owner is cleared before the word is given up
(`OwnerOK`). The word is zero exactly when nobody holds it, so the thread that
finds it zero is the only one to enter; the owner can be read without the lock
because a thread sees its own id there only if it stored it and has not
unlocked. `ParkedIsRemembered` is inductive over `Inv`: a parked thread left
`CONTENDED` behind, and the only step that removes it owes a wake. The
refinement maps each step to a step of `OwnedLock` or to a stutter.

**Once.** The word says whether the one winner has begun and ended; a thread
is past the claim only if it is the winner.

**Keys.** A value is stored with the generation of its key's life, generations
only grow, and a value whose generation is the key's present one was stored in
its present life. So the lookup, which compares generations, finds the
destructor of the life the value was set in. Between the lookup and the call
others may change the table, but no program code runs on the thread itself, and
its values are its own: the value it passes on is the one it looked up
(`CallOK`). `OwnLife` puts the two together. For the teardown, a thread
owes the values it set and nobody took back. `TeardownInv` follows a scan: a value owed
in its key's present life is still in the thread's table (`OwedOK`), and a scan
that has called no destructor so far has left nothing due behind its cursor
(`ScanOK`). Only a destructor, which sets `ran_any`, can store behind the
cursor, and then another round follows.

**Thread lifecycle.** `NoUseAfterUnmap` says nothing of who unmaps. `Inv` adds who
owns a region in each place of the code: its worker from the mapping to the
exit (`RegionsHeld`), a creator that has not cloned yet (`CreatorsOK`), then the
one thread that joined or detached it (`WaitersOK`, `ClaimsOK`), or nobody, in
which case it stays (`UnclaimedOK`). The fields of a block follow from where its
worker is (`BlocksOK`): the exchange of `Exiting` against `Detached` decides
which of the two unmaps. That the kernel clears `tid` of the right thread needs
that no region is handed out while a thread that unmapped it is still exiting,
which is the hypothesis.

**Span heap.** The invariant rests on who may touch a span (`SpansApart`): one
heap holds it, in one list, or one thread has it in hand between the pool and
a list; else it is in the pool, or lost. From that, `SlotsApart` and `SlotsTaken`
put each taken slot in one place (the program, a magazine, a freeing thread's
hand, the remote bitmap) and each free slot in none; `Bitmaps` says how full
the spans of each list are, except the one that a drain is about to move. A
thread reads the owner cell of a span it does not hold; `Owners` says that it
can find its own id there only if it does hold the span, which is stable
because ids do not repeat (`IdsOK`) and a heap gives up its id with its spans. `RemoteFreesAreNoted` is inductive as it stands: the summary bit is set
after the word's, by a thread that still knows the word. `Search` carries what
`replenish_partial` has found out on its way to a fresh span, which makes null
mean exhausted. Each step of `SlotAllocator` is the hand-out or the return of
one slot, all others are stutters; that a slot handed out was not held follows
from `SlotsApart`.

**The stream lock.** Its word names the holder, so the invariant is short: the
thread in the word is the one that holds the lock and the count beside it is
its depth (`LockOwnerHolds`), and a thread that contends does not hold it and
never goes to sleep on a word of zero (`LockPlacesOK`). Over that, `ParkedIsRemembered`
is inductive as for the mutex: the waiters bit goes only with the swap of an
unlock, which then owes a wake, and a woken thread takes the word with the bit.

**The condition variable.** What a waiter holds is a ticket, and no word says
which groups there are: `group_one_start`, the size beside the lock, the two
sizes and the two signal counts do together, and `switch_group_one` changes
them one at a time. The invariant (`Inv` of `CondProofs`) has the end of group one
as a number `e` of its own: start and size add up to it, except that a signaler
inside a switch has it in a local variable (`EndAt`). Then

- `WaiterAt`: a ticket below `e` has group one's slot, one at or above it the other;
  and a waiter about to take a signal has read a value that is too small to be
  there still if its slot went to the next group since. That is what `start` is
  added to the signals for, and it is why the exchange cannot take another
  group's signal.
- `CountsAt` and `SignalsAreAt`: group one's members are as many as the signals it is
  owed and those posted and not taken, group two's the tickets since `e`. A
  broadcast, a close or an opened group moves the whole of one count to another.
- `HolderAt`: what the signaler inside the lock read stays true until it unlocks, as
  nobody else changes the groups (`LockOK`); waiters only take signals, and
  tickets.
- `RousedOK`: tickets below the end of group one were there when a signal came,
  since only a signaler moves it and counts what it saw.
- `RefsOK`: `waiter_references` counts the waiters inside, so the destroyer returns
  when there are none; `QueuesOK`: who is parked where.

Each action has one lemma with what it does to the words, to its own thread
and to those it wakes (`DecideDoes`, ...); each part of the invariant has one
lemma with a case for each action.

**Wakeups of the condition variable.** `NoStolenSignal` says who may leave;
`SignalsDelivered` says that enough do. A signaler posts inside the lock and
wakes outside it, so between the two a signal has been counted for a group and
the thread it is for is asleep. `WakeInv` of `CondWakeProofs` adds to `Inv`:

- `Small`: a registering waiter holds the mutex, so tickets are handed out in the
  order of the numbers (`LastOK`) and nothing is counted for a thread before it
  waits; which calls still owe their wake (`CallOK`).
- `Laggards`: members of a closed group are still inside, but each was left a
  signal. The group closed last has the tickets from some `b` to `start`, the one
  before it, while the slots change, those from `b0` to `b`; the signals of a
  closed slot exceed its base by the number of its members, so they do not park
  there again, and one on its way to the futex has read a value that is gone.
  `b` is a witness, no variable holds it: the code never needs to know it.
- `OrderOK`: in each queue the members of closed groups stand before the others.
  This is where `FifoWake` is used, and it makes a wake for a closed group go to
  one of its members.
- `DeliveryOK`: a sleeper of a closed group has a wake on its way to its slot
  (`Served`), and the posted signals of group one are covered by its members awake
  and the wakes on their way, once those of the closed group in the same slot
  are served (`GroupServed`). It compares numbers of threads, as nothing says
  which wake is for whom.
- `CalledOK`: for a thread that is not let go yet (`Certain`), the signals called
  since it blocked are at most the wakes given since and those still owed: by
  signalers before their post, by members of closed groups on their way out,
  by signals posted and not taken. When nothing is under way, nothing is owed.

Counts are kept by `OneFewer`, `OneMore` and `BothCount`. An action that leaves
groups, tickets and wakes alone needs only to say so (`GroupsStay`, `Stands`,
`StaysWaker`); the long proofs are those of the take of a signal, the futex
wait, the wakes, and the post, close and opening of groups.

**The read-write lock.** Five words say together who has the lock, and no
action sees more than one of them, so the invariant (`IInv` of `RwlockSteps`) says
for each place in the code what its thread may rely on:

- `CoreInv`: `readers.locked` without the hand-over bit stands for one primary
  writer, the only thread between its claim and its release, and nobody holds
  a read lock while the phase bit of `readers` says write (`PrimaryOK`, `OwnerOK`,
  `PhaseOK`).
- `Counts`: `readers.n` is the number of tickets, one for each read lock held,
  each reader that waits and each undo on its way; `writers.waiting` is the
  number of registered writers. A count is an equation over all threads: a step
  changes the mover's share alone (`OwnCount`, `OwnRegister`).
- `TurnInv`: whoever awaits a phase is owed it, by the writer that has the lock
  or the readers still in, and a reader that stood back finds the phase taken.
- `WritersWordInv`: the writers' futex word is open only under its primary
  writer, and whoever sleeps on it shares the marker.
- `PhaseInv`: the futex word of the phase follows the phase bit of `readers`. At most
  one thread is on its way to store a write phase (`Closing`), some thread is on
  its way to store a read phase (`Opening`), and nobody sleeps on a phase that is
  about to be shut. This is what hands a phase over, and it ends where
  `rwlock_marker` begins: with a writer that finds its phase begun. With a limit
  of one reader nobody waits and nothing is claimed.
- `ParkedAreRemembered`.

What an action does is stated once, field by field, as its `Effect`
(`ReadLockDoes` and the like); each part of the invariant then has one lemma for
the thread that moves (`OwnCore`, `OwnTurn`, ...) and one for another thread
beside it (`OtherCore`, `OtherTurn`, ...), by cases over the effects. The
refinement, the order of readers behind a writer and the absence of forgotten
sleepers are short consequences.

**Windows.** Whole windows are apart because they are multiples of `Slice`;
`AlignedWindow` shows that a reservation of twice the size holds one, and that
trimming leaves it. `WindowsInv` says that a published window is mapped and has
a class (`Directory`), that a thread on its way to a mint has a window that is
used up, and after the second look the current one (`WindowedAt`), and that a
reservation meets no published window until it is published itself
(`ReservedAt`). Only the holder of the growth lock has a reservation
(`LockHeld`). A span then lies below the cursor of the one window it is in
(`SpansPlaced`), so the cursor that the exchange takes belongs to nobody yet.

**Streams.** That the bytes of a call stay together needs three facts of a call
that writes (`StreamsInv`): it has the lock of its stream from its first byte to its
last; the bytes it has handed over so far are the last ones its stream has
accepted; and what it has still to hand over continues them. Others cannot come
in between, because whoever adds a byte to a stream holds its lock. The calls are
numbered, and a number that has just been drawn is on no stream (`Past`), so a
call that starts finds none of its own bytes there. A flush within the call
moves bytes to the file and leaves this untouched: the property is about what
was accepted, in its order.

That they arrive is a second invariant, `FlushInv`, over the first. The buffer of
a stream holds the last bytes it accepted, and the descriptor has all before
them and the first `c` of them, where `c` is the cursor of the one thread that is
flushing, or zero if none is (`Queue`, `CursorIs`); that there is one only follows
from the lock. After a write failed the descriptor still has them all, perhaps
some twice (`Delivered`). A buffer that holds bytes is marked as being written to
(`Writable`), so that a call that begins to write never empties it. A stream that
has left the chain has nothing buffered, unless a write failed (`StreamOK`), which
takes that no other call uses a stream while `fclose` does (`Apart`). The chain
cannot change under a thread that walks along it, because that thread holds the
list lock (`WalkOK`), and so the streams behind an exit's walk have sent what was
due, and will not unsend it (`ExitOK`, by `Ahead`). Each step then adds bytes at the
end of the queue, sends some from its front, or neither (`QueueStep`), which the
refinement needs: a step of the code is a step of `OutputQueue` or a stutter.

**Large blocks.** `HeapInv` is about the regions (`HeapOK`): each has a page, two never
share one, those in use and in the cache cover exactly what is mapped, a cached
one does not claim to be zero, and each one in use is the region of one block, at
its address and of its size. The last clause is why the `RegionAt` of a free or a
write finds the block's own region. A block of zeroes has no dirty page in its
region: `RegionJoins` asks that of whatever `acquire_region` returns, and
`AcquiredDoes` shows it, from the kernel's map, where nothing is dirty, and from
the cache, where `alloc_large_zeroed` clears what the flag does not vouch for.
That trimming leaves an aligned region of just the size is `AlignedPageFits` and
`FromKernelDoes`. `realloc` puts these together: it takes a region, copies into it
(`BlockWritten`), and gives the old one up (`FreedOK`).

**Model-checked only**: all liveness, as it needs fairness and `ENABLED`; what
the recursive functions of `Loader`, `Printf`, `Getopt`, `ElfImage` and
`Runner` compute, as that needs induction over data: `LibrariesInOrder` and
`OneVariable` are such; and the parts of `MCSequential`, which work through one
call at a time.

## 6. Where the code differs from what it says

| Run | The code | What it contradicts |
|---|---|---|
| mutex_adaptive | An adaptive `pthread_mutex_lock` does not store the owner (mutex.rs:197-211), while unlock answers EPERM to a caller that is not the owner (mutex.rs:246): the holder cannot unlock. | mutex.rs:198 expects adaptive mutexes; README.md:3 promises unmodified binaries |
| lifecycle_reuse | A detached thread unmaps its region and exits with the address that the kernel clears still inside it (self_detach.rs:56, syscall/exit.rs:34). A thread mapped there in between has its `tid` zeroed while it runs. | join.rs:14-15 |
| rwlock_marker | A writer whose exchange failed because the write phase began goes on to exchange again and resets the running phase's futex word (rwlock.rs:462-470): a parked reader's mark is gone. | rwlock.rs:504 |
| span_heap_leak | `abandon_all` passes three lists on and drops the hot reserve (class_heap.rs:187-191): one span per class and thread is lost. | heap/mod.rs:182 |
| stdio_purge | `__fpurge` empties the buffer and clears `currently_putting` but leaves `write_end` behind (stream_control.rs:26-29). A later `fputc` takes the fast path and reports success; the next call that begins a write starts the buffer over and drops the byte. | file.rs:118 |

Met on the way, without a run:

- rwlock.rs:305, in the proof of `NoneOvertakes`: a reader at the limit adds its
  count and takes it back. If the last reader leaves in between, the undo takes
  the last count and starts no phase; a reader that stood back behind the
  writer may then come in before it. `NoReaderOvertakes` excepts that lapse; the
  instance of the run is too small to show it.
- rwlock.rs:305: the comment says that undoing a read count by
  compare-exchange avoids skipping a hand-over; the exchange stores what a
  subtraction would, and a reader that undoes last after the others left hands
  nothing over (`lapses` records it; it needs the limit of 2^28 readers).
- class_heap.rs:157: the comment says that draining a full span frees a slot; a
  summary bit may be stale and name an empty word, after which the span goes
  back to the full list, which is harmless.
- cond.rs:298-300: a signal wakes after it has released the internal lock. With
  a kernel that does not wake in order of arrival the wake can go to a later
  waiter and `EverySignalCounts` fails with `FifoWake` false.
- mutex.rs:138: `release` wakes through the mutex after it has given the word
  up; by then another thread may have taken, released and destroyed it. A
  futex wake on a stale address wakes at most a stranger, which every wait
  loop tolerates.
- page_size.rs:25-27, large_allocator.rs:39: the rounding of a request within a
  page of the largest size wraps, and a block that is too small would be
  returned. `Requests` stays below it; with a request near `WordSize`,
  `BlocksFit` fails.
- tls/layout_allocator.rs:52-61: a block's size is rounded up to its alignment,
  but the end of the chunk it is cut from need not be a multiple of it: behind
  a block of one byte the next is misaligned. The template set of the run has
  such a block, and `BlocksOfEveryThread` says nothing of alignment.
  `deallocate_block` has no caller.
- threads/create.rs: the size of miros's own TLS block is not rounded, while
  start/bootstrap.rs:244 rounds it.
- objects/strategies/relocate.rs ignores kinds it does not know, `TPOFF64` and
  `R_X86_64_64` of libraries among them; `run_fini_array` has no caller, so no
  library's finalisers run.
- start/cli/mod.rs:45 against start/config.rs:46-72: `LD_BIND_NOW` yields to an
  option in one place and to the order of variables in the other.
- environment_variables.rs:61: an entry of the environment without `=` panics.
- xtask/src/test/runner.rs:429-455: after the waiting thread has reaped the
  child, a deadline may still send the signal to the pid.
- printf/format.rs:85-87: the code itself notes that `%Lf` misaligns the
  arguments. `FormatsRight` has it so: without its exception for what follows a
  long double it is violated.
- key.rs:119-127: a destructor may be called after `pthread_key_delete` has
  returned in another thread, if it was looked up before.
- xtask/src/test/runner.rs:422-426: whether an INPUT to a program that ends fails is
  a race, as above.

## 7. Assumptions and limits

- Memory is sequentially consistent. The code's orderings are weaker in
  places; x86-64 makes its exchanges full barriers, and reorders only a store
  with a later load.
- A futex compares and parks in one step; a wake takes one parked thread, or
  all. Which one is free, except in `cond_signal` and `cond_mixed`, where the
  queue is in order of arrival.
- Counters that wrap (recursion at 2^32, tickets at 2^31 behind a waiter,
  generations) do not in the models. `MaxReaders` is a constant. Sizes in
  `Malloc` and words in `Printf` do wrap, at small widths.
- `SpanHeap`: one size class; lists and magazines are sets, because which span
  is in front and which slot is drawn is chosen by history and by the random
  generator; a refused span stands for a refused mapping; the reuse of a heap's
  storage is left out. Heap ids do not repeat, as in the code. `Malloc` has
  the small path as a supply of slots.
- `Windows`: a span is one unit, a directory slot is one load.
- `Stdio`: a stream's lock is an owner (see `FileLock`); a write that returns
  EINTR is repeated at once and is a stutter. Whether stdout is
  a terminal is fixed.
- `Loader`: three libraries and two needs each, a plain symbol or the two names
  of one cell at a time, no symbol versions; the contents of a definition are "file"
  or "relocated". The names of a cell that one object defines stand for one
  variable in it, with one COPY relocation, as linkers make them. Not claimed:
  where two objects define different names of a cell, which of them miros's
  code ends up with (the first name in its list decides, so not always the
  program, against the comment at interposable.rs:36); and a program that
  copied one name while a library uses another, which only miros exports: that
  library stays on miros's storage. Linkers export all names of a variable that is
  copied, and then neither happens.
  An IRELATIVE relocation calls its resolver once for each object; a bad entry
  comes before or after it.
  `ElfImage`: the bloom filter is one word.
- `Printf`: the arguments are one row of words, as those on the stack are, and a
  long double is two of them. The register areas of a va_list, from which an
  integer may still come out right behind a long double, and the alignment of a
  long double to 16 bytes are left out.
- `Getopt`: `getopt_long`. `POSIXLY_CORRECT` and option strings that begin with
  `+` or `-` are not in the code.
- `Runner`: a program is a script; a deadline may pass at any moment it is
  waited for, up to `MaxTimeouts` times.
- The bounds (`MaxCalls`, `MaxTickets`, `MaxHeaps`, `Spins`, `MaxFailures`,
  `MaxBlocks`, `MaxObjects`, `MaxScans`, `MaxOpens`, `MaxTimeouts`, `MaxSpans`,
  `MaxLarge`) stop the models, not the code.
- Callers keep the rules of the interface: they do not unlock a normal mutex
  they do not hold, join a detached thread, free a slot twice, write to a
  closed stream, or use a condition variable after they destroyed it.
- `pthread_create` does not look at the result of its mapping
  (`create.rs:95`); the model takes a region that the kernel grants.

## 8. Not modelled

System call wrappers (process creation, files other than directories,
network), constant tables (locale), byte functions that keep no state
(libc/str without printf, memory functions), the random generator (its draws
are free choices), assembly stubs and register saves, accessors of attribute
structures, the typed views of ELF headers, the build tool and the example
programs. They make one system call, or compute one value, and have no order
of steps to get wrong; a test reaches them. Of modelled components: the
compile-time size-class table with its reciprocal division, the mremap
allocator, `setvbuf` and the getters of `stdio_ext`, naming a thread.
`PROJECT.json` has the reason for each component.

## 9. Plan

What is left, the most useful first. The model covers the code's own core; what
remains is chiefly to prove what the runs show.

1. **`LinkedList`** (`LinksMirror`), **`Tls`** (`ReserveAccounted` for one call).
2. Theorems about the runs' own specifications for each of these, as
   `ThreadsProofs` has them.
