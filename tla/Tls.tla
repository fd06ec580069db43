--------------------------------- MODULE Tls ---------------------------------
(***************************************************************************)
(* Thread-local storage (src/tls/): one layout of blocks below the thread  *)
(* pointer, shared by all threads (layout_allocator.rs), a registry of     *)
(* modules (mod.rs, module_registry.rs), and what each thread's own copy   *)
(* of the layout holds.  Modules are registered by the start-up stage that *)
(* comes before the initialisers, which may create threads.  The allocator *)
(* mutex covers every call, so a call is one step.                         *)
(***************************************************************************)
EXTENDS Naturals, Sequences, FiniteSets, SequencesExt

CONSTANTS
  Reserve,       \* TLS_RESERVE_SIZE
  Templates,     \* of the modules: block size and alignment
  Threads, Main,
  MaxCalls       \* bound: blocks allocated and released

TlsAssumption ==
  /\ Reserve \in Nat /\ MaxCalls \in Nat /\ Main \in Threads
  /\ \A t \in Templates : t.align > 0 /\ t.size > 0

VARIABLES
  free,       \* the free list: chunks with offset and size
  modules,    \* the registry: offset, template and generation, by module id;
              \* live: the block is not released (history)
  generation,
  stage,      \* of start-up: "modules", then "initialisers"
  content,    \* what each running thread's copy of the layout holds: for an
              \* offset, the module whose data or zeroes are there, or 0
  running,    \* threads that exist
  calls

vars == <<free, modules, generation, stage, content, running, calls>>

Init ==
  /\ free = <<[offset |-> 0, size |-> Reserve]>>
  /\ modules = <<>> /\ generation = 0 /\ stage = "modules"
  /\ content = [t \in Threads |-> [o \in 0..(Reserve - 1) |-> 0]]
  /\ running = {Main} /\ calls = 0

Top(chunk) == chunk.offset + chunk.size
AlignedSize(t) == ((t.size + t.align - 1) \div t.align) * t.align
Called == calls < MaxCalls /\ calls' = calls + 1

-----------------------------------------------------------------------------
(* allocate_block: the top of the highest chunk that is large enough.      *)
FitsIn(chunk, size) == chunk.size >= size

Candidates(size) == {i \in DOMAIN free : FitsIn(free[i], size)}
Chosen(size) == CHOOSE i \in Candidates(size) : \A j \in Candidates(size) : Top(free[j]) <= Top(free[i])
FreeAfterAllocate(size) ==
  LET i == Chosen(size)
  IN IF free[i].size = size THEN RemoveAt(free, i) ELSE [free EXCEPT ![i].size = free[i].size - size]
StartOf(size) == Top(free[Chosen(size)]) - size

(* initialize_block: the template's data, then zeroes: the whole block of  *)
(* one thread becomes the module's.                                        *)
Initialised(memory, offset, id, t) ==
  [o \in DOMAIN memory |-> IF o \in offset..(offset + t.size - 1) THEN id ELSE memory[o]]

(* register_module: the layout, the registry, the calling thread's copy.   *)
MayRegister == stage = "modules"

Register(t) ==
  /\ MayRegister /\ Called
  /\ LET size == AlignedSize(t)
         id == Len(modules) + 1
     IN IF Candidates(size) = {}
          THEN UNCHANGED <<free, modules, generation, content>>   \* TlsAllocationFailed
          ELSE /\ free' = FreeAfterAllocate(size)
               /\ generation' = generation + 1
               /\ modules' = Append(modules, [offset |-> StartOf(size), template |-> t,
                                              generation |-> generation + 1, live |-> TRUE])
               /\ content' = [content EXCEPT ![Main] = Initialised(content[Main], StartOf(size), id, t)]
  /\ UNCHANGED <<stage, running>>

(* release: merge with the chunk before, the chunk after, or both.         *)
Before(offset, size) == {i \in DOMAIN free : free[i].offset < offset + size}
MergesNever(i, end) == FALSE
Merges(i, end) == i \in DOMAIN free /\ free[i].offset = end
FreeAfterRelease(offset, size) ==
  LET before == Cardinality(Before(offset, size))   \* the list is in address order
      after == before + 1
      joinsBefore == before > 0 /\ Top(free[before]) = offset
      joinsAfter == Merges(after, offset + size)
  IN IF joinsBefore /\ joinsAfter
       THEN RemoveAt([free EXCEPT ![before].size = Top(free[after]) - free[before].offset], after)
     ELSE IF joinsBefore THEN [free EXCEPT ![before].size = free[before].size + size]
     ELSE IF joinsAfter
       THEN [free EXCEPT ![after] = [offset |-> offset, size |-> free[after].size + size]]
     ELSE InsertAt(free, after, [offset |-> offset, size |-> size])

(* deallocate_block: has no caller yet; the registry keeps the module.     *)
Deallocate(id) ==
  /\ Called /\ modules[id].live
  /\ free' = FreeAfterRelease(modules[id].offset, AlignedSize(modules[id].template))
  /\ modules' = [modules EXCEPT ![id].live = FALSE]
  /\ UNCHANGED <<generation, stage, content, running>>

-----------------------------------------------------------------------------
(* The pipeline moves on to the initialisers; from then on threads start.  *)
RunInitialisers ==
  /\ stage = "modules" /\ stage' = "initialisers"
  /\ UNCHANGED <<free, modules, generation, content, running, calls>>

(* initialize_thread_tls: every module in the registry, in order.          *)
AllBlocks(memory) ==
  FoldLeft(LAMBDA m, id : Initialised(m, modules[id].offset, id, modules[id].template),
           memory, [i \in 1..Len(modules) |-> i])
CreateThread(t) ==
  /\ stage = "initialisers" /\ t \notin running
  /\ running' = running \cup {t}
  /\ content' = [content EXCEPT ![t] = AllBlocks([o \in 0..(Reserve - 1) |-> 0])]
  /\ UNCHANGED <<free, modules, generation, stage, calls>>

Next ==
  \/ \E t \in Templates : Register(t)
  \/ \E id \in DOMAIN modules : Deallocate(id)
  \/ RunInitialisers
  \/ \E t \in Threads : CreateThread(t)

Spec == Init /\ [][Next]_vars

-----------------------------------------------------------------------------
LiveModules == {id \in DOMAIN modules : modules[id].live}
Block(id) == modules[id].offset..(modules[id].offset + AlignedSize(modules[id].template) - 1)

(* Live blocks and free chunks tile the reserve, and the free list is in   *)
(* address order with no two chunks left touching: the four ways to merge  *)
(* lose nothing and give nothing out twice (layout_allocator.rs:51-124).   *)
ReserveAccounted ==
  /\ \A i \in DOMAIN free : free[i].size > 0
  /\ \A i \in 1..(Len(free) - 1) : Top(free[i]) < free[i + 1].offset
  /\ \A a, b \in LiveModules : a # b => Block(a) \cap Block(b) = {}
  /\ 0..(Reserve - 1) = UNION {Block(id) : id \in LiveModules}
                        \cup UNION {free[i].offset..(Top(free[i]) - 1) : i \in DOMAIN free}
  /\ \A id \in LiveModules, i \in DOMAIN free : Block(id) \cap free[i].offset..(Top(free[i]) - 1) = {}

(* Every running thread finds every live module's data in its own copy:    *)
(* register_module fills the calling thread's block only (tls/mod.rs:75),  *)
(* which is enough while registration comes before the first thread.       *)
ThreadsSeeEveryModule ==
  \A t \in running, id \in LiveModules :
    \A o \in modules[id].offset..(modules[id].offset + modules[id].template.size - 1) :
      content[t][o] = id
=============================================================================
