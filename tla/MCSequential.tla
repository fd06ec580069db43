---------------------------- MODULE MCSequential ----------------------------
(***************************************************************************)
(* Instances for TLC of the parts that run on one thread, or under a lock, *)
(* and share no state: the malloc interface with its large blocks, the     *)
(* metadata allocator and its lists, the thread-local layout, ELF images,  *)
(* start-up, printf, getopt, directory streams, and the test runner.  A    *)
(* behaviour exercises one of them, its `subject`, while the others rest   *)
(* in an initial state.                                                    *)
(***************************************************************************)
EXTENDS MCElfImage, MCInputs

CONSTANTS
  PageSize, WordSize, SlotSizes, MinAlign, Space, CacheCapacity,
  Requests, Aligns, MaxBlocks, MaxCalls,                        \* of Malloc
  Nodes, Lists, Nil,                                            \* of LinkedList
  RegionBytes, HeaderBytes, ByteBits, Alignments, Places, MaxObjects, \* of Metadata
  Reserve, Templates, Threads, Main,                            \* of Tls
  Starts,                                                       \* of Startup
  CharBits, ShortBits, IntBits, LongBits, Chunk, Pointee, Calls, \* of Printf
  Lines, LongOptions, MaxScans, Null,                           \* of Getopt
  Directories, RecordHeaderSize, NameOffset, Capacity, MaxOpens, MaxFailures, \* of DirStream
  Cases, MaxTimeouts                                            \* of Runner

VARIABLES
  subject,
  blocks, live, cache, heapMapped, dirty, nextSlot, heapCalls,
  head, prev, next,
  type, regions, bitmap, count, partial, full, empty, objects,
  free, modules, generation, tlsStage, copies, running, tlsCalls,
  start, startStage, argc, stack, startArgv, env, auxv, relocated, step, tls, heap, called, config, published,
  call, position, nextArgument, writer, stored, fields, result,
  line, argv, optind, optarg, optopt, permutation, returned, scans, done,
  directory, kernel, openFiles, stream, listed, ended, errno, opens, failedCalls,
  test, child, childInput, pipe, buffer, channel, reaped, session, directiveAt, claims, cursor, expects, status, misses, timeouts

(* Thread-local blocks with and without padding in front.                  *)
T3 == {[size |-> 1, align |-> 1, data |-> 0], [size |-> 3, align |-> 2, data |-> 1],
       [size |-> 2, align |-> 2, data |-> 2]}

(* Directories of up to three names of three lengths, and of four of two,  *)
(* whose records fill a buffer in different ways.                          *)
Named(n, L) == {[k \in 1 .. n |-> [name |-> k, length |-> lengths[k]]] : lengths \in [1 .. n -> L]}
SomeDirectories == UNION {Named(n, {1, 2, 5}) : n \in 0 .. 3} \union Named(4, {1, 5})

mallocVars == <<blocks, live, cache, heapMapped, dirty, nextSlot, heapCalls>>
listsVars == <<head, prev, next>>
metadataVars == <<type, regions, bitmap, count, partial, full, empty, objects>>
tlsVars == <<free, modules, generation, tlsStage, copies, running, tlsCalls>>
startupVars == <<start, startStage, argc, stack, startArgv, env, auxv, relocated, step,
                 tls, heap, called, config, published>>
printfVars == <<call, position, nextArgument, writer, stored, fields, result>>
getoptVars == <<line, argv, optind, optarg, optopt, permutation, returned, scans, done>>
direntVars == <<directory, kernel, openFiles, stream, listed, ended, errno, opens,
                failedCalls>>
runnerVars == <<test, child, childInput, pipe, buffer, channel, reaped, session,
                directiveAt, claims, cursor, expects, status, misses, timeouts>>

Heap == INSTANCE Malloc WITH calls <- heapCalls, mapped <- heapMapped
Links == INSTANCE LinkedList
Regions == INSTANCE Metadata WITH PageBytes <- RegionBytes, mapped <- regions
Blocks == INSTANCE Tls WITH calls <- tlsCalls, stage <- tlsStage, content <- copies
Boot == INSTANCE Startup WITH stage <- startStage, argv <- startArgv
Format == INSTANCE Printf WITH next <- nextArgument
Options == INSTANCE Getopt
Dirs == INSTANCE DirStream WITH open <- openFiles, failures <- failedCalls
Tester == INSTANCE Runner WITH input <- childInput, failures <- misses, at <- directiveAt, pc <- session

ASSUME PartsAssumption ==
  Heap!MallocAssumption /\ Regions!MetadataAssumption /\ Blocks!TlsAssumption /\ Format!PrintfAssumption

Subjects == {"malloc", "lists", "metadata", "tls", "elf", "startup", "printf", "getopt",
             "dirent", "runner"}

\* What the parts that rest hold.
SomeType == CHOOSE x \in Regions!Types : TRUE
SomeInput == CHOOSE x \in Inputs : TRUE
SomeStart == CHOOSE x \in Starts : TRUE
SomeCall == CHOOSE x \in Calls : TRUE
SomeLine == CHOOSE x \in Lines : TRUE
SomeCase == CHOOSE x \in Cases : TRUE

SequentialInit ==
  /\ subject \in Subjects
  /\ type \in IF subject = "metadata" THEN Regions!Types ELSE {SomeType}
  /\ input \in IF subject = "elf" THEN Inputs ELSE {SomeInput}
  /\ start \in IF subject = "startup" THEN Starts ELSE {SomeStart}
  /\ call \in IF subject = "printf" THEN Calls ELSE {SomeCall}
  /\ line \in IF subject = "getopt" THEN Lines ELSE {SomeLine}
  /\ test \in IF subject = "runner" THEN Cases ELSE {SomeCase}
  /\ Heap!Init /\ Links!Init /\ Blocks!Init /\ Dirs!Init
  /\ Regions!Begins /\ Begins /\ Boot!Begins /\ Format!Begins /\ Options!Begins
  /\ Tester!Begins

MallocNext == subject = "malloc" /\ Heap!Next
  /\ UNCHANGED <<subject, listsVars, metadataVars, tlsVars, vars, startupVars,
                 printfVars, getoptVars, direntVars, runnerVars>>
ListsNext == subject = "lists" /\ Links!Next
  /\ UNCHANGED <<subject, mallocVars, metadataVars, tlsVars, vars, startupVars,
                 printfVars, getoptVars, direntVars, runnerVars>>
MetadataNext == subject = "metadata" /\ Regions!Next
  /\ UNCHANGED <<subject, mallocVars, listsVars, tlsVars, vars, startupVars,
                 printfVars, getoptVars, direntVars, runnerVars>>
TlsNext == subject = "tls" /\ Blocks!Next
  /\ UNCHANGED <<subject, mallocVars, listsVars, metadataVars, vars, startupVars,
                 printfVars, getoptVars, direntVars, runnerVars>>
ElfNext == subject = "elf" /\ Next
  /\ UNCHANGED <<subject, mallocVars, listsVars, metadataVars, tlsVars, startupVars,
                 printfVars, getoptVars, direntVars, runnerVars>>
StartupNext == subject = "startup" /\ Boot!Next
  /\ UNCHANGED <<subject, mallocVars, listsVars, metadataVars, tlsVars, vars,
                 printfVars, getoptVars, direntVars, runnerVars>>
PrintfNext == subject = "printf" /\ Format!Next
  /\ UNCHANGED <<subject, mallocVars, listsVars, metadataVars, tlsVars, vars,
                 startupVars, getoptVars, direntVars, runnerVars>>
GetoptNext == subject = "getopt" /\ Options!Next
  /\ UNCHANGED <<subject, mallocVars, listsVars, metadataVars, tlsVars, vars,
                 startupVars, printfVars, direntVars, runnerVars>>
DirentNext == subject = "dirent" /\ Dirs!Next
  /\ UNCHANGED <<subject, mallocVars, listsVars, metadataVars, tlsVars, vars,
                 startupVars, printfVars, getoptVars, runnerVars>>
RunnerNext == subject = "runner" /\ Tester!Next
  /\ UNCHANGED <<subject, mallocVars, listsVars, metadataVars, tlsVars, vars,
                 startupVars, printfVars, getoptVars, direntVars>>

SequentialNext ==
  \/ MallocNext \/ ListsNext \/ MetadataNext \/ TlsNext \/ ElfNext
  \/ StartupNext \/ PrintfNext \/ GetoptNext \/ DirentNext \/ RunnerNext
allVars ==
  <<subject, mallocVars, listsVars, metadataVars, tlsVars, vars, startupVars,
    printfVars, getoptVars, direntVars, runnerVars>>
SequentialSpec == SequentialInit /\ [][SequentialNext]_allVars

-----------------------------------------------------------------------------
(* Large blocks: a page the kernel mapped is in one region, live or        *)
(* cached, a block is as large, aligned and disjoint as was asked, through *)
(* realloc, and one said to be zeroed has never been written               *)
(* (large_allocator.rs:49-120, 190).                                       *)
HeapHolds == subject = "malloc" => Heap!EveryPageAccounted /\ Heap!BlocksFit /\ Heap!FlagIsTrue

(* Five pointer updates an operation make the lists of                     *)
(* utils/linked_list.rs the lists they promise.                            *)
ImplementsLists == Links!ImplementsLists

(* The links of every list mirror each other, a region of metadata is on   *)
(* the list its count says, once, and its objects lie in the page, aligned,*)
(* disjoint, past header and bitmap (linked_list.rs; metadata_allocator.rs)*)
RegionsHold ==
  /\ subject = "lists" => Links!LinksMirror
  /\ subject = "metadata" => Regions!RegionsFiled /\ Regions!ObjectsFit

(* Every unit of the reserve is free or in one module's block, and a       *)
(* thread finds its own copy of every module that is registered            *)
(* (tls/layout_allocator.rs, tls/mod.rs).                                  *)
BlocksOfEveryThread == subject = "tls" => Blocks!ReserveAccounted /\ Blocks!ThreadsSeeEveryModule

(* What is mapped is what the headers say, Relr relocates every word once, *)
(* both hash tables find the same symbol, and the order of dynamic tags    *)
(* means nothing (objects/).                                               *)
ImagesHold ==
  subject = "elf" => ImageMatchesFile /\ EveryWordOnce /\ LookupsAgree /\ TagOrderIrrelevant

(* The program sees the arguments, environment and auxiliary vector a      *)
(* kernel would have given it, and no code of miros runs before what it    *)
(* uses is set up (start/bootstrap.rs, start/cli/direct_invocation.rs).          *)
ProgramsStartRight == subject = "startup" => Boot!ProgramSeesItsOwnStack /\ Boot!OwnCodeRunsReady

(* Every specifier that no long double comes before takes its own          *)
(* arguments, and its field reads back as the value; one after a long      *)
(* double takes them too early, as format.rs:85-87 says; and the call      *)
(* returns the length of the whole text or fails (libc/str/printf/).       *)
FormatsRight ==
  subject = "printf" => Format!ArgumentsStayAligned /\ Format!FieldsReadBack /\ Format!CountedOrFailed

(* getopt returns the options as they were written, and moves the operands *)
(* behind them in their own order (libc/getopt/).                          *)
OptionsRight == subject = "getopt" => Options!OptionsAsWritten /\ Options!OperandsComeLast

(* readdir returns every entry once, and no descriptor is left open        *)
(* (libc/fs/dir.rs).                                                       *)
EveryEntryOnce == subject = "dirent" => Dirs!EveryEntryOnce

(* A test passes only when all its output is claimed, and, if it meets no  *)
(* deadline and sends no signal, its failures are those its whole output   *)
(* and its exit code have, whichever thread was faster; but for an INPUT   *)
(* that fails because the program is gone (xtask/src/test/runner.rs).      *)
VerdictsHold == subject = "runner" => Tester!PassMeansAllClaimed /\ Tester!NoVerdictByTiming
=============================================================================
