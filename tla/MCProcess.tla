------------------------------ MODULE MCProcess ------------------------------
(***************************************************************************)
(* Instances for TLC of three parts of a process that share no state: the  *)
(* loader that starts it, the windows its allocator grows by, and its      *)
(* output streams up to its exit.  A behaviour exercises one of them, its  *)
(* `subject`, while the others rest in an initial state.                   *)
(***************************************************************************)
EXTENDS MCStdio, MCLoader

CONSTANTS
  Intercepted, Null, Cells, Scenarios,                               \* of Loader
  Classes, NoClass, Slice, Space, DirectorySlots, MaxSpans, MaxLarge \* of Windows

VARIABLES
  subject,
  files, stage, pending, loaded, opened, stack, visited, order, at, bound, content,
  undefined, cell, asked, ran,
  mapped, others, slot, current, growth, growPc, my, carved

loaderVars == <<files, stage, pending, loaded, opened, stack, visited, order, at, bound, content,
                undefined, cell, asked, ran>>
windowVars == <<mapped, others, slot, current, growth, growPc, my, carved>>

L == INSTANCE Loader
W == INSTANCE Windows WITH NoThread <- Nobody, pc <- growPc

ASSUME ProcessAssumption == StdioAssumption /\ W!WindowsAssumption

Subjects == {"streams", "loader", "windows"}

(* The classes are alike: which of them has which window does not matter.  *)
FirstWindows ==
  CHOOSE f \in [Classes -> 1..Cardinality(Classes)] : \A c1, c2 \in Classes : c1 # c2 => f[c1] # f[c2]

ProcessInit ==
  /\ subject \in Subjects
  /\ Init /\ (subject # "streams" => tty)
  /\ L!Init /\ (subject # "loader" => files = Base)
  /\ W!Init /\ current = FirstWindows

StreamsNext == subject = "streams" /\ Next /\ UNCHANGED <<subject, loaderVars, windowVars>>
LoaderNext == subject = "loader" /\ L!Next /\ UNCHANGED <<subject, vars, windowVars>>
WindowsNext == subject = "windows" /\ W!Next /\ UNCHANGED <<subject, vars, loaderVars>>

ProcessNext == StreamsNext \/ LoaderNext \/ WindowsNext

(* The fairness of the parts, which a behaviour owes to its subject.       *)
ProcessSpec ==
  /\ ProcessInit
  /\ [][ProcessNext]_<<subject, vars, loaderVars, windowVars>>
  /\ WF_<<subject, loaderVars>>(LoaderNext)
  /\ \A t \in Threads :
       /\ WF_vars(Step(t))
       /\ WF_<<subject, windowVars>>(subject = "windows" /\ W!Grow(t) /\ UNCHANGED subject)

-----------------------------------------------------------------------------
(* The order in which libraries are searched, relocated and initialised is *)
(* the one the graph of DT_NEEDED gives; no initialiser of theirs runs     *)
(* before start-up is done with all of them, and a resolver function, that *)
(* runs while its object is relocated, finds what it needs relocated,      *)
(* except round a cycle (load_dependencies.rs:28-55,                       *)
(* object_data_graph.rs:33-71, relocate.rs:74-84, init_and_fini_array.rs). *)
LibrariesInOrder == L!BreadthFirst /\ L!DependenciesFirst /\ L!NothingRunsEarly

(* Everyone who uses a name uses the same variable, with the bytes that    *)
(* relocation made, and miros's own code is with the only other exporter   *)
(* of any name of its variable (object_data_graph.rs:73-113,               *)
(* interposable.rs:34-46, linked_aliases.def).                             *)
OneVariable == L!OneVariable

(* A free finds the window of its own pointer's class while successors are *)
(* minted, no span is carved twice, and a class mints one successor when   *)
(* two threads exhaust its window together (primary.rs:145-148, 266-304).  *)
SpansRoute == W!PointersRoute /\ W!SpansCarvedOnce /\ W!OneSuccessor

(* Start-up ends in the program or in an exit, whatever the graph; a call  *)
(* on a stream returns and an exit ends the process; the growth lock of    *)
(* the windows is let go on every path.                                    *)
ProcessGoesOn ==
  /\ <>[](Settled /\ (subject = "loader" => stage \in {"entered", "exited"}))
  /\ W!GrowthIsReleased
=============================================================================
