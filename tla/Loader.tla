------------------------------- MODULE Loader -------------------------------
(***************************************************************************)
(* Start-up after miros has relocated itself (start/mod.rs:140-162): a     *)
(* pipeline of stages over the program and its libraries.  They are loaded *)
(* breadth first (strategies/load_dependencies.rs), sorted so that a       *)
(* library comes before what needs it (object_data_graph.rs), relocated    *)
(* (relocate.rs), miros's own data exports are bound to the program's      *)
(* copies (interposable.rs), thread-local blocks are registered, and the   *)
(* initialisers run (init_and_fini_array.rs).  An error exits with 1.      *)
(*                                                                         *)
(* A scenario is what the files say: who needs whom, where files are, who  *)
(* defines and who uses a symbol.  Each of miros's variables is exported   *)
(* under several names (linked_aliases.def); in one object these name one  *)
(* variable.                                                               *)
(***************************************************************************)
EXTENDS Naturals, Sequences, FiniteSets, SequencesExt

CONSTANTS
  Program, Miros,
  Libraries,    \* names in DT_NEEDED
  Intercepted,  \* the names that miros stands for
  Symbols,
  Cells,        \* INTERPOSABLE_CELLS: each is the sequence of its exported_names
  Null,         \* the address of an undefined symbol
  Scenarios     \* the inputs; see the fields of `files` below

Objects == {Program, Miros} \cup Libraries

(* The storage a name stands for within one object.                        *)
Variable(s) ==
  IF \E c \in Cells : s \in ToSet(c) THEN Head(CHOOSE c \in Cells : s \in ToSet(c)) ELSE s
Variables == {Variable(s) : s \in Symbols}

VARIABLES
  files,    \* .needed[o]: names in order; .search[o]: directories of its resolver
            \* .present: <<directory, name>> that exist; .defines[o][s]: "none",
            \* "local", "global", "weak", "protected"; .uses[o]: {<<s, "strong"|"weak">>};
            \* .copies: symbols with a COPY relocation, one for each variable; .bad:
            \* objects with a symbol index out of bounds; .resolvers: objects with an
            \* IRELATIVE relocation; .lenient: undefined symbols are allowed;
            \* .tlsFits: the reserve has room
  stage, pending, loaded, opened,
  stack, visited, order,
  at,       \* how many objects of the order the stage has done
  bound,    \* each object's resolved references: an address is <<object, variable>>
  content,  \* what is at a variable: "file" bytes or "relocated" ones
  undefined,
  cell,     \* the slot of each of miros's cells
  asked,    \* history: whose resolver functions ran, and what was relocated then
  ran       \* history: whose initialisers ran

loading == <<pending, loaded, opened>>
sorting == <<stack, visited, order>>
linking == <<bound, content, undefined, cell, asked>>
vars == <<files, stage, loading, sorting, at, linking, ran>>

Init ==
  /\ files \in Scenarios
  /\ stage = "load"
  /\ pending = [i \in DOMAIN files.needed[Program] |-> <<files.needed[Program][i], Program>>]
  /\ loaded = <<>> /\ opened = <<>>
  /\ stack = <<>> /\ visited = {} /\ order = <<>> /\ at = 0
  /\ bound = [o \in Objects |-> [s \in Symbols |-> Null]]
  /\ content = [o \in Objects |-> [v \in Variables |-> IF o = Miros THEN "relocated" ELSE "file"]]
  /\ undefined = {} /\ cell = [c \in Cells |-> <<Miros, Head(c)>>]
  /\ asked = <<>> /\ ran = <<>>

Fail == stage' = "exited" /\ UNCHANGED <<at, ran>>

-----------------------------------------------------------------------------
(* LoadDependencies: the queue in order; a name is loaded once, whoever    *)
(* else needs it, and found on the search path of its first declarer.      *)
Skipped(name) == name \in ToSet(loaded) \cup Intercepted

(* PathResolver: the directories of one resolver, in its order.            *)
SearchOrder(kind, own, env, defaults) ==
  IF kind = "rpath" THEN own \o env \o defaults ELSE env \o own \o defaults
Directories(o) ==
  LET p == files.search[o] IN SearchOrder(p.kind, p.own, files.env, files.defaults)
Hits(name, o) == {i \in DOMAIN Directories(o) : <<Directories(o)[i], name>> \in files.present}
OpenFirstMatch(name, o) == Directories(o)[CHOOSE i \in Hits(name, o) : \A j \in Hits(name, o) : i <= j]

RestPeeked(queue) == queue
Rest(queue) == Tail(queue)   \* pop_front
QueuedFront(rest, new) == new \o rest
Queued(rest, new) == rest \o new

Load ==
  /\ stage = "load" /\ pending # <<>>
  /\ LET name == Head(pending)[1]
         declarer == Head(pending)[2]
     IN \/ /\ Skipped(name)
           /\ pending' = Rest(pending) /\ UNCHANGED <<stage, loaded, opened, at, ran>>
        \/ /\ ~Skipped(name) /\ Hits(name, declarer) # {}
           /\ loaded' = Append(loaded, name)
           /\ opened' = Append(opened, OpenFirstMatch(name, declarer))
           /\ pending' = Queued(Rest(pending),
                [i \in DOMAIN files.needed[name] |-> <<files.needed[name][i], name>>])
           /\ UNCHANGED <<stage, at, ran>>
        \/ ~Skipped(name) /\ Hits(name, declarer) = {} /\ Fail /\ UNCHANGED loading
  /\ UNCHANGED <<files, sorting, linking>>

LoadEnds ==
  /\ stage = "load" /\ pending = <<>>
  /\ stage' = "sort"
  /\ stack' = [i \in DOMAIN loaded |-> [event |-> "discover", object |-> loaded[Len(loaded) + 1 - i]]]
  /\ UNCHANGED <<files, loading, visited, order, at, linking, ran>>

-----------------------------------------------------------------------------
(* iter_objects_topological: a depth-first walk with events on a stack     *)
(* (its end is the last element).  Relocate and the initialisers both use  *)
(* the order; the graph does not change between them.                      *)
LoadedNeeds(o) == SelectSeq(files.needed[o], LAMBDA d : d \in ToSet(loaded))

EmittedAfter(o, needs) == <<[event |-> "emit", object |-> o]>> \o needs

Discover ==
  /\ stage = "sort" /\ stack # <<>> /\ Last(stack).event = "discover"
  /\ LET o == Last(stack).object
         unvisited == SelectSeq(LoadedNeeds(o), LAMBDA d : d \notin visited \cup {o})
     IN IF o \in visited THEN stack' = Front(stack) /\ UNCHANGED visited
        ELSE /\ visited' = visited \cup {o}
             /\ stack' = Front(stack) \o EmittedAfter(o,
                  [i \in DOMAIN unvisited |-> [event |-> "discover", object |-> unvisited[i]]])
  /\ UNCHANGED <<files, stage, loading, order, at, linking, ran>>

Emit ==
  /\ stage = "sort" /\ stack # <<>> /\ Last(stack).event = "emit"
  /\ order' = Append(order, Last(stack).object)
  /\ stack' = Front(stack)
  /\ UNCHANGED <<files, stage, loading, visited, at, linking, ran>>

ProgramFirst(sorted) == <<Program>> \o sorted
ProgramLast(sorted) == Append(sorted, Program)

SortEnds ==
  /\ stage = "sort" /\ stack = <<>>
  /\ order' = ProgramLast(order)
  /\ stage' = "relocate"
  /\ UNCHANGED <<files, loading, stack, visited, at, linking, ran>>

-----------------------------------------------------------------------------
(* Symbol lookup: the first of a list of objects with an exported          *)
(* definition, weak or not.                                                *)
Exports(o, s) == files.defines[o][s] \in {"global", "weak", "protected"}
FindDefinition(objects, s) ==
  LET defining == SelectSeq(objects, LAMBDA o : Exports(o, s))
  IN IF defining = <<>> THEN Null ELSE <<Head(defining), Variable(s)>>

ResolveByName(s) == FindDefinition(<<Program>> \o loaded \o <<Miros>>, s)
ResolveOutsideProgram(s) == FindDefinition(loaded \o <<Miros>>, s)
ResolveOutsideMiros(s) == FindDefinition(<<Program>> \o loaded, s)
ResolveFor(o, s) == IF files.defines[o][s] = "protected" THEN <<o, Variable(s)>> ELSE ResolveByName(s)

(* Relocate, one object: its own words, its references, the program's COPY *)
(* relocations, which read the source's bytes as they are now, and the     *)
(* IRELATIVE ones, which call a resolver function of the object then and   *)
(* there.                                                                  *)
UsesStrongly(o, s) == <<s, "strong">> \in files.uses[o]
Copied(o) == IF o = Program THEN files.copies ELSE {}
Missing(o) ==
  {s \in Symbols : UsesStrongly(o, s) /\ ResolveFor(o, s) = Null}
  \cup {s \in Copied(o) : ResolveOutsideProgram(s) = Null /\ files.defines[o][s] # "weak"}

At(address) == content[address[1]][address[2]]
ContentAfter(o, v) ==
  LET copied == {s \in Copied(o) : Variable(s) = v}
      sources == {ResolveOutsideProgram(s) : s \in copied} \ {Null}
  IN IF copied = {} THEN "relocated"
     ELSE IF sources = {} THEN content[o][v]
     ELSE At(CHOOSE source \in sources : TRUE)

CallResolver(o) ==
  asked' = IF o \in files.resolvers
             THEN Append(asked, [object |-> o, relocated |-> ToSet(SubSeq(order, 1, at))])
             ELSE asked

(* A bad symbol index ends it before or after the object's resolver ran.   *)
RelocateObject ==
  /\ stage = "relocate" /\ at < Len(order)
  /\ LET o == order[at + 1]
     IN \/ /\ o \in files.bad /\ Fail
           /\ CallResolver(o) \/ UNCHANGED asked
           /\ UNCHANGED <<bound, content, undefined, cell>>
        \/ /\ o \notin files.bad
           /\ bound' = [bound EXCEPT ![o] = [s \in Symbols |-> ResolveFor(o, s)]]
           /\ content' = [content EXCEPT ![o] = [v \in Variables |-> ContentAfter(o, v)]]
           /\ undefined' = undefined \cup Missing(o)
           /\ CallResolver(o)
           /\ at' = at + 1 /\ UNCHANGED <<stage, cell, ran>>
  /\ UNCHANGED <<files, loading, sorting>>

MayGoOn == undefined = {} \/ files.lenient

RelocateEnds ==
  /\ stage = "relocate" /\ at = Len(order)
  /\ \/ MayGoOn /\ stage' = "bind" /\ at' = 0 /\ UNCHANGED ran
     \/ ~MayGoOn /\ Fail
  /\ UNCHANGED <<files, loading, sorting, linking>>

(* BindInterposableCells: each of miros's own variables moves to whoever   *)
(* else defines one of its names, the first name that anyone defines.      *)
InterposedFirstName(c) == {i \in {1} : ResolveOutsideMiros(c[i]) # Null}
Interposed(c) == {i \in DOMAIN c : ResolveOutsideMiros(c[i]) # Null}

Bind ==
  /\ stage = "bind"
  /\ cell' = [c \in Cells |->
       IF Interposed(c) = {} THEN cell[c]
       ELSE ResolveOutsideMiros(c[CHOOSE i \in Interposed(c) : \A j \in Interposed(c) : i <= j])]
  /\ stage' = "tls"
  /\ UNCHANGED <<files, loading, sorting, at, bound, content, undefined, asked, ran>>

(* ThreadLocalStorage: Tls.tla; it fails when the reserve is used up.      *)
RegisterThreadLocal ==
  /\ stage = "tls"
  /\ \/ files.tlsFits /\ stage' = "init" /\ UNCHANGED <<at, ran>>
     \/ ~files.tlsFits /\ Fail
  /\ UNCHANGED <<files, loading, sorting, linking>>

(* InitArray: the program's preinit functions, then each object's.         *)
RunPreinit ==
  /\ stage = "init" /\ ran = <<>>
  /\ ran' = <<"preinit">>
  /\ UNCHANGED <<files, stage, loading, sorting, at, linking>>

RunInit ==
  /\ stage = "init" /\ ran # <<>> /\ at < Len(order)
  /\ ran' = Append(ran, order[at + 1]) /\ at' = at + 1
  /\ UNCHANGED <<files, stage, loading, sorting, linking>>

EnterProgram ==
  /\ stage = "init" /\ ran # <<>> /\ at = Len(order)
  /\ stage' = "entered"
  /\ UNCHANGED <<files, loading, sorting, at, linking, ran>>

Next ==
  \/ Load \/ LoadEnds \/ Discover \/ Emit \/ SortEnds
  \/ RelocateObject \/ RelocateEnds \/ Bind \/ RegisterThreadLocal
  \/ RunPreinit \/ RunInit \/ EnterProgram

Spec == Init /\ [][Next]_vars
FairSpec == Spec /\ WF_vars(Next)

-----------------------------------------------------------------------------
(* Distances in the graph of DT_NEEDED, without the intercepted names.     *)
Needs(o) == ToSet(files.needed[o]) \ Intercepted
ReachedIn ==
  LET reached[n \in Nat] ==
        IF n = 0 THEN {Program} ELSE reached[n - 1] \cup UNION {Needs(o) : o \in reached[n - 1]}
  IN reached
Level(o) == CHOOSE n \in 0..Cardinality(Objects) :
              o \in ReachedIn[n] /\ (n > 0 => o \notin ReachedIn[n - 1])
Reaches(a, b) ==
  LET reached[n \in Nat] ==
        IF n = 0 THEN Needs(a) ELSE reached[n - 1] \cup UNION {Needs(o) : o \in reached[n - 1]}
  IN b \in reached[Cardinality(Objects)]

(* What is loaded is what the program reaches, each name once, nearer      *)
(* names first: the order in which symbols are searched                    *)
(* (load_dependencies.rs:28-55; cycles and shared libraries included).     *)
BreadthFirst ==
  /\ IsInjective(loaded)
  /\ \A i \in 1..(Len(loaded) - 1) : Level(loaded[i]) <= Level(loaded[i + 1])
  /\ stage \notin {"load", "exited"} => ToSet(loaded) = ReachedIn[Cardinality(Objects)] \ {Program}

(* In the order of relocation and initialisation every object stands once, *)
(* after what it needs, except on a cycle, and the program is last         *)
(* (object_data_graph.rs:33-71).                                           *)
DependenciesFirst ==
  stage \in {"relocate", "bind", "tls", "init", "entered"} =>
    /\ IsInjective(order) /\ ToSet(order) = ToSet(loaded) \cup {Program}
    /\ Last(order) = Program
    /\ \A i, j \in DOMAIN order :
         order[j] \in Needs(order[i]) /\ j > i => Reaches(order[j], order[i])

(* When initialisers run, everyone who uses a name uses the same variable, *)
(* unless a protected definition says otherwise, and it holds the bytes    *)
(* that relocation made, in the program's copy too                         *)
(* (object_data_graph.rs:73-113; relocate.rs:113-134).                     *)
Users(s) == {o \in ToSet(order) : /\ \E k \in {"strong", "weak"} : <<s, k>> \in files.uses[o]
                                  /\ files.defines[o][s] # "protected"}
CopyHasSource(s) ==
  \A n \in files.copies : Variable(n) = Variable(s) => ResolveOutsideProgram(n) # Null

NamesAgree ==
  \A s \in Symbols :
    /\ \A o, p \in Users(s) : bound[o][s] = bound[p][s]
    /\ \A o \in Users(s) :
         bound[o][s] # Null /\ CopyHasSource(s) => At(bound[o][s]) = "relocated"

(* And miros's own code is with them, whatever name they use: on miros's   *)
(* storage if nobody else exports a name of the cell; else on that of      *)
(* somebody who does, and if he is the only one, with all who use a name   *)
(* he exports (interposable.rs:7, 34-46; linked_aliases.def).              *)
MirosAgrees ==
  \A c \in Cells :
    LET outside == {n \in ToSet(c) : ResolveOutsideMiros(n) # Null}
        owners == {ResolveOutsideMiros(n) : n \in outside}
    IN /\ cell[c] \in IF owners = {} THEN {<<Miros, Head(c)>>} ELSE owners
       /\ Cardinality(owners) <= 1 =>
            \A n \in IF owners = {} THEN ToSet(c) ELSE outside :
              \A o \in Users(n) : bound[o][n] = cell[c]

OneVariable == stage \in {"init", "entered"} => NamesAgree /\ MirosAgrees

(* No initialiser, and no code of the program's own, runs before every     *)
(* object is loaded and relocated, cells are bound and thread-local blocks *)
(* are there, and an error at any stage runs none (start/mod.rs:140-162).  *)
(* The resolvers of IRELATIVE relocations do run earlier                   *)
(* (relocate.rs:74-84): each finds what its object needs relocated, except *)
(* round a cycle, and the object itself only in part.                      *)
NothingRunsEarly ==
  /\ ran # <<>> => /\ stage \in {"init", "entered"}
                   /\ pending = <<>> /\ files.tlsFits /\ files.bad \cap ToSet(order) = {}
                   /\ files.lenient \/ \A o \in ToSet(order) : Missing(o) = {}
  /\ stage = "entered" => Tail(ran) = order
  /\ \A i \in DOMAIN asked : \A n \in Needs(asked[i].object) :
       n \in asked[i].relocated \/ Reaches(n, asked[i].object)

=============================================================================
