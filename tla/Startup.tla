------------------------------- MODULE Startup -------------------------------
(***************************************************************************)
(* How miros starts itself (start/mod.rs): it reads the stack the kernel   *)
(* left, relocates its own image, sets its thread-local storage up, runs   *)
(* its own initialisers, and then hands the program a stack of its own.    *)
(* When miros was executed directly, the words of its own command line are *)
(* dropped from that stack and the auxiliary vector is made to describe    *)
(* the program.                                                            *)
(*                                                                         *)
(* The stack is a sequence of words above the argument count; a word is a  *)
(* name, and "null" is the word 0.  miros's own image is a set of words    *)
(* the linker left addends in, which are wrong until they are relocated.   *)
(***************************************************************************)
EXTENDS Integers, Sequences
LOCAL INSTANCE SequencesExt

CONSTANTS
  Starts,      \* [direct, options, arguments, environment, auxv, image, loads]
  NoFunction

VARIABLES
  start,       \* how miros was started
  stage,       \* Bootstrap's and DirectInvocation's stages, and the end
  argc, stack, \* the argument count and the words above it
  argv, env, auxv,      \* indexes into stack: arg_, env_ and auxv_pointer
  relocated,   \* the words of miros's image that hold their final value
  step,        \* the next relocation or initialiser
  tls, heap,   \* set up
  called,      \* history: what miros's own code was called, and with what set up
  config,      \* RuntimeConfig
  published    \* what the program's libc calls are answered from

vars == <<start, stage, argc, stack, argv, env, auxv, relocated, step, tls, heap, called,
          config, published>>

AuxvTypes == {"phdr", "phent", "phnum", "pagesz", "base", "entry", "clktck", "random", "execfn"}

\* The stack as the kernel leaves it.
Pairs(items) == FlattenSeq([k \in DOMAIN items |-> <<items[k].type, items[k].value>>])
Laid(arguments, environment, items) ==
  arguments \o <<"null">> \o [k \in DOMAIN environment |-> environment[k].word] \o <<"null">>
  \o Pairs(items) \o <<"null", "undefined">>
OwnArguments == IF start.direct THEN <<"miros">> \o start.options \o start.arguments
                ELSE start.arguments

\* The first word from an index on that is null.
NullFrom(words, i) ==
  CHOOSE j \in i .. Len(words) : words[j] = "null" /\ \A k \in i .. j - 1 : words[k] # "null"
\* An auxiliary vector is read in pairs, up to the null type.
AuxvEnd(words, i) ==
  CHOOSE j \in i .. Len(words) :
    /\ (j - i) % 2 = 0 /\ words[j] = "null"
    /\ \A k \in i .. j - 1 : (k - i) % 2 = 0 => words[k] # "null"
AuxvOf(words, i) == [k \in 1 .. (AuxvEnd(words, i) - i) \div 2 |->
                       [type |-> words[i + 2 * k - 2], value |-> words[i + 2 * k - 1]]]
\* AuxiliaryVectorInfo::new: the last item of a type.
Info(items, type) ==
  LET last == CHOOSE k \in DOMAIN items : items[k].type = type
                /\ \A j \in k + 1 .. Len(items) : items[j].type # type
  IN  items[last].value

Begins ==
  /\ stage = "entry"
  /\ stack = Laid(OwnArguments, start.environment, start.auxv)
  /\ argc = Len(OwnArguments)
  /\ argv = 0 /\ env = 0 /\ auxv = 0
  /\ relocated = {} /\ step = 1 /\ tls = FALSE /\ heap = FALSE /\ called = <<>>
  /\ config = [binding |-> "lazy", undefined_symbols |-> "strict"]
  /\ published = [argv0 |-> "", environ |-> 0, auxiliary |-> 0, config |-> FALSE]

Init == start \in Starts /\ Begins

Reading == <<start, argc, stack>>
Indexes == <<argv, env, auxv>>
Image == <<relocated, step, tls, heap, called>>

(***************************************************************************)
(* relocate_and_calculate_jump_address, up to the image of miros.          *)
(***************************************************************************)
DirectInvocation == Info(AuxvOf(stack, auxv), "base") = "null"

ReadStack ==
  /\ stage = "entry"
  /\ argv' = 1 /\ env' = argc + 2
  /\ auxv' = NullFrom(stack, argc + 2) + 1
  /\ stage' = "relocate"
  /\ UNCHANGED <<Reading, Image, config, published>>

\* A relocation of miros's own image: kind, the word, and for IRELATIVE the
\* resolver to call.
Rela == start.image.rela
Recorded(function) ==
  [function |-> function, relocated |-> relocated, tls |-> tls, heap |-> heap]

RelocateOne ==
  /\ stage = "relocate" /\ step <= Len(Rela)
  /\ relocated' = IF Rela[step].kind \in {"relative", "irelative", "tpoff"}
                  THEN relocated \union {Rela[step].word} ELSE relocated
  /\ called' = IF Rela[step].kind = "irelative" THEN Append(called, Recorded(Rela[step].resolver))
               ELSE called
  /\ step' = step + 1
  /\ UNCHANGED <<Reading, Indexes, stage, tls, heap, config, published>>

RelocateEnds ==
  /\ stage = "relocate" /\ step > Len(Rela)
  /\ stage' = "tls" /\ step' = 1
  /\ UNCHANGED <<Reading, Indexes, relocated, tls, heap, called, config, published>>

AllocateTls ==
  /\ stage = "tls" /\ tls' = TRUE /\ stage' = "init"
  /\ UNCHANGED <<Reading, Indexes, relocated, step, heap, called, config, published>>

\* The arrays' words are read when their turn comes; a null one is skipped.
OwnFunctions == start.image.preinit_array \o start.image.init \o start.image.init_array

RunOne ==
  /\ stage = "init" /\ step <= Len(OwnFunctions)
  /\ called' = IF OwnFunctions[step] = NoFunction THEN called
               ELSE Append(called, Recorded(OwnFunctions[step]))
  /\ step' = step + 1
  /\ UNCHANGED <<Reading, Indexes, stage, relocated, tls, heap, config, published>>

InstallHeap ==
  /\ stage = "init" /\ step > Len(OwnFunctions)
  /\ heap' = TRUE
  /\ stage' = IF DirectInvocation THEN "parse_flags" ELSE "configure"
  /\ UNCHANGED <<Reading, Indexes, relocated, step, tls, called, config, published>>

(***************************************************************************)
(* RuntimeConfig: the environment's settings in order, then the options.   *)
(***************************************************************************)
Lenient(value)  == IF value = "1" THEN "lenient" ELSE "strict"
LazyOrNow(value) == IF value = "1" THEN "lazy" ELSE "now"

\* An unrecognised value is reported and leaves the setting as it was.
Applied(c, e) ==
  IF e.name = "LENIENT" /\ e.value \in {"0", "1"} THEN [c EXCEPT !.undefined_symbols = Lenient(e.value)]
  ELSE IF e.name = "LAZY" /\ e.value \in {"0", "1"} THEN [c EXCEPT !.binding = LazyOrNow(e.value)]
  ELSE IF e.name = "BIND_NOW" /\ e.value # "" THEN [c EXCEPT !.binding = "now"]
  ELSE c
FromEnvironment(c) == FoldLeft(Applied, c, start.environment)

Configure ==
  /\ stage = "configure"
  /\ config' = FromEnvironment(config) /\ stage' = "publish"
  /\ UNCHANGED <<Reading, Indexes, Image, published>>

(***************************************************************************)
(* Direct invocation.                                                      *)
(***************************************************************************)
\* The command line is parsed by a library: options up to the first word that
\* is none, or to a separator; the last of an option counts.
ExecutableIndex == Len(start.options) + 1
Option(c, word) ==
  CASE word = "--binding=lazy" -> [c EXCEPT !.binding = "lazy"]
    [] word = "--binding=now" -> [c EXCEPT !.binding = "now"]
    [] word = "--undefined-symbols=lenient" -> [c EXCEPT !.undefined_symbols = "lenient"]
    [] word = "--undefined-symbols=strict" -> [c EXCEPT !.undefined_symbols = "strict"]
    [] OTHER -> c

ParseFlags ==
  /\ stage = "parse_flags"
  /\ IF start.arguments = <<>>
     THEN stage' = "exit" /\ UNCHANGED config
     ELSE stage' = "compact_stack"
          /\ config' = FoldLeft(Option, FromEnvironment(config), start.options)
  /\ UNCHANGED <<Reading, Indexes, Image, published>>

\* A faulty variant: the block is taken to end at the first null word.
BlockEndAtNull(words, i) == NullFrom(words, i) + 2
\* The words of the pointer block, the null pair included.
BlockEnd(words, i) == AuxvEnd(words, i) + 2

AuxvShifted(drop) == auxv - drop

\* ptr::copy moves the block down over the dropped words; the words above the
\* block stay, and the old end of the block is left behind it.
CompactStack ==
  /\ stage = "compact_stack"
  /\ LET drop == ExecutableIndex
         end  == BlockEnd(stack, auxv)
     IN  /\ stack' = [i \in DOMAIN stack |-> IF i + drop < end THEN stack[i + drop] ELSE stack[i]]
         /\ argc' = argc - drop /\ env' = env - drop /\ auxv' = AuxvShifted(drop)
  /\ stage' = "load_executable"
  /\ UNCHANGED <<start, argv, Image, config, published>>

LoadExecutable ==
  /\ stage = "load_executable"
  /\ stage' = IF start.loads THEN "retarget_auxv" ELSE "exit"
  /\ UNCHANGED <<Reading, Indexes, Image, config, published>>

\* What an item says once the vector describes the program.
Described(type, value) ==
  CASE type = "phdr" -> "program.phdr" [] type = "phent" -> "phent"
    [] type = "phnum" -> "program.phnum" [] type = "entry" -> "program.entry"
    [] type = "base" -> "null" [] type = "execfn" -> stack[argv]
    [] OTHER -> value

RetargetAuxv ==
  /\ stage = "retarget_auxv"
  /\ stack' = [i \in DOMAIN stack |->
                 IF i > auxv /\ i < AuxvEnd(stack, auxv) /\ (i - auxv) % 2 = 1
                 THEN Described(stack[i - 1], stack[i]) ELSE stack[i]]
  /\ stage' = "publish"
  /\ UNCHANGED <<start, argc, Indexes, Image, config, published>>

\* set_auxiliary_vector, set_environ_pointer, set_program_name and
\* RuntimeConfig::set; the pipeline follows (Loader).
Publish ==
  /\ stage = "publish"
  /\ published' = [argv0 |-> stack[argv], environ |-> env, auxiliary |-> auxv, config |-> TRUE]
  /\ stage' = "pipeline"
  /\ UNCHANGED <<Reading, Indexes, Image, config>>

Next == \/ ReadStack \/ RelocateOne \/ RelocateEnds \/ AllocateTls \/ RunOne \/ InstallHeap
        \/ Configure \/ ParseFlags \/ CompactStack \/ LoadExecutable \/ RetargetAuxv \/ Publish

Spec == Init /\ [][Next]_vars

(***************************************************************************)
(* What the program finds.                                                 *)
(***************************************************************************)
\* A vector that describes the program as if the kernel had started it with
\* no interpreter.
DescribesProgram(items) ==
  \A k \in DOMAIN items :
    items[k].value = CASE items[k].type = "phdr" -> "program.phdr"
                       [] items[k].type = "phnum" -> "program.phnum"
                       [] items[k].type = "entry" -> "program.entry"
                       [] items[k].type = "base" -> "null"
                       [] items[k].type = "execfn" -> start.arguments[1]
                       [] OTHER -> start.auxv[k].value

\* The program reads its own arguments, its whole environment and an auxiliary
\* vector that describes it from the stack and from what libc has published,
\* whichever way it was started (compact_stack moves a block of three
\* null-terminated arrays of which the last is ended by pairs, and
\* retarget_executable rewrites it where it now is).
ProgramSeesItsOwnStack ==
  stage = "pipeline" =>
    LET afterArgs == NullFrom(stack, 1)
        afterEnv  == NullFrom(stack, afterArgs + 1)
        items     == AuxvOf(stack, afterEnv + 1)
    IN  /\ argc = Len(start.arguments)
        /\ SubSeq(stack, 1, afterArgs - 1) = start.arguments
        /\ SubSeq(stack, afterArgs + 1, afterEnv - 1)
             = [k \in DOMAIN start.environment |-> start.environment[k].word]
        /\ [k \in DOMAIN items |-> items[k].type] = [k \in DOMAIN start.auxv |-> start.auxv[k].type]
        /\ IF start.direct THEN DescribesProgram(items) ELSE items = start.auxv
        /\ published.argv0 = start.arguments[1]
        /\ published.environ = afterArgs + 1 /\ published.auxiliary = afterEnv + 1

RelativeWords == {Rela[k].word : k \in {j \in DOMAIN Rela : Rela[j].kind = "relative"}}
AllWords == {Rela[k].word : k \in {j \in DOMAIN Rela : Rela[j].kind # "none"}}
IsResolver(f) == \E k \in DOMAIN Rela : Rela[k].kind = "irelative" /\ Rela[k].resolver = f

\* miros's own code runs only on what is ready: its resolvers on relocated
\* pointers, its initialisers with every word relocated and thread-local
\* storage set up, each once and in the order of the image (the stages of
\* Bootstrap, over the order the linker gives the relocations).
OwnCodeRunsReady ==
  /\ \A k \in DOMAIN called :
       IF IsResolver(called[k].function) THEN RelativeWords \subseteq called[k].relocated
       ELSE AllWords \subseteq called[k].relocated /\ called[k].tls
  /\ stage \notin {"entry", "relocate", "tls", "init"} =>
       SelectSeq([k \in DOMAIN called |-> called[k].function], LAMBDA f : ~IsResolver(f))
         = SelectSeq(start.image.preinit_array \o start.image.init \o start.image.init_array,
                     LAMBDA f : f # NoFunction)
=============================================================================
