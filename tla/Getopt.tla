------------------------------- MODULE Getopt -------------------------------
(***************************************************************************)
(* getopt_long (libc/getopt): each call returns the next option, and the   *)
(* calls together move the words that are not options behind those that    *)
(* are.  A word of the command line is a sequence of characters; argv is   *)
(* the order the words are in now, by their number in the original line,   *)
(* indexed from 0 as in C.  One step is one call.                          *)
(***************************************************************************)
EXTENDS Integers, Sequences
LOCAL INSTANCE SequencesExt

CONSTANTS
  Lines,         \* command lines: [words, optstring]
  LongOptions,   \* the table: a sequence of [name, has_arg, flag, val]
  MaxScans,      \* times the program goes through its arguments
  Null

VARIABLES
  line,          \* the command line and the option string of the program
  argv,          \* argv[i + 1] is the number of the word at index i
  optind, optarg, optopt,
  permutation,   \* [next_char, first_nonopt, last_nonopt, initialized]
  returned,      \* history: what the calls of this scan returned
  scans,         \* scans the program has begun
  done           \* the last call returned -1

vars == <<line, argv, optind, optarg, optopt, permutation, returned, scans, done>>

words == line.words
optstring == line.optstring
argument_count == Len(argv)
Element(order, i) == words[order[i + 1]]

\* A character of a word: next_char points at `at` in the word `word`.
At(word, at) == [word |-> word, at |-> at]
Rest(p) == SubSeq(words[p.word], p.at, Len(words[p.word]))

IsOption(word)    == Len(word) > 1 /\ word[1] = "-"
IsSeparator(word) == word = <<"-", "-">>
IsLong(word)      == word[2] = "-"

(***************************************************************************)
(* Permutation::advance, on the state a call works with:                   *)
(* [argv, optind, next_char, first, last].                                 *)
(***************************************************************************)
Lesser(a, b) == IF a < b THEN a ELSE b

\* argv[from..to].rotate_left(by)
Rotated(order, from, to, by) ==
  SubSeq(order, 1, from) \o SubSeq(order, from + by + 1, to)
  \o SubSeq(order, from + 1, from + by) \o SubSeq(order, to + 1, Len(order))

Exchange(g, upTo) ==
  [g EXCEPT !.argv = Rotated(g.argv, g.first, upTo, g.last - g.first),
            !.first = g.first + upTo - g.last,
            !.last = upTo]

\* The first option from optind on, or the end.
Scanned(g) ==
  CHOOSE s \in g.optind .. argument_count :
    /\ \A i \in g.optind .. s - 1 : ~IsOption(Element(g.argv, i))
    /\ s < argument_count => IsOption(Element(g.argv, s))

Gathered(g, upTo) ==
  IF g.first # g.last /\ g.last # upTo THEN Exchange(g, upTo)
  ELSE IF g.first = g.last THEN [g EXCEPT !.first = upTo] ELSE g

PastSeparator(g, s) ==
  [Gathered([g EXCEPT !.optind = s + 1], s + 1) EXCEPT !.last = argument_count,
                                                       !.optind = argument_count]

Advance(start) ==
  LET clipped  == [start EXCEPT !.last = Lesser(start.last, start.optind),
                                !.first = Lesser(start.first, start.optind)]
      gathered == IF clipped.last # clipped.optind THEN Gathered(clipped, clipped.optind)
                  ELSE clipped
      s        == Scanned(gathered)
      scanned  == [gathered EXCEPT !.optind = s, !.last = s]
  IN  IF s # argument_count /\ IsSeparator(Element(scanned.argv, s))
      THEN PastSeparator(scanned, s) ELSE scanned

(***************************************************************************)
(* What a call returns: the value, the text of its argument (a pointer     *)
(* into a word), the index in the table and the message written to stderr. *)
(***************************************************************************)
Returns(value, argument, index, message) ==
  [value |-> value, argument |-> argument, index |-> index,
   message |-> IF optstring # <<>> /\ optstring[1] = ":" THEN "" ELSE message]
Missing == IF optstring # <<>> /\ optstring[1] = ":" THEN ":" ELSE "?"

\* The position of a character in the option string, or 0.
Position(c) ==
  IF c = ":" \/ \A k \in DOMAIN optstring : optstring[k] # c THEN 0
  ELSE CHOOSE k \in DOMAIN optstring : optstring[k] = c /\ \A j \in 1 .. k - 1 : optstring[j] # c
ColonAt(k) == k \in DOMAIN optstring /\ optstring[k] = ":"

\* Reporting the outcome of a call: the working state and the new optarg,
\* optopt and returned value.
Outcome(g, ret, opt) == [g |-> g, ret |-> ret, optopt |-> opt]

\* A faulty variant: an attached argument leaves optind on its word.
PastAttachedStays(g) == g
PastAttached(g) == [g EXCEPT !.optind = g.optind + 1]

ShortOption(g0) ==
  LET c        == Rest(g0.next_char)[1]
      follow   == [g0.next_char EXCEPT !.at = g0.next_char.at + 1]
      attached == Rest(follow) # <<>>
      g        == [g0 EXCEPT !.next_char = follow,
                             !.optind = IF attached THEN g0.optind ELSE g0.optind + 1]
      p        == Position(c)
      closed   == [g EXCEPT !.next_char = Null]
  IN  IF p = 0 THEN Outcome(g, Returns("?", Null, 0, "invalid"), c)
      ELSE IF ~ColonAt(p + 1) THEN Outcome(g, Returns(c, Null, 0, ""), optopt)
      ELSE IF attached THEN Outcome(PastAttached(closed), Returns(c, follow, 0, ""), optopt)
      ELSE IF ColonAt(p + 2) THEN Outcome(closed, Returns(c, Null, 0, ""), optopt)
      ELSE IF g.optind = argument_count
      THEN Outcome(g, Returns(Missing, Null, 0, "requires"), c)
      ELSE Outcome([closed EXCEPT !.optind = g.optind + 1],
                   Returns(c, At(g.argv[g.optind + 1], 1), 0, ""), optopt)

\* The name before an equals sign, and where the value after it starts.
EqualsAt(text) == IF \A k \in DOMAIN text : text[k] # "=" THEN 0
                  ELSE CHOOSE k \in DOMAIN text : text[k] = "=" /\ \A j \in 1 .. k - 1 : text[j] # "="
NameOf(text) == IF EqualsAt(text) = 0 THEN text ELSE SubSeq(text, 1, EqualsAt(text) - 1)

\* The table is read in order: an exact name ends the search, the first
\* prefix is kept, and a later one that differs makes it ambiguous.
Candidates(name) == {k \in DOMAIN LongOptions : IsPrefix(name, LongOptions[k].name)}
Exact(name) == {k \in Candidates(name) : Len(LongOptions[k].name) = Len(name)}
First(S) == CHOOSE k \in S : \A j \in S : k <= j
Differ(a, b) == a.has_arg # b.has_arg \/ a.flag # b.flag \/ a.val # b.val

Ambiguous(name) ==
  /\ Exact(name) = {}
  /\ \E k \in Candidates(name) : Differ(LongOptions[First(Candidates(name))], LongOptions[k])

\* The value a recognised option returns: 0 if it stores it in a flag.
ValueOfOption(option) == IF option.flag THEN "0" ELSE option.val

LongOption(g0) ==
  LET text == Rest(g0.next_char)
      name == NameOf(text)
      given == EqualsAt(text) # 0
      end  == [g0.next_char EXCEPT !.at = g0.next_char.at + Len(text)]
      g    == [g0 EXCEPT !.next_char = end, !.optind = g0.optind + 1]
      k    == First(IF Exact(name) # {} THEN Exact(name) ELSE Candidates(name))
      option == LongOptions[k]
      value  == ValueOfOption(option)
  IN  IF Ambiguous(name) THEN Outcome(g, Returns("?", Null, 0, "ambiguous"), "0")
      ELSE IF Candidates(name) = {}
      THEN Outcome([g EXCEPT !.next_char = Null], Returns("?", Null, 0, "unrecognized"), "0")
      ELSE IF given /\ option.has_arg = "no"
      THEN Outcome(g, Returns("?", Null, 0, "not_allowed"), option.val)
      ELSE IF given
      THEN Outcome(g, Returns(value, [g0.next_char EXCEPT !.at = @ + EqualsAt(text)], k, ""), optopt)
      ELSE IF option.has_arg # "required" THEN Outcome(g, Returns(value, Null, k, ""), optopt)
      ELSE IF g.optind < argument_count
      THEN Outcome([g EXCEPT !.optind = g.optind + 1],
                   Returns(value, At(g.argv[g.optind + 1], 1), k, ""), optopt)
      ELSE Outcome(g, Returns(Missing, Null, 0, "requires"), option.val)

(***************************************************************************)
(* Parser::next.                                                           *)
(***************************************************************************)
Begun ==
  LET index == IF optind = 0 THEN 1 ELSE optind
      fresh == optind = 0 \/ ~permutation.initialized
  IN  [argv |-> argv, optind |-> index,
       next_char |-> IF fresh THEN Null ELSE permutation.next_char,
       first |-> IF fresh THEN index ELSE permutation.first_nonopt,
       last |-> IF fresh THEN index ELSE permutation.last_nonopt]

Starting(g) == IF g.next_char = Null THEN TRUE ELSE Rest(g.next_char) = <<>>

Ready == IF Starting(Begun) THEN Advance(Begun) ELSE Begun
Exhausted(g) == Starting(Begun) /\ g.optind = argument_count

Saved(g) ==
  /\ argv' = g.argv /\ optind' = g.optind
  /\ permutation' = [next_char |-> g.next_char, first_nonopt |-> g.first,
                     last_nonopt |-> g.last, initialized |-> TRUE]

\* A call that finds an option.
Option ==
  /\ ~done /\ ~Exhausted(Ready)
  /\ LET here == Element(Ready.argv, Ready.optind)
         word == Ready.argv[Ready.optind + 1]
         g    == IF Starting(Begun)
                 THEN [Ready EXCEPT !.next_char = At(word, IF IsLong(here) THEN 3 ELSE 2)]
                 ELSE Ready
         out  == IF IsLong(here) THEN LongOption(g) ELSE ShortOption(g)
     IN  /\ Saved(out.g)
         /\ optarg' = out.ret.argument
         /\ optopt' = out.optopt
         /\ returned' = Append(returned, out.ret)
  /\ UNCHANGED <<line, scans, done>>

\* The call that returns -1: optind is left at the first operand.
End ==
  /\ ~done /\ Exhausted(Ready)
  /\ Saved([Ready EXCEPT !.optind = IF Ready.first # Ready.last THEN Ready.first ELSE Ready.optind])
  /\ optarg' = Null /\ done' = TRUE
  /\ UNCHANGED <<line, optopt, returned, scans>>

\* The program sets optind to go through its arguments again.
Rescan ==
  /\ done /\ scans < MaxScans
  /\ \E index \in {0, 1} : optind' = index
  /\ done' = FALSE /\ returned' = <<>> /\ scans' = scans + 1
  /\ UNCHANGED <<line, argv, optarg, optopt, permutation>>

Begins ==
  /\ argv = [i \in 1 .. Len(line.words) |-> i]
  /\ optind = 1 /\ optarg = Null /\ optopt = "?"
  /\ permutation = [next_char |-> Null, first_nonopt |-> 0, last_nonopt |-> 0,
                    initialized |-> FALSE]
  /\ returned = <<>> /\ scans = 1 /\ done = FALSE

Init == line \in Lines /\ Begins

Next == Option \/ End \/ Rescan
Spec == Init /\ [][Next]_vars

(***************************************************************************)
(* The reference: the line read once from left to right.  Meaning[i] is    *)
(* what the words from i on mean: the options they hold, the words that    *)
(* belong to options, and the operands.                                    *)
(***************************************************************************)
Nothing == [returns |-> <<>>, options |-> <<>>, operands |-> <<>>]
Joined(returns, own, rest) ==
  [rest EXCEPT !.returns = returns \o rest.returns, !.options = own \o rest.options]

\* A cluster from its k-th character: what it returns and whether it takes
\* the next word.
Cluster(i) ==
  LET c[k \in 2 .. Len(words[i]) + 1] ==
        IF k > Len(words[i]) THEN [returns |-> <<>>, takes |-> 0]
        ELSE LET p == Position(words[i][k])
                 last == k = Len(words[i])
                 one(ret, takes) == [returns |-> <<ret>>, takes |-> takes]
                 more(ret) == [c[k + 1] EXCEPT !.returns = <<ret>> \o @]
                 name == words[i][k]
             IN  IF p = 0 THEN more(Returns("?", Null, 0, "invalid"))
                 ELSE IF ~ColonAt(p + 1) THEN more(Returns(name, Null, 0, ""))
                 ELSE IF ~last THEN one(Returns(name, At(i, k + 1), 0, ""), 0)
                 ELSE IF ColonAt(p + 2) THEN one(Returns(name, Null, 0, ""), 0)
                 ELSE IF i = Len(words) THEN one(Returns(Missing, Null, 0, "requires"), 0)
                 ELSE one(Returns(name, At(i + 1, 1), 0, ""), 1)
  IN  c[2]

Named(i) ==
  LET text  == SubSeq(words[i], 3, Len(words[i]))
      name  == NameOf(text)
      given == EqualsAt(text) # 0
      \* An abbreviation must stand for one meaning, its own name excepted.
      named == {k \in DOMAIN LongOptions : LongOptions[k].name = name}
      short == {k \in DOMAIN LongOptions : IsPrefix(name, LongOptions[k].name)}
      k     == First(IF named # {} THEN named ELSE short)
      one(ret, takes) == [returns |-> <<ret>>, takes |-> takes]
      found(argument, takes) == one(Returns(ValueOfOption(LongOptions[k]), argument, k, ""), takes)
  IN  IF short = {} THEN one(Returns("?", Null, 0, "unrecognized"), 0)
      ELSE IF named = {} /\ \E a, b \in short : Differ(LongOptions[a], LongOptions[b])
      THEN one(Returns("?", Null, 0, "ambiguous"), 0)
      ELSE CASE given /\ LongOptions[k].has_arg = "no" -> one(Returns("?", Null, 0, "not_allowed"), 0)
             [] given /\ LongOptions[k].has_arg # "no" -> found(At(i, 3 + EqualsAt(text)), 0)
             [] ~given /\ LongOptions[k].has_arg # "required" -> found(Null, 0)
             [] OTHER -> IF i = Len(words) THEN one(Returns(Missing, Null, 0, "requires"), 0)
                         ELSE found(At(i + 1, 1), 1)

Meaning[i \in 2 .. Len(words) + 1] ==
  IF i > Len(words) THEN Nothing
  ELSE IF ~IsOption(words[i]) THEN [Meaning[i + 1] EXCEPT !.operands = <<i>> \o @]
  ELSE IF IsSeparator(words[i])
  THEN [Nothing EXCEPT !.options = <<i>>,
                       !.operands = [j \in 1 .. Len(words) - i |-> i + j]]
  ELSE LET m == IF IsLong(words[i]) THEN Named(i) ELSE Cluster(i)
       IN  Joined(m.returns, IF m.takes = 0 THEN <<i>> ELSE <<i, i + 1>>, Meaning[i + 1 + m.takes])

Meant == IF Len(words) < 2 THEN Nothing ELSE Meaning[2]

\* An option that found no word left for its argument finds an operand there
\* when the program starts over, so only a complete line reads the same again.
Complete == \A k \in DOMAIN Meant.returns :
              Meant.returns[k].value # ":" /\ Meant.returns[k].message # "requires"
Judged == scans = 1 \/ Complete

\* The calls return the options of the line in the order they were written,
\* each with its own argument, however the words move in between and however
\* often the program starts over (Parser::next keeps its place in next_char
\* and two block ends across calls, while argv is rotated under it).
OptionsAsWritten ==
  Judged => IF done THEN returned = Meant.returns ELSE IsPrefix(returned, Meant.returns)

\* When the options are exhausted the options come first and the operands
\* after them, both in the order written, and optind is the first operand
\* (advance and exchange).
OperandsComeLast ==
  done /\ Judged =>
          /\ argv = (IF words = <<>> THEN <<>> ELSE <<1>>) \o Meant.options \o Meant.operands
          /\ optind = Len(argv) - Len(Meant.operands)
=============================================================================
