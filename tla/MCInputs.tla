------------------------------ MODULE MCInputs ------------------------------
(***************************************************************************)
(* The inputs over which the parts that read text are run: images and      *)
(* environments of a start, calls of printf, command lines, and programs   *)
(* with the directives of their tests.                                     *)
(***************************************************************************)
EXTENDS Naturals, Sequences
CONSTANT NoFunction

(* Both ways of starting, with options, environments and vectors that put   *)
(* a null value in the middle of the block.                                 *)

Env(name, value) == [word |-> name, name |-> name, value |-> value]
Environments == { <<>>, <<Env("HOME", "x")>>, <<Env("LAZY", "0"), Env("HOME", "x")>>,
                  <<Env("LAZY", "maybe"), Env("LENIENT", "1")>>,
                  <<Env("BIND_NOW", "1"), Env("LAZY", "1")>> }
Item(t, v) == [type |-> t, value |-> v]
Vector(base) ==
  <<Item("hwcap", "null"), Item("phdr", "miros.phdr"), Item("phent", "phent"),
    Item("phnum", "miros.phnum"), Item("pagesz", "4096"), Item("base", base),
    Item("entry", "miros.entry"), Item("secure", "null"), Item("random", "bytes"),
    Item("execfn", "miros.path")>>
R(kind, word, resolver) == [kind |-> kind, word |-> word, resolver |-> resolver]
Images ==
  { [rela |-> r, preinit_array |-> p, init |-> i, init_array |-> a] :
      r \in { <<R("relative", "w1", "none"), R("tpoff", "w2", "none"), R("none", "w4", "none"),
                R("irelative", "w3", "resolver")>>,
              <<R("relative", "w1", "none"), R("relative", "w2", "none")>> },
      p \in {<<>>, <<"p1">>}, i \in {<<>>, <<"i1">>}, a \in {<<>>, <<"a1", NoFunction, "a2">>} }
OptionTexts == { <<>>, <<"--binding=now">>, <<"--binding=lazy", "--undefined-symbols=lenient">>,
             <<"--binding=now", "--binding=lazy", "--">> }

SomeStarts ==
  { [direct |-> TRUE, options |-> o, arguments |-> a, environment |-> e,
     auxv |-> Vector("null"), image |-> m, loads |-> l] :
      o \in OptionTexts, a \in {<<>>, <<"program">>, <<"program", "x", "--binding=now">>},
      e \in Environments, m \in Images, l \in BOOLEAN }
  \union
  { [direct |-> FALSE, options |-> <<>>, arguments |-> a, environment |-> e,
     auxv |-> Vector("miros.base"), image |-> m, loads |-> TRUE] :
      a \in {<<"program">>, <<"program", "x">>}, e \in Environments, m \in Images }
-----------------------------------------------------------------------------
(* Calls of printf: a specifier between a literal and a second specifier.  *)

PointeeText == <<"b", "a", "d">>

Text(t) == [text |-> t, flags |-> <<>>, width |-> <<>>, precision |-> <<>>,
            length |-> <<>>, conversion |-> ""]
Conv(f, w, p, l, c) == [text |-> <<>>, flags |-> f, width |-> w, precision |-> p,
                        length |-> l, conversion |-> c]
Plain(c) == Conv(<<>>, <<>>, <<>>, <<>>, c)

FlagTexts == {<<>>, <<"-">>, <<"+">>, <<" ">>, <<"#">>, <<"0">>, <<"0", "-">>, <<"+", "0">>,
              <<"#", "0">>, <<" ", "+">>, <<"#", "-">>, <<" ", "0">>, <<"#", "+", "0">>}
WidthTexts == {<<>>, <<"6">>, <<"*">>}
PrecisionTexts == {<<>>, <<".">>, <<".", "2">>, <<".", "*">>}
LengthTexts == {<<>>, <<"h">>, <<"h", "h">>, <<"l">>}
Words == {<<12, 3, 17, 9, 1, 1>>, <<27, 30, 0, 62, 8, 1>>, <<0, 0, 37, 31, 16, 1>>}
Ample == 99

\* Every specifier of an integer or a string, followed by a plain one.
Specifiers ==
  { [parts |-> <<Text(<<"b">>), Conv(f, w, p, l, c), Plain("d")>>,
     args |-> words, room |-> Ample, flushes |-> TRUE] :
      f \in FlagTexts, w \in WidthTexts, p \in PrecisionTexts, l \in LengthTexts,
      c \in {"d", "u", "o", "x"}, words \in Words }

Others ==
  { [parts |-> <<Conv(f, w, p, l, c), Text(<<"%">>), Plain(d), Text(<<"b", "*">>)>>,
     args |-> words, room |-> out[1], flushes |-> out[2]] :
      f \in {<<>>, <<"-">>, <<"0">>}, w \in WidthTexts, p \in {<<>>, <<".", "*">>},
      l \in {<<>>, <<"L">>}, c \in {"s", "c", "p", "f", "y", "X", "n"}, d \in {"n", "i"},
      words \in Words,
      out \in {<<0, TRUE>>, <<5, TRUE>>, <<Ample, TRUE>>, <<Ample, FALSE>>} }

AllCalls == Specifiers \union Others
-----------------------------------------------------------------------------
(* Short lines of every kind of word, longer ones of the words that move. *)

Table == << [name |-> <<"l", "o">>, has_arg |-> "required", flag |-> FALSE, val |-> "o"],
            [name |-> <<"l", "i">>, has_arg |-> "no", flag |-> FALSE, val |-> "i"],
            [name |-> <<"l", "i", "n">>, has_arg |-> "optional", flag |-> TRUE, val |-> "n"],
            [name |-> <<"e", "x">>, has_arg |-> "no", flag |-> FALSE, val |-> "x"],
            [name |-> <<"e", "y">>, has_arg |-> "no", flag |-> FALSE, val |-> "x"] >>

Program == <<"p">>
Movers == { <<"x">>, <<"-">>, <<"-", "-">>, <<"-", "a">>, <<"-", "b">>,
            <<"-", "-", "l", "o">> }
EveryWord == Movers \union
  { <<"-", "a", "b">>, <<"-", "b", "v">>, <<"-", "a", "z">>, <<"-", "c">>, <<"-", "c", "v">>,
    <<"-", ":">>, <<"-", "-", "l", "i">>, <<"-", "-", "l">>, <<"-", "-", "l", "i", "=", "v">>,
    <<"-", "-", "l", "i", "n", "=", "v">>, <<"-", "-", "e">>, <<"-", "-", "z">>, <<>> }

WordsOf(S, n) == UNION {[1 .. k -> S] : k \in 0 .. n}
Pairs == WordsOf(EveryWord, 2)
PairsAndMover == { w \o <<m>> : w \in Pairs, m \in Movers }
Line(w, s) == [words |-> <<Program>> \o w, optstring |-> s]

CommandLines ==
  { Line(w, <<"a", "b", ":", "c", ":", ":">>) :
      w \in Pairs \union PairsAndMover \union WordsOf(Movers, 5) }
  \union { Line(w, <<":", "b", ":", "a">>) : w \in Pairs \union WordsOf(Movers, 4) }
-----------------------------------------------------------------------------
(* Programs of a few lines, and directives that do and do not match them. *)

A == <<"a", "nl">>
B == <<"b", "nl">>
Out(b) == [op |-> "write", stream |-> "stdout", bytes |-> b]
Err(b) == [op |-> "write", stream |-> "stderr", bytes |-> b]
ReadLine == [op |-> "read"]
WaitFor(t, s) == [kind |-> "WaitFor", text |-> t, stream |-> s]
ExpectOn(t, s) == [kind |-> "Expect", text |-> t, stream |-> s]
Send == [kind |-> "Input"]
Interrupt == [kind |-> "Signal", signal |-> 2]

Scripts == { <<>>, <<Out(A)>>, <<Out(A), Out(A)>>, <<Out(B), Out(A)>>,
             <<Out(A), ReadLine, Out(B)>>, <<Out(A), Out(B)>>, <<Out(A), Err(B)>>, <<ReadLine>> }
Directives == { <<>>, <<WaitFor(A, "stdout")>>, <<ExpectOn(A, "stdout")>>,
                <<ExpectOn(A, "stdout"), ExpectOn(A, "stdout")>>,
                <<WaitFor(A, "stdout"), ExpectOn(B, "stdout")>>,
                <<WaitFor(A, "stdout"), Send, WaitFor(B, "stdout")>>,
                <<ExpectOn(B, "stderr"), WaitFor(A, "stdout")>>,
                <<WaitFor(A, "stdout"), Interrupt>> }
Codes == {0, 1}
SomeCases == { [script |-> p, code |-> c, directives |-> d, status |-> e] :
                 p \in Scripts, c \in Codes, d \in Directives,
                 e \in {[kind |-> "code", value |-> 0], [kind |-> "signal", value |-> 2]} }
=============================================================================
