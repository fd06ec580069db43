------------------------------ MODULE MCLoader ------------------------------
(* What the files can say in the runs of Loader: the program, miros and    *)
(* three libraries, with a fourth name that miros stands for.  A variable  *)
(* of miros has two names, environ and __environ; symbol is any other one. *)
EXTENDS Sequences, TLC
CONSTANTS Program, Miros, Libraries, Symbols, a, b, c, d, environ, __environ, symbol
Objects == {Program, Miros} \cup Libraries

Lists(S) == {<<>>} \cup {<<x>> : x \in S} \cup {p \in S \X S : p[1] # p[2]}
Base == [
  needed |-> (Program :> <<a, b>>) @@ (Miros :> <<>>) @@ (a :> <<b>>) @@ (b :> <<>>) @@ (c :> <<>>),
  search |-> [o \in Objects |-> [kind |-> "none", own |-> <<>>]],
  env |-> <<>>, defaults |-> <<"lib">>,
  present |-> {"lib"} \X Libraries,
  defines |-> [o \in Objects |-> [n \in Symbols |-> IF o = Miros /\ n # symbol THEN "global" ELSE "none"]],
  uses |-> [o \in Objects |-> {}], copies |-> {}, bad |-> {}, resolvers |-> {},
  lenient |-> FALSE, tlsFits |-> TRUE]

(* Every graph of three libraries, cycles and one that is intercepted; all *)
(* have resolver functions.                                                *)
Graphs ==
  {[Base EXCEPT !.resolvers = {Program, a, b, c},
                !.needed = [Base.needed EXCEPT ![Program] = p, ![a] = x, ![b] = y, ![c] = z]] :
     p \in Lists({a, b, c}), x \in Lists({b, c}), y \in Lists({a, c}), z \in Lists({a, d})}

(* Who defines and who uses a symbol, on a chain of libraries.             *)
Definitions ==
  {[Base EXCEPT !.defines = [Base.defines EXCEPT ![Program][symbol] = p, ![a][symbol] = x,
                                                 ![b][symbol] = y, ![Miros][symbol] = m],
                !.uses = [Base.uses EXCEPT ![Program] = {<<symbol, k>>},
                                           ![a] = {<<symbol, "strong">>}, ![b] = {<<symbol, "weak">>}],
                !.copies = cp, !.lenient = len] :
     p \in {"none", "global", "weak"}, x, y \in {"none", "local", "weak", "protected"}, m \in {"none", "global"},
     k \in {"strong", "weak"}, cp \in SUBSET {symbol}, len \in BOOLEAN}

(* The same of the two names of miros's variable.                          *)
Names == SUBSET {environ, __environ}
Aliased ==
  {[Base EXCEPT !.defines = [Base.defines EXCEPT
                  ![Program] = [n \in Symbols |-> IF n \in p THEN "global" ELSE "none"],
                  ![a] = [n \in Symbols |-> IF n \in x THEN k ELSE "none"]],
                !.uses = [Base.uses EXCEPT ![Program] = p \X {"strong"}, ![a] = y \X {"strong"}, ![b] = z \X {"weak"}],
                !.copies = cp] :
     p, x, y \in Names, z \in {{environ}, {__environ}}, k \in {"global", "protected"}, cp \in {{}, {environ}, {__environ}}}
Linked == {f \in Definitions \cup Aliased : \A n \in f.copies : f.defines[Program][n] # "none"}

(* Files in two places, absent ones, and the other ways to fail.           *)
Failing ==
  {[Base EXCEPT !.present = have, !.env = <<"env">>,
                !.search = [Base.search EXCEPT ![Program] = [kind |-> k, own |-> <<"own">>]],
                !.bad = bad, !.resolvers = {a}, !.tlsFits = fits] :
     have \in SUBSET ({"env", "own"} \X {a, b}), k \in {"rpath", "runpath"},
     bad \in {{}, {a}}, fits \in BOOLEAN}

TwoNames == {<<environ, __environ>>}
AllScenarios == {Base} \cup Graphs \cup Linked \cup Failing
=============================================================================
