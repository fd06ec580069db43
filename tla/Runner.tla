------------------------------- MODULE Runner -------------------------------
(***************************************************************************)
(* The example runner of xtask (xtask/src/test/runner.rs): a session       *)
(* thread works through the directives of a test case while one thread per *)
(* output stream reads what the program writes into a shared buffer and    *)
(* another waits for the program to exit.  Every wait has a deadline.      *)
(*                                                                         *)
(* Output is a sequence of bytes; what a directive names is the bytes of a *)
(* line with its newline.  A program is external: a script of writes and   *)
(* reads that ends with an exit code, and may be killed.                   *)
(***************************************************************************)
EXTENDS Integers, Sequences, FiniteSets
LOCAL INSTANCE SequencesExt

CONSTANTS
  Cases,          \* [script, code, directives, status]: see MCInputs
  MaxTimeouts,    \* deadlines that pass before the answer comes
  Null

Sides == {"stdout", "stderr"}

VARIABLES
  test,           \* the case that runs
  child,          \* [at, status]: its place in the script, its status or Null
  input,          \* what was sent to it and it has not read
  pipe,           \* pipe[s]: bytes written and not yet read by the reader
  buffer,         \* buffer[s]: StreamState [bytes, eof]
  channel,        \* what the waiting thread has sent and nobody received
  reaped,         \* the waiting thread has sent
  pc, at,         \* the session: what it does, and which directive it is at
  claims,         \* claims[s]: the intervals of the bytes claimed
  cursor,         \* cursor[s]: where the next WAIT-FOR looks from
  expects, status, failures,
  timeouts        \* history: deadlines that passed

vars == <<test, child, input, pipe, buffer, channel, reaped, pc, at, claims, cursor,
          expects, status, failures, timeouts>>
outside == <<child, input, pipe>>
readers == <<buffer, channel, reaped>>

Begins ==
  /\ child = [at |-> 1, status |-> Null] /\ input = 0
  /\ pipe = [s \in Sides |-> <<>>]
  /\ buffer = [s \in Sides |-> [bytes |-> <<>>, eof |-> FALSE]]
  /\ channel = Null /\ reaped = FALSE
  /\ pc = "directives" /\ at = 1
  /\ claims = [s \in Sides |-> {}] /\ cursor = [s \in Sides |-> 0]
  /\ expects = <<>> /\ status = Null /\ failures = <<>> /\ timeouts = 0

Init == test \in Cases /\ Begins

Alive == child.status = Null
Exited(code) == [kind |-> "code", value |-> code]
Killed(signal) == [kind |-> "signal", value |-> signal]

(***************************************************************************)
(* The program.                                                            *)
(***************************************************************************)
ChildStep ==
  /\ Alive
  /\ IF child.at > Len(test.script)
     THEN child' = [child EXCEPT !.status = Exited(test.code)] /\ UNCHANGED <<input, pipe>>
     ELSE LET op == test.script[child.at] IN
          /\ child' = [child EXCEPT !.at = @ + 1]
          /\ IF op.op = "read"
             THEN input > 0 /\ input' = input - 1 /\ UNCHANGED pipe
             ELSE pipe' = [pipe EXCEPT ![op.stream] = @ \o op.bytes] /\ UNCHANGED input
  /\ UNCHANGED <<test, readers, pc, at, claims, cursor, expects, status, failures, timeouts>>

(***************************************************************************)
(* spawn_reader: a read returns some of the bytes in the pipe, without the *)
(* lock; the buffer is extended under it and every waiter woken.  The end  *)
(* of the file is read once no writer is left.                             *)
(***************************************************************************)
AtEnd(s) == ~Alive /\ pipe[s] = <<>>

Reader(s) ==
  /\ ~buffer[s].eof
  /\ \/ \E n \in 1 .. Len(pipe[s]) :
          /\ buffer' = [buffer EXCEPT ![s].bytes = @ \o SubSeq(pipe[s], 1, n)]
          /\ pipe' = [pipe EXCEPT ![s] = SubSeq(@, n + 1, Len(@))]
     \/ AtEnd(s) /\ buffer' = [buffer EXCEPT ![s].eof = TRUE] /\ UNCHANGED pipe
  /\ UNCHANGED <<test, child, input, channel, reaped, pc, at, claims, cursor, expects, status,
                 failures, timeouts>>

\* The thread that waits for the child.
Waiter ==
  /\ ~Alive /\ ~reaped
  /\ channel' = child.status /\ reaped' = TRUE
  /\ UNCHANGED <<test, outside, buffer, pc, at, claims, cursor, expects, status, failures, timeouts>>

(***************************************************************************)
(* Claims.  An interval is [start, end), from 0.                           *)
(***************************************************************************)
Matches(bytes, needle, from) ==
  {k \in from .. Len(bytes) - Len(needle) : SubSeq(bytes, k + 1, k + Len(needle)) = needle}
Earliest(S) == CHOOSE k \in S : \A j \in S : k <= j
Interval(k, needle) == [start |-> k, end |-> k + Len(needle)]
Overlaps(a, b) == a.start < b.end /\ b.start < a.end

\* A faulty variant: bytes another directive has claimed are claimed again.
UnclaimedAny(taken, bytes, needle) == Matches(bytes, needle, 0)
Unclaimed(taken, bytes, needle) ==
  {k \in Matches(bytes, needle, 0) : \A c \in taken : ~Overlaps(c, Interval(k, needle))}

\* The positions nobody claimed.
Residue(taken, bytes) ==
  {k \in 0 .. Len(bytes) - 1 : \A c \in taken : ~(c.start <= k /\ k < c.end)}

(***************************************************************************)
(* The directives.                                                         *)
(***************************************************************************)
Directive == test.directives[at]
Doing(kind) == pc = "directives" /\ at <= Len(test.directives) /\ Directive.kind = kind
Failed(f) == failures' = Append(failures, f)
Expires == timeouts < MaxTimeouts /\ timeouts' = timeouts + 1

Found == Matches(buffer[Directive.stream].bytes, Directive.text, cursor[Directive.stream])

\* wait_for finds the text, in what has been read so far, after the cursor.
AwaitMatched ==
  /\ Doing("WaitFor") /\ Found # {}
  /\ LET s == Directive.stream
         here == Interval(Earliest(Found), Directive.text)
     IN  cursor' = [cursor EXCEPT ![s] = here.end] /\ claims' = [claims EXCEPT ![s] = @ \union {here}]
  /\ at' = at + 1
  /\ UNCHANGED <<test, outside, readers, pc, expects, status, failures, timeouts>>

\* The stream ends without the text, or the deadline passes: the run is over.
AwaitFails ==
  /\ Doing("WaitFor") /\ Found = {}
  /\ \/ buffer[Directive.stream].eof /\ Failed("WaitEof") /\ UNCHANGED timeouts
     \/ ~buffer[Directive.stream].eof /\ Expires /\ Failed("WaitTimeout")
  /\ pc' = "abort"
  /\ UNCHANGED <<test, outside, readers, at, claims, cursor, expects, status>>

Expect ==
  /\ Doing("Expect")
  /\ expects' = Append(expects, Directive) /\ at' = at + 1
  /\ UNCHANGED <<test, outside, readers, pc, claims, cursor, status, failures, timeouts>>

\* INPUT and EOF: writing to a program that is gone may fail.
SendInput ==
  /\ Doing("Input")
  /\ \/ input' = input + 1 /\ UNCHANGED failures
     \/ ~Alive /\ Failed("WriteFailed") /\ UNCHANGED input
  /\ at' = at + 1
  /\ UNCHANGED <<test, child, pipe, readers, pc, claims, cursor, expects, status, timeouts>>

\* kill: no effect on a program that is gone, an error once it is reaped.
Struck(signal) == [child EXCEPT !.status = IF Alive THEN Killed(signal) ELSE @]

Signal ==
  /\ Doing("Signal")
  /\ child' = Struck(Directive.signal) /\ at' = at + 1
  /\ IF reaped THEN Failed("SignalFailed") ELSE UNCHANGED failures
  /\ UNCHANGED <<test, input, pipe, readers, pc, claims, cursor, expects, status, timeouts>>

DirectivesDone ==
  /\ pc = "directives" /\ at > Len(test.directives)
  /\ pc' = "status"
  /\ UNCHANGED <<test, outside, readers, at, claims, cursor, expects, status, failures, timeouts>>

KillSignal == 9

KilledNow == Struck(KillSignal)

\* abort: kill, then wait for the status until a deadline (reap).
Abort ==
  /\ pc = "abort" /\ child' = KilledNow /\ pc' = "reap"
  /\ UNCHANGED <<test, input, pipe, readers, at, claims, cursor, expects, status, failures, timeouts>>

Reap ==
  /\ pc = "reap"
  /\ \/ channel # Null /\ status' = channel /\ channel' = Null /\ UNCHANGED timeouts
     \/ channel = Null /\ Expires /\ UNCHANGED <<status, channel>>
  /\ pc' = IF at > Len(test.directives) THEN "output" ELSE "done"
  /\ UNCHANGED <<test, outside, buffer, reaped, at, claims, cursor, expects, failures>>

VerifyStatus ==
  /\ pc = "status" /\ channel # Null
  /\ status' = channel /\ channel' = Null
  /\ IF channel = test.status THEN UNCHANGED failures ELSE Failed("ExitMismatch")
  /\ pc' = "output"
  /\ UNCHANGED <<test, outside, buffer, reaped, at, claims, cursor, expects, timeouts>>

ExitTimeout ==
  /\ pc = "status" /\ channel = Null /\ Expires
  /\ child' = KilledNow /\ Failed("ExitTimeout") /\ pc' = "reap"
  /\ UNCHANGED <<test, input, pipe, readers, at, claims, cursor, expects, status>>

\* What verify_output makes of one complete stream: the expected lines are
\* claimed in order, and what is left over is a failure.
Verified(s, taken, bytes) ==
  LET claim(v, d) ==
        LET free == Unclaimed(v.taken, bytes, d.text)
        IN  IF free = {} THEN [v EXCEPT !.failures = Append(@, "ExpectMiss")]
            ELSE [v EXCEPT !.taken = @ \union {Interval(Earliest(free), d.text)}]
      claimed == FoldLeft(claim, [taken |-> taken, failures |-> <<>>],
                          SelectSeq(expects, LAMBDA d : d.stream = s))
  IN  IF Residue(claimed.taken, bytes) = {} THEN claimed
      ELSE [claimed EXCEPT !.failures = Append(@, "UnclaimedOutput")]

\* verify_output, one stream at a time: "output" is stdout, "output2" stderr.
Verifying == IF pc = "output" THEN "stdout" ELSE "stderr"
AfterVerifying == IF pc = "output" THEN "output2" ELSE "done"

VerifyOutput ==
  /\ pc \in {"output", "output2"} /\ buffer[Verifying].eof
  /\ LET v == Verified(Verifying, claims[Verifying], buffer[Verifying].bytes)
     IN  claims' = [claims EXCEPT ![Verifying] = v.taken] /\ failures' = failures \o v.failures
  /\ pc' = AfterVerifying
  /\ UNCHANGED <<test, outside, readers, at, cursor, expects, status, timeouts>>

DrainTimeout ==
  /\ pc \in {"output", "output2"} /\ ~buffer[Verifying].eof /\ Expires
  /\ Failed("DrainTimeout") /\ pc' = AfterVerifying
  /\ UNCHANGED <<test, outside, readers, at, claims, cursor, expects, status>>

Session == \/ AwaitMatched \/ AwaitFails \/ Expect \/ SendInput \/ Signal \/ DirectivesDone
           \/ Abort \/ Reap \/ VerifyStatus \/ ExitTimeout \/ VerifyOutput \/ DrainTimeout

Next == ChildStep \/ (\E s \in Sides : Reader(s)) \/ Waiter \/ Session

Spec == Init /\ [][Next]_vars

(***************************************************************************)
(* What a verdict means.                                                   *)
(***************************************************************************)
Passed == pc = "done" /\ failures = <<>>

\* Everything the program wrote to a stream before it ended.
WrittenTo(s, upTo) ==
  FoldLeft(LAMBDA b, op : IF op.op = "write" /\ op.stream = s THEN b \o op.bytes ELSE b,
           <<>>, SubSeq(test.script, 1, upTo - 1))
Naming(s) == SelectSeq(test.directives, LAMBDA d : d.kind \in {"WaitFor", "Expect"} /\ d.stream = s)

\* A test passes only if the program ended with the status asked for and
\* every byte it wrote is claimed by exactly one directive that names it, and
\* every directive has a line of its own (the buffers are still filling while
\* directives claim from them, and the claims of WAIT-FOR and EXPECT share
\* the stream).
PassMeansAllClaimed ==
  Passed =>
    /\ child.status = test.status
    /\ \A s \in Sides :
         LET all == WrittenTo(s, child.at)
         IN  /\ \A k \in 0 .. Len(all) - 1 :
                  Cardinality({c \in claims[s] : c.start <= k /\ k < c.end}) = 1
             /\ Cardinality(claims[s]) = Len(Naming(s))
             /\ \A c \in claims[s] : \E i \in DOMAIN Naming(s) :
                  SubSeq(all, c.start + 1, c.end) = Naming(s)[i].text

\* The failures there would be if the program ran to its end before the first
\* directive was looked at.
Unsignalled == \A k \in DOMAIN test.directives : test.directives[k].kind # "Signal"
Everything(s) == WrittenTo(s, Len(test.script) + 1)

WaitedAtOnce ==
  LET wait(v, d) ==
        LET s == d.stream
            all == Matches(Everything(s), d.text, v.cursor[s])
            here == Interval(Earliest(all), d.text)
        IN  IF d.kind # "WaitFor" \/ v.missed THEN v
            ELSE IF all = {} THEN [v EXCEPT !.missed = TRUE]
            ELSE [v EXCEPT !.cursor[s] = here.end, !.claims[s] = @ \union {here}]
  IN  FoldLeft(wait, [cursor |-> [s \in Sides |-> 0], claims |-> [s \in Sides |-> {}], missed |-> FALSE],
               test.directives)

FailuresAtOnce ==
  LET waited == WaitedAtOnce
      verified(s) == Verified(s, waited.claims[s], Everything(s)).failures
  IN  IF waited.missed THEN <<"WaitEof">>
      ELSE (IF Exited(test.code) = test.status THEN <<>> ELSE <<"ExitMismatch">>)
           \o verified("stdout") \o verified("stderr")

\* A test that meets no deadline and sends no signal has the failures its
\* output and its exit code have, each of them and in their order, however the
\* program, the readers and the session interleave: a WAIT-FOR misses only what
\* is nowhere in the rest of the stream, and what is claimed, expected and left
\* over is as if all had been there from the start (wait_for looks again before
\* it believes the end of the stream or its deadline).  One failure is left to
\* timing: an INPUT to a program that may be gone (runner.rs:422-426) is written
\* or fails.  And the program never outlives the run.
NoVerdictByTiming ==
  pc = "done" =>
    /\ ~Alive
    /\ timeouts = 0 /\ Unsignalled =>
         SelectSeq(failures, LAMBDA f : f # "WriteFailed") = FailuresAtOnce
=============================================================================
