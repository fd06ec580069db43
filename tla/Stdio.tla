-------------------------------- MODULE Stdio --------------------------------
(***************************************************************************)
(* The output streams of miros (libc/stdio) and the end of the process     *)
(* (libc/process/exit.rs): buffers that are filled under a stream lock,    *)
(* writes that are partial, interrupted or fail, the chain of streams that *)
(* fflush(NULL) and exit walk under a lock of its own, fclose, and the     *)
(* exit handlers.                                                          *)
(*                                                                         *)
(* A stream lock is an owner here; FileLock.tla shows that the futex word  *)
(* behind it is one.  A write that returns EINTR is retried at once and    *)
(* changes nothing, so it is a stutter.  Where two definitions of one      *)
(* shape stand together the first is a faulty variant that the properties  *)
(* reject.                                                                 *)
(***************************************************************************)
EXTENDS Naturals, Sequences, SequencesExt, FiniteSets

CONSTANTS
  Threads,
  Stdout, Stderr,   \* the two streams that take output
  Nobody,           \* owner of a lock that is free
  BufferSize,       \* bytes in a buffer (optimal_buffer_size)
  Operations,       \* the calls that are made
  Texts, Lines,     \* what callers write, and give to puts: sequences of "x" and "nl"
  Putting,          \* what callers put: "x", "nl" and "eof"
  MaxCalls,         \* bound: calls in all but exit
  MaxFailures       \* bound: writes that fail

Characters == {"x", "nl", "eof"}

(* An fwrite of nothing returns before it locks; puts may be given "".     *)
StdioAssumption ==
  /\ Nobody \notin Threads /\ Stdout # Stderr
  /\ BufferSize \in Nat \ {0} /\ {MaxCalls, MaxFailures} \subseteq Nat
  /\ Texts \subseteq Seq(Characters) \ {<<>>} /\ Lines \subseteq Seq(Characters)
  /\ Putting \subseteq Characters

Streams == {Stdout, Stderr}

VARIABLES
  file,       \* the IoFile of each stream
  tty,        \* whether stdout is a terminal
  sent,       \* the bytes each descriptor has received
  chain,      \* STREAM_LIST_HEAD and what hangs from it
  lock,       \* the owner of each stream's FileLock
  listLock,   \* the owner of STREAM_LIST_LOCK
  handlers,   \* EXIT_HANDLERS
  pc,         \* where each thread is
  job,        \* the call each thread is in
  calls,      \* calls made so far
  failures,   \* failed writes so far
  exited,     \* the thread that ended the process, or Nobody
  accepted,   \* history: bytes copied into each stream's buffer, in order
  due         \* history: accepted as it was when each thread began its last flush

vars == <<file, tty, sent, chain, lock, listLock, handlers, pc, job, calls,
          failures, exited, accepted, due>>

(* A byte carries the call it belongs to, so that no two are alike.        *)
Bytes == [by : Threads, call : 1..MaxCalls, at : 1..4, c : Characters]
NoJob == [op |-> "none", s |-> Stdout, chunks |-> <<>>, cursor |-> 0, then |-> "idle",
          inHandler |-> FALSE]

(* IoFile::new for stdout and stderr: flags, no buffer yet, and the chain  *)
(* from stdout to stderr (stdin takes no output and has nothing to flush). *)
NewFile(s) ==
  [unbuffered |-> s = Stderr, lineBuffered |-> s = Stdout, errSeen |-> FALSE,
   putting |-> FALSE, allocated |-> FALSE, data |-> <<>>, writeEnd |-> 0]

Init ==
  /\ file = [s \in Streams |-> NewFile(s)]
  /\ tty \in BOOLEAN
  /\ sent = [s \in Streams |-> <<>>]
  /\ chain = <<Stdout, Stderr>>
  /\ lock = [s \in Streams |-> Nobody]
  /\ listLock = Nobody
  /\ handlers = 0
  /\ pc = [t \in Threads |-> "idle"]
  /\ job = [t \in Threads |-> NoJob]
  /\ calls = 0
  /\ failures = 0
  /\ exited = Nobody
  /\ accepted = [s \in Streams |-> <<>>]
  /\ due = [t \in Threads |-> [s \in Streams |-> <<>>]]

Goto(t, l) == pc' = [pc EXCEPT ![t] = l]
Return(t) == Goto(t, "idle") /\ job' = [job EXCEPT ![t] = [NoJob EXCEPT !.inHandler = job[t].inHandler]]
At(t, l) == exited = Nobody /\ pc[t] = l

-----------------------------------------------------------------------------
(* The calls.  A stream that somebody closes is not used by others.        *)
Open(s) == s \in ToSet(chain) /\ \A t \in Threads : ~(job[t].op = "close" /\ job[t].s = s)
Unused(s) == Open(s) /\ lock[s] = Nobody /\ \A t \in Threads : pc[t] = "idle" \/ job[t].s # s

Enter(t, op, s, chunks, place) ==
  /\ op \in Operations
  /\ pc[t] = "idle" /\ exited = Nobody /\ calls < MaxCalls
  /\ calls' = calls + 1
  /\ job' = [job EXCEPT ![t] = [op |-> op, s |-> s, chunks |-> chunks, cursor |-> 0,
                                then |-> "idle", inHandler |-> job[t].inHandler]]
  /\ Goto(t, place)
  /\ UNCHANGED <<file, tty, sent, chain, lock, listLock, handlers, failures, exited, accepted, due>>

Stamped(t, text, skip) ==
  [i \in DOMAIN text |-> [by |-> t, call |-> calls + 1, at |-> skip + i, c |-> text[i]]]

(* fputc: one byte, with a fast path.                                      *)
Fputc(t) ==
  \E s \in Streams, c \in Putting :
    Open(s) /\ Enter(t, "put", s, <<Stamped(t, <<c>>, 0)>>, "lock")

(* fwrite and fputs: one write_bytes.  vfprintf makes one for each piece,  *)
(* under one lock, as puts does for its two.                               *)
Fwrite(t) ==
  \E s \in Streams, text \in Texts :
    Open(s) /\ Enter(t, "write", s, <<Stamped(t, text, 0)>>, "lock")

(* puts: two calls of write_bytes under one lock.                          *)
Puts(t) ==
  \E text \in Lines : Open(Stdout) /\
    Enter(t, "write", Stdout, <<Stamped(t, text, 0), Stamped(t, <<"nl">>, Len(text))>>, "lock")

Fflush(t) == \E s \in Streams : Open(s) /\ Enter(t, "flush", s, <<>>, "lock")
FflushAll(t) == Enter(t, "flushAll", Stdout, <<>>, "listLock")
Fclose(t) == \E s \in Streams : Unused(s) /\ Enter(t, "close", s, <<>>, "lock")

(* __fpurge takes no lock: the caller is alone on the stream.              *)
Fpurge(t) ==
  /\ "purge" \in Operations
  /\ pc[t] = "idle" /\ exited = Nobody /\ calls < MaxCalls
  /\ \E s \in Streams :
       /\ Unused(s)
       /\ file' = [file EXCEPT ![s].data = <<>>, ![s].putting = FALSE]
       /\ accepted' = [accepted EXCEPT ![s] =
            SubSeq(accepted[s], 1, Len(accepted[s]) - Len(file[s].data))]
  /\ calls' = calls + 1
  /\ UNCHANGED <<tty, sent, chain, lock, listLock, handlers, pc, job, failures, exited, due>>

-----------------------------------------------------------------------------
(* begin_write with ensure_buffer: the buffering mode is chosen when the   *)
(* buffer is allocated; write_end is the buffer's start unless the stream  *)
(* is fully buffered, so that every byte takes the slow path.              *)
EnsureBuffer(f, isTty) ==
  IF f.allocated THEN f
  ELSE [f EXCEPT !.allocated = TRUE, !.data = <<>>,
                 !.lineBuffered = IF f.unbuffered THEN f.lineBuffered ELSE isTty]

BeginWrite(f, isTty) ==
  LET g == EnsureBuffer(f, isTty)
  IN IF f.putting /\ f.allocated THEN f
     ELSE [g EXCEPT !.data = <<>>, !.putting = TRUE,
                    !.writeEnd = IF g.lineBuffered \/ g.unbuffered THEN 0 ELSE BufferSize]

(* put_byte's fast path.                                                   *)
IsFast(t) == job[t].op = "put" /\ Len(file[job[t].s].data) < file[job[t].s].writeEnd

Accepts(s, bytes) == accepted' = [accepted EXCEPT ![s] = accepted[s] \o bytes]
HasUnsent(f) == f.data # <<>>

(* Go on with a flush and come back to a place; an empty buffer needs none.*)
FlushThen(t, f, place, chunks) ==
  /\ Goto(t, IF HasUnsent(f) THEN "flush" ELSE place)
  /\ job' = [job EXCEPT ![t].cursor = 0, ![t].then = place, ![t].chunks = chunks]

(* with_stream_lock, to the first thing done under the lock.  A put of EOF *)
(* that finds no room below write_end is a request to flush (overflow).    *)
LockNeedNotBeFree(s) == TRUE
LockIsFree(s) == lock[s] = Nobody

Acquire(t) ==
  LET s == job[t].s
      f == file[s]
      opened == BeginWrite(f, tty)
  IN /\ At(t, "lock") /\ LockIsFree(s)
     /\ lock' = [lock EXCEPT ![s] = t]
     /\ \/ /\ job[t].op \notin {"put", "write"}
           /\ FlushThen(t, f, "unlock", <<>>) /\ UNCHANGED <<file, accepted>>
        \/ /\ IsFast(t)
           /\ file' = [file EXCEPT ![s].data = f.data \o job[t].chunks[1]]
           /\ Accepts(s, job[t].chunks[1])
           /\ Goto(t, "unlock") /\ UNCHANGED job
        \/ /\ job[t].op \in {"put", "write"} /\ ~IsFast(t)
           /\ file' = [file EXCEPT ![s] = opened]
           /\ UNCHANGED accepted
           /\ IF job[t].op = "put" /\ job[t].chunks[1][1].c = "eof"
                THEN FlushThen(t, opened, "unlock", <<>>)
                ELSE Goto(t, "copy") /\ UNCHANGED job
     /\ UNCHANGED <<tty, sent, chain, listLock, handlers, calls, failures, exited, due>>

Release(t) ==
  LET op == job[t].op
  IN /\ At(t, "unlock")
     /\ lock' = [lock EXCEPT ![job[t].s] = Nobody]
     /\ \/ op \in {"put", "write", "flush"} /\ Return(t)
        \/ op = "close" /\ Goto(t, "detach") /\ UNCHANGED job
        \/ \E i \in DOMAIN chain :
             /\ op \in {"flushAll", "exit"} /\ chain[i] = job[t].s
             /\ \/ i < Len(chain) /\ Goto(t, "lock") /\ job' = [job EXCEPT ![t].s = chain[i + 1]]
                \/ i = Len(chain) /\ Goto(t, "walk") /\ UNCHANGED job
     /\ UNCHANGED <<file, tty, sent, chain, listLock, handlers, calls, failures, exited, accepted, due>>

-----------------------------------------------------------------------------
(* One turn of the loop of write_bytes: make room, copy what fits, flush   *)
(* when the mode asks for it.  `chunks` is what this call and the next     *)
(* calls of write_bytes under the same lock have left.                     *)
FlushesNow(f, bytes) ==
  f.unbuffered \/ (f.lineBuffered /\ \E i \in DOMAIN bytes : bytes[i].c = "nl")
RoomInBuffer(f) == BufferSize - Len(f.data)

Trim(chunks) == IF chunks # <<>> /\ chunks[1] = <<>> THEN Tail(chunks) ELSE chunks
AfterCopy(chunks) == IF chunks = <<>> THEN "unlock" ELSE "copy"

Copy(t) ==
  LET s == job[t].s
      f == file[s]
      rest == Head(job[t].chunks)
      take == IF RoomInBuffer(f) < Len(rest) THEN RoomInBuffer(f) ELSE Len(rest)
      taken == SubSeq(rest, 1, take)
      filled == [f EXCEPT !.data = f.data \o taken]
      left == <<SubSeq(rest, take + 1, Len(rest))>> \o Tail(job[t].chunks)
  IN /\ At(t, "copy")
     /\ \/ /\ RoomInBuffer(f) = 0
           /\ FlushThen(t, f, "copy", job[t].chunks) /\ UNCHANGED <<file, accepted>>
        \/ /\ RoomInBuffer(f) > 0
           /\ file' = [file EXCEPT ![s] = filled]
           /\ Accepts(s, taken)
           /\ IF FlushesNow(f, taken)
                THEN FlushThen(t, filled, AfterCopy(Trim(left)), left)
                ELSE Goto(t, AfterCopy(Trim(left))) /\ job' = [job EXCEPT ![t].chunks = Trim(left)]
     /\ UNCHANGED <<tty, sent, chain, lock, listLock, handlers, calls, failures, exited, due>>

-----------------------------------------------------------------------------
(* flush_buffer: write from the cursor until nothing is left, then the     *)
(* buffer is empty.  A failure leaves the whole buffer as it was; the loop *)
(* of write_bytes gives its call up, the callers of a flush go on.         *)
RemainingFromStart(f, cursor) == f.data
Remaining(f, cursor) == SubSeq(f.data, cursor + 1, Len(f.data))
KeptOnFailure(f, cursor) == f.data

WriteSome(t) ==
  LET s == job[t].s
      out == Remaining(file[s], job[t].cursor)
  IN /\ At(t, "flush")
     /\ \E n \in 0..Len(out) :
          /\ n > 0 \/ out = <<>>
          /\ sent' = [sent EXCEPT ![s] = sent[s] \o SubSeq(out, 1, n)]
          /\ IF n < Len(out)
               THEN /\ job' = [job EXCEPT ![t].cursor = job[t].cursor + n]
                    /\ UNCHANGED <<pc, file>>
               ELSE /\ file' = [file EXCEPT ![s].data = <<>>]
                    /\ job' = [job EXCEPT ![t].cursor = 0, ![t].then = "idle",
                                            ![t].chunks = Trim(job[t].chunks)]
                    /\ Goto(t, job[t].then)
     /\ UNCHANGED <<tty, chain, lock, listLock, handlers, calls, failures, exited, accepted, due>>

WriteFails(t) ==
  LET s == job[t].s
      left == Tail(job[t].chunks)
  IN /\ At(t, "flush") /\ failures < MaxFailures
     /\ failures' = failures + 1
     /\ file' = [file EXCEPT ![s].errSeen = TRUE,
                             ![s].data = KeptOnFailure(file[s], job[t].cursor)]
     /\ \/ /\ job[t].chunks = <<>>
           /\ Goto(t, "unlock") /\ job' = [job EXCEPT ![t].cursor = 0, ![t].then = "idle"]
        \/ /\ job[t].chunks # <<>>
           /\ Goto(t, AfterCopy(left))
           /\ job' = [job EXCEPT ![t].chunks = left, ![t].cursor = 0, ![t].then = "idle"]
     /\ UNCHANGED <<tty, sent, chain, lock, listLock, handlers, calls, exited, accepted, due>>

-----------------------------------------------------------------------------
(* flush_all_streams: the list lock is held from the first stream to the   *)
(* last, each stream's lock while it is flushed.                           *)
ListLockAfter(t) == Nobody

ListAcquire(t) ==
  /\ At(t, "listLock") /\ listLock = Nobody
  /\ listLock' = t
  /\ IF chain = <<>> THEN Goto(t, "walk") /\ UNCHANGED job
                     ELSE Goto(t, "lock") /\ job' = [job EXCEPT ![t].s = chain[1]]
  /\ UNCHANGED <<file, tty, sent, chain, lock, handlers, calls, failures, exited, accepted, due>>

ListRelease(t) ==
  /\ At(t, "walk")
  /\ listLock' = ListLockAfter(t)
  /\ IF job[t].op = "exit" THEN Goto(t, "exitGroup") /\ UNCHANGED job ELSE Return(t)
  /\ UNCHANGED <<file, tty, sent, chain, lock, handlers, calls, failures, exited, accepted, due>>

(* fclose, after the flush: detach_stream under the list lock, then close  *)
(* and release_buffer.                                                     *)
Detach(t) ==
  /\ At(t, "detach") /\ listLock = Nobody
  /\ \E i \in DOMAIN chain : chain[i] = job[t].s /\ chain' = RemoveAt(chain, i)
  /\ Goto(t, "release")
  /\ UNCHANGED <<file, tty, sent, lock, listLock, handlers, job, calls, failures, exited, accepted, due>>

ReleaseBuffer(t) ==
  /\ At(t, "release")
  /\ file' = [file EXCEPT ![job[t].s].allocated = FALSE, ![job[t].s].data = <<>>]
  /\ Return(t)
  /\ UNCHANGED <<tty, sent, chain, lock, listLock, handlers, calls, failures, exited, accepted, due>>

-----------------------------------------------------------------------------
(* atexit and __cxa_atexit; exit and the return of main.  The handlers are *)
(* popped one by one with no lock held while one runs: it may write,       *)
(* register another or call exit again.                                    *)
Atexit(t) ==
  /\ pc[t] = "idle" /\ exited = Nobody /\ calls < MaxCalls
  /\ "atexit" \in Operations
  /\ handlers' = handlers + 1 /\ calls' = calls + 1
  /\ UNCHANGED <<file, tty, sent, chain, lock, listLock, pc, job, failures, exited, accepted, due>>

Exit(t) ==
  /\ "exit" \in Operations /\ pc[t] = "idle" /\ exited = Nobody
  /\ job' = [job EXCEPT ![t].op = "exit"]
  /\ Goto(t, "pop")
  /\ UNCHANGED <<file, tty, sent, chain, lock, listLock, handlers, calls, failures, exited, accepted, due>>

AfterHandlersAtOnce == "exitGroup"
AfterHandlers == "listLock"

PopHandler(t) ==
  /\ At(t, "pop")
  /\ \/ /\ handlers > 0
        /\ handlers' = handlers - 1
        /\ job' = [job EXCEPT ![t] = [NoJob EXCEPT !.inHandler = TRUE]]
        /\ Goto(t, "idle") /\ UNCHANGED due
     \/ /\ handlers = 0
        /\ due' = [due EXCEPT ![t] = accepted]
        /\ Goto(t, AfterHandlers) /\ UNCHANGED <<handlers, job>>
  /\ UNCHANGED <<file, tty, sent, chain, lock, listLock, calls, failures, exited, accepted>>

HandlerReturns(t) ==
  /\ At(t, "idle") /\ job[t].inHandler
  /\ job' = [job EXCEPT ![t].op = "exit"]
  /\ Goto(t, "pop")
  /\ UNCHANGED <<file, tty, sent, chain, lock, listLock, handlers, calls, failures, exited, accepted, due>>

ExitGroup(t) ==
  /\ At(t, "exitGroup")
  /\ exited' = t
  /\ UNCHANGED <<file, tty, sent, chain, lock, listLock, handlers, pc, job, calls, failures, accepted, due>>

-----------------------------------------------------------------------------
Call(t) == Fputc(t) \/ Fwrite(t) \/ Puts(t) \/ Fflush(t) \/ FflushAll(t) \/ Fclose(t)
           \/ Fpurge(t) \/ Atexit(t) \/ Exit(t)
Step(t) == Acquire(t) \/ Release(t) \/ Copy(t) \/ WriteSome(t)
           \/ ListAcquire(t) \/ ListRelease(t) \/ Detach(t) \/ ReleaseBuffer(t)
           \/ PopHandler(t) \/ HandlerReturns(t) \/ ExitGroup(t)
Next == \E t \in Threads : Call(t) \/ Step(t) \/ WriteFails(t)

Spec == Init /\ [][Next]_vars
(* A running thread runs on, a handler returns.  No call is promised.  The *)
(* calls are bounded, so weak fairness gets a thread every lock it wants.  *)
FairSpec == Spec /\ \A t \in Threads : WF_vars(Step(t))

-----------------------------------------------------------------------------
OutQueue == INSTANCE OutputQueue WITH
  accepted <- accepted[Stdout], sent <- sent[Stdout], broken <- file[Stdout].errSeen
ErrQueue == INSTANCE OutputQueue WITH
  accepted <- accepted[Stderr], sent <- sent[Stderr], broken <- file[Stderr].errSeen

(* Both streams are output queues: until a write fails each byte goes out  *)
(* once and in order, through partial and interrupted writes (flush_buffer *)
(* keeps its own cursor, file.rs:60-71); a failure, which leaves           *)
(* write_base where it was, makes bytes go out again but drops none.       *)
ImplementsQueue == OutQueue!Spec /\ ErrQueue!Spec

(* What write_bytes and put_byte took over is in the buffer or has been    *)
(* written, until fclose gives the buffer up after a failed write.         *)
NothingVanishes ==
  \A s \in Streams : file[s].allocated =>
    ToSet(accepted[s]) \subseteq ToSet(sent[s]) \cup ToSet(file[s].data)

(* A locked call's bytes stay together, in puts those of the string and    *)
(* the newline (stream_write.rs:84), whatever other threads write, flush   *)
(* or close, and however often the buffer fills up in between.             *)
CallsStayTogether ==
  \A s \in Streams : \A i, k \in DOMAIN accepted[s] : \A j \in i..k :
    (accepted[s][i].by = accepted[s][k].by /\ accepted[s][i].call = accepted[s][k].call)
      => accepted[s][j].by = accepted[s][i].by /\ accepted[s][j].call = accepted[s][i].call

(* When a thread ends the process, everything accepted before it began its *)
(* last flush has been written, unless a write failed: also what other     *)
(* threads were writing or closing while it walked the chain, and with a   *)
(* second thread in exit at the same time.                                 *)
ExitFlushes ==
  exited # Nobody => \A s \in Streams :
    file[s].errSeen \/ ToSet(due[exited][s]) \subseteq ToSet(sent[s])

(* A call returns and an exit ends the process: list lock and stream locks *)
(* are taken in one order, and no flush goes on for ever.                  *)
Settled == exited # Nobody \/ \A t \in Threads : pc[t] = "idle" /\ ~job[t].inHandler
=============================================================================
