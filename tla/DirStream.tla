------------------------------ MODULE DirStream ------------------------------
(***************************************************************************)
(* Directory streams (libc/fs/dir.rs): opendir, readdir and closedir over  *)
(* the kernel's getdents64, which fills a buffer with as many whole        *)
(* records as fit.  A directory is a sequence of names; the kernel's read  *)
(* position moves past the records it has handed out.                      *)
(***************************************************************************)
EXTENDS Integers, Sequences
LOCAL INSTANCE SequencesExt

CONSTANTS
  Directories,     \* what a directory may hold: sequences of [name, length]
  RecordHeaderSize, \* RECORD_HEADER_SIZE
  NameOffset,      \* offset_of!(DirectoryEntry, name)
  Capacity,        \* BUFFER_CAPACITY
  MaxOpens,        \* calls of opendir
  MaxFailures      \* system calls that fail

VARIABLES
  directory,       \* the names of the directory that is open
  kernel,          \* records getdents64 has handed out
  open,            \* open file descriptors
  stream,          \* the DirectoryStream, or NoStream
  listed,          \* history: the entries readdir returned, in order
  ended,           \* history: readdir has returned null at the end
  errno,           \* set since the last call of opendir or readdir
  opens, failures

vars == <<directory, kernel, open, stream, listed, ended, errno, opens, failures>>

NoStream == [file_descriptor |-> 0, buffer |-> <<>>, buffer_length |-> 0, buffer_offset |-> 0]
RecordLength(record) == RecordHeaderSize + record.length + 1

\* The records the kernel returns: as many as fit, from its read position.
Total(records) == FoldLeft(LAMBDA n, r : n + RecordLength(r), 0, records)
NextRecords ==
  LET left == SubSeq(directory, kernel + 1, Len(directory))
      n == CHOOSE k \in 0 .. Len(left) :
             /\ Total(SubSeq(left, 1, k)) <= Capacity
             /\ k < Len(left) => Total(SubSeq(left, 1, k + 1)) > Capacity
  IN  SubSeq(left, 1, n)

MayFail == failures < MaxFailures /\ failures' = failures + 1

OpenFails ==
  /\ stream = NoStream /\ opens < MaxOpens /\ MayFail
  /\ opens' = opens + 1 /\ errno' = TRUE
  /\ UNCHANGED <<directory, kernel, open, stream, listed, ended>>

\* A faulty variant: a stream that cannot be allocated keeps its descriptor.
DescriptorsWithoutStreamKept(fds, fd) == fds \union {fd}
\* The descriptor is closed again when there is no memory for the stream.
DescriptorsWithoutStream(fds, fd) == fds

NoMemory ==
  /\ stream = NoStream /\ opens < MaxOpens /\ MayFail
  /\ opens' = opens + 1 /\ errno' = TRUE
  /\ open' = DescriptorsWithoutStream(open, opens + 1)
  /\ UNCHANGED <<directory, kernel, stream, listed, ended>>

Opendir ==
  /\ stream = NoStream /\ opens < MaxOpens
  /\ opens' = opens + 1
  /\ directory' \in Directories
  /\ kernel' = 0 /\ listed' = <<>> /\ ended' = FALSE /\ errno' = FALSE
  /\ open' = open \union {opens + 1}
  /\ stream' = [NoStream EXCEPT !.file_descriptor = opens + 1]
  /\ UNCHANGED failures

\* The record at an offset of a buffer.
RecordAt(buffer, offset) ==
  buffer[CHOOSE k \in DOMAIN buffer : Total(SubSeq(buffer, 1, k - 1)) = offset]

\* The entry made of a record: the struct glibc's ABI asks for.
Entry(record) == [name |-> record.name, record_length |-> NameOffset + record.length + 1]

AfterEntry(s, record) == s.buffer_offset + RecordLength(record)

Returned(s) ==
  LET record == RecordAt(s.buffer, s.buffer_offset)
  IN  /\ stream' = [s EXCEPT !.buffer_offset = AfterEntry(s, record)]
      /\ listed' = Append(listed, Entry(record))

Refilled(s, records) ==
  [s EXCEPT !.buffer = records, !.buffer_length = Total(records), !.buffer_offset = 0]

Drained == stream.buffer_offset = stream.buffer_length

ReaddirBuffered ==
  /\ stream # NoStream /\ ~Drained
  /\ Returned(stream) /\ errno' = FALSE
  /\ UNCHANGED <<directory, kernel, open, ended, opens, failures>>

ReaddirRefills ==
  /\ stream # NoStream /\ Drained /\ NextRecords # <<>>
  /\ kernel' = kernel + Len(NextRecords)
  /\ Returned(Refilled(stream, NextRecords)) /\ errno' = FALSE
  /\ UNCHANGED <<directory, open, ended, opens, failures>>

ReaddirEnds ==
  /\ stream # NoStream /\ Drained /\ NextRecords = <<>>
  /\ ended' = TRUE /\ errno' = FALSE
  /\ UNCHANGED <<directory, kernel, open, stream, listed, opens, failures>>

ReaddirFails ==
  /\ stream # NoStream /\ Drained /\ MayFail
  /\ errno' = TRUE
  /\ UNCHANGED <<directory, kernel, open, stream, listed, ended, opens>>

\* The kernel frees the descriptor whether or not close reports an error.
Closedir ==
  /\ stream # NoStream
  /\ open' = open \ {stream.file_descriptor}
  /\ stream' = NoStream
  /\ \/ errno' = FALSE /\ UNCHANGED failures
     \/ errno' = TRUE /\ MayFail
  /\ UNCHANGED <<directory, kernel, listed, ended, opens>>

Init ==
  /\ directory = <<>> /\ kernel = 0 /\ open = {} /\ stream = NoStream
  /\ listed = <<>> /\ ended = FALSE /\ errno = FALSE /\ opens = 0 /\ failures = 0

Next == \/ OpenFails \/ NoMemory \/ Opendir \/ ReaddirBuffered \/ ReaddirRefills
        \/ ReaddirEnds \/ ReaddirFails \/ Closedir

Spec == Init /\ [][Next]_vars

\* readdir lists every entry of the directory once and in order, across
\* refills and failed refills, and ends only after the last; a descriptor is
\* open exactly while a stream holds it (next_entry keeps two offsets into a
\* buffer whose records have lengths of their own, and opendir can fail
\* between its two acquisitions).
EveryEntryOnce ==
  /\ [k \in DOMAIN listed |-> listed[k].name] =
       [k \in DOMAIN listed |-> directory[k].name]
  /\ ended => Len(listed) = Len(directory)
  /\ open = IF stream = NoStream THEN {} ELSE {stream.file_descriptor}
=============================================================================
