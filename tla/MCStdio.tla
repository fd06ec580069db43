------------------------------- MODULE MCStdio -------------------------------
(* Instances of Stdio for TLC.                                             *)
EXTENDS Stdio

AllButPurge == {"put", "write", "flush", "flushAll", "close", "atexit", "exit"}
PutPurgeWrite == {"put", "purge", "write"}

(* With a buffer of two: a text that fills it more than once, and a line.  *)
LongText == {<<"x", "x", "x">>}
ShortLine == {<<"x">>}
NoLine == {}
PutByte == {"x"}
PutByteOrEof == {"x", "eof"}
=============================================================================
