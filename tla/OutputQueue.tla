----------------------------- MODULE OutputQueue -----------------------------
(***************************************************************************)
(* What an output stream promises: the bytes it accepts reach the          *)
(* descriptor once each and in the order of acceptance.  After a failed    *)
(* write the stream may send again what it had sent, but it still leaves   *)
(* nothing out.  Stdio.tla implements this with a buffer and a lock.       *)
(***************************************************************************)
EXTENDS Naturals, Sequences, SequencesExt

CONSTANT Bytes

VARIABLES
  accepted,   \* the bytes taken over from callers, in order
  sent,       \* what the descriptor has received
  broken      \* whether a write has failed

queueVars == <<accepted, sent, broken>>

Init == accepted = <<>> /\ sent = <<>> /\ broken = FALSE

Accept ==
  /\ IsStrictPrefix(accepted, accepted')
  /\ UNCHANGED <<sent, broken>>

Deliver ==
  /\ ~broken
  /\ IsStrictPrefix(sent, sent') /\ IsPrefix(sent', accepted)
  /\ UNCHANGED <<accepted, broken>>

Fail == broken' = TRUE /\ UNCHANGED <<accepted, sent>>

(* A piece of what was accepted, that starts no later than the first byte  *)
(* that was never sent.                                                    *)
DeliverAgain ==
  /\ broken
  /\ \E first \in 1..Len(accepted) : \E last \in first..Len(accepted) :
       /\ \A i \in 1..(first - 1) : accepted[i] \in ToSet(sent)
       /\ sent' = sent \o SubSeq(accepted, first, last)
  /\ UNCHANGED <<accepted, broken>>

Next == Accept \/ Deliver \/ Fail \/ DeliverAgain

Spec == Init /\ [][Next]_queueVars
=============================================================================
