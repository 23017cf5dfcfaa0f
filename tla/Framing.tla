------------------------------ MODULE Framing ------------------------------
(***************************************************************************)
(* Streams as sequences of message halves: the header, which has the       *)
(* length, and the payload.  A read takes any number of halves, so it may  *)
(* end inside a message.                                                   *)
(***************************************************************************)
EXTENDS Integers, Sequences

Parts(m) == <<[msg |-> m, part |-> 1], [msg |-> m, part |-> 2]>>
From(s, n) == SubSeq(s, n + 1, Len(s))

\* Mutants: the length of a message is not compared with what has arrived; one
\* message is taken per read.
WholeHeader(buf)    == buf # <<>> /\ buf[1].part = 1
PartialAnytime(buf) == buf # <<>> => buf[1].part = 1

\* try_read_message: a whole message, less than one, or bytes that are not a
\* header.
Whole(buf)    == Len(buf) >= 2 /\ buf[1].part = 1
Partial(buf)  == Len(buf) < 2 /\ (buf # <<>> => buf[1].part = 1)
Unframed(buf) == buf # <<>> /\ buf[1].part = 2
=============================================================================
