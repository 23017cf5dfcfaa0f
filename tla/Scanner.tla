------------------------------ MODULE Scanner ------------------------------
(***************************************************************************)
(* MessageBoundaryScanner (src/src/protocol/messages.rs): finds the        *)
(* ReadyForQuery messages in a server's byte stream that arrives in reads  *)
(* of any size.                                                            *)
(*                                                                         *)
(* The server appends one encoded message after the other to the stream,   *)
(* and the reads cut it anywhere.  A call of scan is a Read followed by    *)
(* one step per iteration of its loop.  Positions count the bytes of the   *)
(* whole stream.                                                           *)
(***************************************************************************)
EXTENDS Integers, Sequences

CONSTANTS
  Messages,       \* [type: a byte, payload: a sequence of bytes]
  MaxMessages     \* bound: messages of a stream

Byte == 0 .. 255
MaxI32 == 2147483647

\* A server's messages: the length field is a positive i32.
ASSUME MessagesAssumption ==
  /\ \A m \in Messages : /\ m.type \in Byte
                         /\ m.payload \in Seq(Byte)
                         /\ Len(m.payload) + 4 <= MaxI32
  /\ MaxMessages \in Nat

Z == 90           \* the bytes 'Z', 'I' and 'T'
I == 73
T == 84

VARIABLES
  sent,                \* the messages of the stream (history)
  ends,                \* the position at which each of them ends (history)
  stream,              \* their bytes
  from, upto,          \* the bytes after from, up to upto, are the data of scan
  pos,                 \* the bytes that scan has consumed
  remaining_skip,
  header_buf,          \* header_buf[..header_len]
  transaction_status,
  saw_idle

vars == <<sent, ends, stream, from, upto, pos, remaining_skip, header_buf,
          transaction_status, saw_idle>>

\* The wire format: type, length of the rest (big endian), payload.
encode(m) ==
  LET n == Len(m.payload) + 4 IN
  <<m.type, n \div 16777216, (n \div 65536) % 256, (n \div 256) % 256, n % 256>>
    \o m.payload

from_be_bytes(h) == h[2] * 16777216 + h[3] * 65536 + h[4] * 256 + h[5]

Init ==
  /\ sent = <<>> /\ ends = <<>> /\ stream = <<>>
  /\ from = 0 /\ upto = 0 /\ pos = 0
  /\ remaining_skip = 0
  /\ header_buf = <<>>
  /\ transaction_status = I
  /\ saw_idle = FALSE

Least(a, b) == IF a < b THEN a ELSE b

-----------------------------------------------------------------------------
\* The server sends a message.
ServerSends(m) ==
  /\ Len(sent) < MaxMessages
  /\ sent' = Append(sent, m)
  /\ stream' = stream \o encode(m)
  /\ ends' = Append(ends, Len(stream'))
  /\ UNCHANGED <<from, upto, pos, remaining_skip, header_buf, transaction_status, saw_idle>>

\* The next n bytes arrive and scan is called with them.
Read(n) ==
  /\ pos = upto
  /\ upto + n <= Len(stream)
  /\ from' = upto
  /\ upto' = upto + n
  /\ saw_idle' = FALSE
  /\ UNCHANGED <<sent, ends, stream, pos, remaining_skip, header_buf, transaction_status>>

\* Phase 1: skip what is left of a payload.
SkipPayload ==
  /\ pos < upto
  /\ remaining_skip > 0
  /\ LET skip == Least(remaining_skip, upto - pos) IN
       /\ pos' = pos + skip
       /\ remaining_skip' = remaining_skip - skip
  /\ UNCHANGED <<sent, ends, stream, from, upto, header_buf, transaction_status, saw_idle>>

\* Phase 2: the header as far as the data goes.
Gathered == header_buf \o SubSeq(stream, pos + 1, pos + Least(5 - Len(header_buf), upto - pos))

PartialHeader ==
  /\ pos < upto
  /\ remaining_skip = 0
  /\ Len(Gathered) < 5
  /\ header_buf' = Gathered
  /\ pos' = upto
  /\ UNCHANGED <<sent, ends, stream, from, upto, remaining_skip, transaction_status, saw_idle>>

\* Mutant of payload_len: the four bytes of the length itself are skipped too.
PayloadLenWithLength(h) == from_be_bytes(h)

payload_len(h) == IF from_be_bytes(h) >= 4 THEN from_be_bytes(h) - 4 ELSE 0

\* Mutant of SawIdle: an earlier idle status in the same data sticks.
SawIdleSticky(status) == saw_idle \/ status = I

\* The last status in the data counts.
SawIdle(status) == status = I

\* Phases 2 and 3: the header is complete.  A ReadyForQuery is looked into if
\* its status byte is part of the same data; otherwise the payload is skipped.
WholeHeader ==
  LET h     == Gathered
      after == pos + 5 - Len(header_buf) IN
  /\ pos < upto
  /\ remaining_skip = 0
  /\ Len(h) = 5
  /\ header_buf' = <<>>
  /\ IF h[1] = Z /\ payload_len(h) = 1 /\ after < upto
     THEN /\ transaction_status' = stream[after + 1]
          /\ pos' = after + 1
          /\ remaining_skip' = 0
          /\ saw_idle' = SawIdle(stream[after + 1])
     ELSE /\ pos' = after
          /\ remaining_skip' = payload_len(h)
          /\ UNCHANGED <<transaction_status, saw_idle>>
  /\ UNCHANGED <<sent, ends, stream, from, upto>>

Next ==
  \/ \E m \in Messages : ServerSends(m)
  \/ \E n \in 1 .. Len(stream) : Read(n)
  \/ SkipPayload \/ PartialHeader \/ WholeHeader

Spec == Init /\ [][Next]_vars

-----------------------------------------------------------------------------
(* Reference: the messages of the stream by position *)

\* Message i takes the bytes after Start(i), up to End(i).
End(i)   == IF i = 0 THEN 0 ELSE ends[i]
Start(i) == End(i - 1)

\* ReadyForQuery messages: those of type Z with one byte of payload.
RFQ == {i \in 1 .. Len(sent) : sent[i].type = Z /\ Len(sent[i].payload) = 1}

\* The scanner never loses the message boundaries: wherever the reads end, it
\* knows how far into which part of a message it is.
InSync ==
  \/ /\ pos = Len(stream) /\ remaining_skip = 0 /\ header_buf = <<>>
  \/ \E i \in 1 .. Len(sent) :
       /\ pos \in Start(i) .. End(i) - 1
       /\ IF pos < Start(i) + 5
          THEN /\ remaining_skip = 0
               /\ header_buf = SubSeq(stream, Start(i) + 1, pos)
          ELSE /\ remaining_skip = End(i) - pos
               /\ header_buf = <<>>

\* The ReadyForQuery messages whose status byte is in the data of this call, and
\* the last of them.
InData == {i \in RFQ : from < End(i) /\ End(i) <= upto}
MostRecent(i) == i \in InData /\ \A j \in InData : j <= i

Idle(i) == sent[i].payload[1] = I

\* scan reports an idle session only if the most recent ReadyForQuery of its data
\* is idle, and it does report it when at least one byte of that message comes
\* before the status byte in the same data.
ScanReportsIdle ==
  pos = upto =>
    /\ saw_idle => \E i \in InData : MostRecent(i) /\ Idle(i)
    /\ \A i \in InData : MostRecent(i) /\ Idle(i) /\ End(i) > from + 1 => saw_idle

\* What the comment of scan and the design of the fast path say: scan "Returns
\* true if the most recent ReadyForQuery had status 'I' (idle)", and the state it
\* keeps "handles ReadyForQuery messages split across read boundaries".
ScanReportsEveryIdle ==
  pos = upto => (saw_idle <=> \E i \in InData : MostRecent(i) /\ Idle(i))
=============================================================================
