--------------------------- MODULE ScannerProofs ---------------------------
(***************************************************************************)
(* The scanner keeps the message boundaries and reports the last status,   *)
(* for every set of messages and every way the reads cut the stream.       *)
(*                                                                         *)
(* The invariant has three parts: the stream is the encoding of the        *)
(* messages sent (Layout), the scanner is at a known place in one of them  *)
(* (InSync), and saw_idle is the answer for the bytes consumed so far      *)
(* (IdleSoFar), which needs that a status byte is left for a later call    *)
(* only when the data ends right before it (SkippedFirst).                 *)
(***************************************************************************)
EXTENDS Scanner, SequenceTheorems, TLAPS

Size(m) == 5 + Len(m.payload)

Types ==
  /\ sent \in Seq(Messages) /\ ends \in Seq(Nat) /\ stream \in Seq(Byte)
  /\ Len(ends) = Len(sent)
  /\ from \in Nat /\ upto \in Nat /\ pos \in Nat
  /\ from <= pos /\ pos <= upto /\ upto <= Len(stream)
  /\ saw_idle \in BOOLEAN

\* Message i is encoded in the bytes after Start(i), up to End(i).
Layout ==
  /\ End(Len(sent)) = Len(stream)
  /\ \A i \in 1 .. Len(sent) :
       /\ End(i) = Start(i) + Size(sent[i])
       /\ End(i) <= Len(stream)
       /\ \A n \in 1 .. Size(sent[i]) : stream[Start(i) + n] = encode(sent[i])[n]
  /\ \A i, j \in 0 .. Len(sent) : i < j => End(i) < End(j)

\* The ReadyForQuery messages that scan has looked into: those that end in the bytes
\* consumed so far and do not begin with their status byte there.
SeenSoFar == {i \in RFQ : End(i) <= pos /\ End(i) > from + 1}

IdleSoFar ==
  saw_idle <=> \E i \in SeenSoFar : (\A j \in SeenSoFar : j <= i) /\ sent[i].payload[1] = I

\* Right before a status byte, the scanner is at an end of the data.
SkippedFirst == \A i \in RFQ : pos = End(i) - 1 => pos \in {from, upto}

IInv == Types /\ Layout /\ InSync /\ IdleSoFar /\ SkippedFirst

-----------------------------------------------------------------------------
(* The wire format *)

\* The four bytes of a length give the length back.
LEMMA BigEndian ==
  ASSUME NEW n \in Nat, n <= MaxI32
  PROVE  /\ n \div 16777216 \in Byte /\ (n \div 65536) % 256 \in Byte
         /\ (n \div 256) % 256 \in Byte /\ n % 256 \in Byte
         /\ (n \div 16777216) * 16777216 + ((n \div 65536) % 256) * 65536
              + ((n \div 256) % 256) * 256 + (n % 256) = n
<1> DEFINE a == n \div 256
           b == n \div 65536
           c == n \div 16777216
<1>1. a \in Nat /\ b \in Nat /\ c \in 0 .. 127
  BY SMT DEF MaxI32
<1>2. b = a \div 256 /\ c = b \div 256
  BY SMT
<1>3. n = a * 256 + (n % 256) /\ n % 256 \in 0 .. 255
  BY SMT
<1> HIDE DEF a, b, c
<1>4. a = b * 256 + (a % 256) /\ a % 256 \in 0 .. 255
  BY <1>1, <1>2, SMT
<1>5. b = c * 256 + (b % 256) /\ b % 256 \in 0 .. 255
  BY <1>1, <1>2, SMT
<1>6. c * 16777216 + (b % 256) * 65536 + (a % 256) * 256 + (n % 256) = n
  BY <1>1, <1>3, <1>4, <1>5, SMT
<1>7. c \in Byte /\ b % 256 \in Byte /\ a % 256 \in Byte /\ n % 256 \in Byte
  BY <1>1, <1>3, <1>4, <1>5, SMT DEF Byte
<1> QED
  BY <1>6, <1>7, SMT DEF a, b, c

\* Five bytes are a sequence of length 5.
LEMMA FiveBytes ==
  ASSUME NEW t \in Byte, NEW a \in Byte, NEW b \in Byte, NEW c \in Byte, NEW d \in Byte
  PROVE  <<t, a, b, c, d>> \in Seq(Byte) /\ Len(<<t, a, b, c, d>>) = 5
  OBVIOUS

\* encode is 5 bytes of header and the payload, and from_be_bytes reads back the
\* length that encode wrote.
LEMMA Codec ==
  ASSUME NEW m \in Messages
  PROVE  /\ encode(m) \in Seq(Byte)
         /\ Len(encode(m)) = Size(m)
         /\ Size(m) \in Nat /\ Len(m.payload) \in Nat /\ Size(m) = 5 + Len(m.payload)
         /\ encode(m)[1] = m.type
         /\ payload_len(encode(m)) = Len(m.payload)
         /\ \A k \in 1 .. Len(m.payload) : encode(m)[5 + k] = m.payload[k]
<1> DEFINE n == Len(m.payload) + 4
           h == <<m.type, n \div 16777216, (n \div 65536) % 256, (n \div 256) % 256, n % 256>>
<1>1. m.type \in Byte /\ m.payload \in Seq(Byte) /\ n <= MaxI32
  BY MessagesAssumption, SMT
<1>2. Len(m.payload) \in Nat /\ n \in Nat
  BY <1>1, SMT
<1>3. encode(m) = h \o m.payload
  BY SMT DEF encode
<1>4. from_be_bytes(h) = n
  <2> HIDE DEF n
  <2>1. (n \div 16777216) * 16777216 + ((n \div 65536) % 256) * 65536
          + ((n \div 256) % 256) * 256 + (n % 256) = n
    BY <1>1, <1>2, BigEndian, SMT
  <2>2. /\ h[2] = n \div 16777216 /\ h[3] = (n \div 65536) % 256
        /\ h[4] = (n \div 256) % 256 /\ h[5] = n % 256
    BY SMT
  <2> HIDE DEF h
  <2> QED
    BY <2>1, <2>2, SMT DEF from_be_bytes
<1>5. h \in Seq(Byte) /\ Len(h) = 5
  <2> HIDE DEF n
  <2> QED
    BY <1>1, <1>2, BigEndian, FiveBytes, SMT
<1>6. h[1] = m.type
  BY SMT
<1> HIDE DEF h
<1>7. /\ encode(m) \in Seq(Byte) /\ Len(encode(m)) = 5 + Len(m.payload)
      /\ \A k \in 1 .. 5 : encode(m)[k] = h[k]
      /\ \A k \in 1 .. Len(m.payload) : encode(m)[5 + k] = m.payload[k]
  <2> HIDE DEF n
  <2> DEFINE c == h \o m.payload
  <2>1. /\ c \in Seq(Byte) /\ Len(c) = Len(h) + Len(m.payload)
        /\ \A k \in 1 .. Len(h) : c[k] = h[k]
        /\ \A k \in 1 .. Len(m.payload) : c[Len(h) + k] = m.payload[k]
    <3>1. h \in Seq(Byte) /\ m.payload \in Seq(Byte)
      BY <1>1, <1>5
    <3> QED
      BY <3>1, SMT
  <2>2. encode(m) = c
    BY <1>3
  <2> HIDE DEF c
  <2> QED
    BY <1>5, <2>1, <2>2
<1>8. from_be_bytes(encode(m)) = n
  BY <1>4, <1>7, SMT DEF from_be_bytes
<1> QED
  BY <1>2, <1>6, <1>7, <1>8, SMT DEF Size, payload_len

-----------------------------------------------------------------------------
(* The server sends a message *)

\* What the layout says of one message.
LEMMA Message ==
  ASSUME Types, Layout, NEW i \in 1 .. Len(sent)
  PROVE  /\ sent[i] \in Messages
         /\ Len(sent[i].payload) \in Nat /\ Size(sent[i]) \in Nat
         /\ Size(sent[i]) = 5 + Len(sent[i].payload)
         /\ End(i) \in Nat /\ Start(i) \in Nat
         /\ End(i) = Start(i) + 5 + Len(sent[i].payload)
         /\ Start(i) + 5 <= End(i) /\ Start(i) < End(i) /\ End(i) <= Len(stream)
<1>1. sent[i] \in Messages
  BY DEF Types
<1>2. Len(sent[i].payload) \in Nat /\ Size(sent[i]) = 5 + Len(sent[i].payload)
  BY <1>1, Codec
<1>3. \A k \in 0 .. Len(sent) : End(k) \in Nat
  BY DEF Types, End
<1>4. Start(i) \in Nat /\ End(i) \in Nat
  BY <1>3 DEF Types, Start
<1>5. End(i) = Start(i) + Size(sent[i]) /\ End(i) <= Len(stream)
  BY DEF Layout
<1> QED
  BY <1>1, <1>2, <1>4, <1>5, SMTT(30)

\* The messages already sent keep their places; the new one comes after them.
LEMMA SendPlaces ==
  ASSUME Types, Layout, NEW m \in Messages, ServerSends(m),
         NEW l, l = Len(sent)
  PROVE  /\ sent' \in Seq(Messages) /\ ends' \in Seq(Nat) /\ stream' \in Seq(Byte)
         /\ l \in Nat /\ Len(sent') = l + 1 /\ Len(ends') = Len(sent')
         /\ Len(stream) \in Nat /\ Len(stream') = Len(stream) + Size(m)
         /\ \A i \in 1 .. l : sent'[i] = sent[i]
         /\ sent'[l + 1] = m
         /\ \A i \in 0 .. l : End(i)' = End(i) /\ End(i) \in Nat
         /\ End(l + 1)' = Len(stream')
         /\ \A k \in 1 .. Len(stream) : stream'[k] = stream[k]
         /\ \A k \in 1 .. Size(m) : stream'[Len(stream) + k] = encode(m)[k]
<1>1. /\ sent' = Append(sent, m) /\ stream' = stream \o encode(m)
      /\ ends' = Append(ends, Len(stream'))
  BY DEF ServerSends
<1>2. /\ sent \in Seq(Messages) /\ ends \in Seq(Nat) /\ stream \in Seq(Byte)
      /\ Len(ends) = Len(sent)
  BY DEF Types
<1>3. encode(m) \in Seq(Byte) /\ Len(encode(m)) = Size(m) /\ Size(m) \in Nat
  BY Codec
<1>4. /\ stream' \in Seq(Byte)
      /\ Len(stream) \in Nat /\ Len(stream') = Len(stream) + Len(encode(m))
      /\ \A k \in 1 .. Len(stream) : stream'[k] = stream[k]
      /\ \A k \in 1 .. Len(encode(m)) : stream'[Len(stream) + k] = encode(m)[k]
  <2>1. /\ stream \o encode(m) \in Seq(Byte)
        /\ Len(stream) \in Nat /\ Len(stream \o encode(m)) = Len(stream) + Len(encode(m))
        /\ \A k \in 1 .. Len(stream) : (stream \o encode(m))[k] = stream[k]
        /\ \A k \in 1 .. Len(encode(m)) : (stream \o encode(m))[Len(stream) + k] = encode(m)[k]
    <3>1. stream \in Seq(Byte) /\ encode(m) \in Seq(Byte)
      BY <1>2, <1>3
    <3> QED
      BY <3>1, SMT
  <2> QED
    BY <1>1, <2>1, Zenon
<1>5. /\ sent' \in Seq(Messages) /\ Len(sent') = l + 1
      /\ \A i \in 1 .. l : sent'[i] = sent[i]
      /\ sent'[l + 1] = m
  BY <1>1, <1>2, AppendProperties
<1>6. /\ ends' \in Seq(Nat) /\ Len(ends') = Len(ends) + 1
      /\ \A i \in 1 .. Len(ends) : ends'[i] = ends[i] /\ ends[i] \in Nat
      /\ ends'[Len(ends) + 1] = Len(stream')
  <2>1. Len(stream') \in Nat
    BY <1>3, <1>4
  <2> HIDE DEF Size
  <2> QED
    BY <1>1, <1>2, <2>1, AppendProperties
<1>7. l \in Nat
  BY <1>2
<1>8. \A i \in 0 .. l : End(i)' = End(i) /\ End(i) \in Nat
  BY <1>2, <1>6, <1>7 DEF End
<1>9. End(l + 1)' = Len(stream')
  BY <1>2, <1>6, <1>7 DEF End
<1> QED
  BY <1>2, <1>3, <1>4, <1>5, <1>6, <1>7, <1>8, <1>9

\* The encoding of the new message extends the layout.
LEMMA SendLayout ==
  ASSUME Types, Layout, NEW m \in Messages, ServerSends(m)
  PROVE  Layout'
<1> PICK L : L = Len(sent)
  BY Zenon
<1>0. /\ L \in Nat /\ Len(sent') = L + 1
      /\ Len(stream) \in Nat /\ Len(stream') = Len(stream) + Size(m)
      /\ sent'[L + 1] = m
      /\ \A i \in 1 .. L : sent'[i] = sent[i]
      /\ \A i \in 0 .. L : End(i)' = End(i) /\ End(i) \in Nat
      /\ End(L + 1)' = Len(stream')
      /\ \A k \in 1 .. Len(stream) : stream'[k] = stream[k]
      /\ \A k \in 1 .. Size(m) : stream'[Len(stream) + k] = encode(m)[k]
  BY SendPlaces, Zenon
<1>1. End(L)' = Len(stream) /\ Size(m) \in Nat /\ Size(m) >= 5
  <2>1. End(L) = Len(stream)
    BY DEF Layout
  <2>2. Size(m) \in Nat /\ Size(m) >= 5
    BY Codec
  <2> QED
    BY <1>0, <2>1, <2>2
<1>2. ASSUME NEW i \in 1 .. L
      PROVE  /\ End(i)' = Start(i)' + Size(sent[i])'
             /\ End(i)' <= Len(stream)'
             /\ \A n \in 1 .. Size(sent[i])' : (stream[Start(i) + n] = encode(sent[i])[n])'
  <2>1. sent'[i] = sent[i] /\ End(i)' = End(i) /\ Start(i)' = Start(i)
    BY <1>0 DEF Start
  <2>2. /\ End(i) = Start(i) + Size(sent[i]) /\ End(i) <= Len(stream)
        /\ \A n \in 1 .. Size(sent[i]) : stream[Start(i) + n] = encode(sent[i])[n]
    BY DEF Layout
  <2>3. Size(sent[i]) \in Nat /\ Start(i) \in Nat /\ End(i) \in Nat
    <3>1. i \in 1 .. Len(sent)
      OBVIOUS
    <3> HIDE DEF Size, Start, End
    <3> QED
      BY <3>1, Message
  <2>4. Size(sent[i])' = Size(sent[i]) /\ encode(sent[i])' = encode(sent[i])
    BY <2>1, SMT DEF Size, encode
  <2>5. ASSUME NEW n \in 1 .. Size(sent[i]) PROVE stream'[Start(i) + n] = encode(sent[i])[n]
    <3>1. Start(i) + n \in 1 .. Len(stream)
      BY <1>0, <2>2, <2>3
    <3> QED
      BY <1>0, <2>2, <3>1, SMTT(30)
  <2> QED
    BY <1>0, <1>1, <2>1, <2>2, <2>3, <2>4, <2>5
<1>3. /\ End(L + 1)' = Start(L + 1)' + Size(sent[L + 1])'
      /\ End(L + 1)' <= Len(stream)'
      /\ \A n \in 1 .. Size(sent[L + 1])' : (stream[Start(L + 1) + n] = encode(sent[L + 1])[n])'
  <2>1. End(L + 1)' = Len(stream') /\ Start(L + 1)' = Len(stream)
    BY <1>0, <1>1 DEF Start
  <2>2. Size(sent[L + 1])' = Size(m) /\ encode(sent[L + 1])' = encode(m)
    <3>1. sent[L + 1]' = m
      BY <1>0
    <3> QED
      BY <3>1, SMT DEF Size, encode
  <2>3. End(L + 1)' = Start(L + 1)' + Size(sent[L + 1])' /\ End(L + 1)' <= Len(stream)'
    BY <1>0, <1>1, <2>1, <2>2
  <2>4. \A n \in 1 .. Size(m) : (stream[Start(L + 1) + n])' = encode(m)[n]
    BY <1>0, <2>1, Zenon
  <2> QED
    BY <2>2, <2>3, <2>4
<1>4. \A i \in 1 .. L + 1 :
        /\ End(i)' = Start(i)' + Size(sent[i])'
        /\ End(i)' <= Len(stream)'
        /\ \A n \in 1 .. Size(sent[i])' : (stream[Start(i) + n] = encode(sent[i])[n])'
  <2> TAKE i \in 1 .. L + 1
  <2>1. i \in 1 .. L \/ i = L + 1
    BY <1>0
  <2> QED
    BY <1>2, <1>3, <2>1
<1>5. \A i, j \in 0 .. L + 1 : i < j => End(i)' < End(j)'
  <2> SUFFICES ASSUME NEW i \in 0 .. L + 1, NEW j \in 0 .. L + 1, i < j PROVE End(i)' < End(j)'
    OBVIOUS
  <2>1. \A a, b \in 0 .. L : a < b => End(a) < End(b)
    BY DEF Layout
  <2>2. End(L) = Len(stream)
    BY <1>0, <1>1
  <2>3. i \in 0 .. L /\ End(i)' = End(i) /\ End(i) \in Nat
    BY <1>0
  <2>4. CASE j \in 0 .. L
    BY <1>0, <2>1, <2>3, <2>4
  <2>5. CASE j = L + 1
    <3>1. End(i) <= End(L)
      BY <1>0, <2>1, <2>3
    <3> QED
      BY <1>0, <1>1, <2>2, <2>3, <2>5, <3>1
  <2> QED
    BY <2>4, <2>5
<1>6. End(Len(sent))' = Len(stream)'
  BY <1>0 DEF End
<1> QED
  BY <1>0, <1>4, <1>5, <1>6 DEF Layout

\* Sending changes nothing for the bytes already there.
LEMMA SendStep ==
  ASSUME IInv, NEW m \in Messages, ServerSends(m)
  PROVE  IInv'
<1>0. Types /\ Layout /\ InSync /\ IdleSoFar /\ SkippedFirst
  BY DEF IInv
<1> PICK l : l = Len(sent)
  BY Zenon
<1>1. /\ sent' \in Seq(Messages) /\ ends' \in Seq(Nat) /\ stream' \in Seq(Byte)
      /\ l \in Nat /\ Len(sent') = l + 1 /\ Len(ends') = Len(sent')
      /\ Len(stream) \in Nat /\ Len(stream') = Len(stream) + Size(m)
      /\ \A i \in 1 .. l : sent'[i] = sent[i]
      /\ sent'[l + 1] = m
      /\ \A i \in 0 .. l : End(i)' = End(i) /\ End(i) \in Nat
      /\ End(l + 1)' = Len(stream')
      /\ \A k \in 1 .. Len(stream) : stream'[k] = stream[k]
  BY <1>0, SendPlaces, Zenon
<1>2. UNCHANGED <<from, upto, pos, remaining_skip, header_buf, transaction_status, saw_idle>>
  BY DEF ServerSends
<1>3. Size(m) \in Nat /\ Size(m) >= 5
  BY Codec
<1>4. /\ from \in Nat /\ upto \in Nat /\ pos \in Nat /\ stream \in Seq(Byte)
      /\ from <= pos /\ pos <= upto /\ upto <= Len(stream) /\ saw_idle \in BOOLEAN
  BY <1>0 DEF Types
<1>5. Types'
  BY <1>1, <1>2, <1>3, <1>4 DEF Types
<1>6. Layout'
  BY <1>0, SendLayout
<1>7. /\ End(l) = Len(stream) /\ End(l)' = Len(stream)
      /\ \A i \in 1 .. l : Start(i)' = Start(i)
      /\ Start(l + 1)' = Len(stream)
  <2>1. End(l) = Len(stream)
    BY <1>0 DEF Layout
  <2>2. End(l)' = Len(stream)
    BY <1>1, <2>1
  <2>3. ASSUME NEW i \in 1 .. l PROVE Start(i)' = Start(i)
    BY <1>1 DEF Start
  <2>4. l + 1 - 1 = l
    BY <1>1
  <2>5. Start(l + 1)' = Len(stream)
    BY <2>2, <2>4 DEF Start
  <2> QED
    BY <2>1, <2>2, <2>3, <2>5
<1>8. InSync'
  <2>1. CASE pos = Len(stream) /\ remaining_skip = 0 /\ header_buf = <<>>
    <3>1. SubSeq(stream', Len(stream) + 1, pos) = <<>>
      BY <1>1, <1>4, <2>1, SubSeqEmpty
    <3>2. l + 1 \in 1 .. Len(sent') /\ pos < Start(l + 1)' + 5
          /\ pos \in Start(l + 1)' .. End(l + 1)' - 1
      BY <1>1, <1>3, <1>4, <1>7, <2>1
    <3> QED
      BY <1>2, <1>7, <2>1, <3>1, <3>2 DEF InSync
  <2>2. CASE \E i \in 1 .. Len(sent) :
               /\ pos \in Start(i) .. End(i) - 1
               /\ IF pos < Start(i) + 5
                  THEN remaining_skip = 0 /\ header_buf = SubSeq(stream, Start(i) + 1, pos)
                  ELSE remaining_skip = End(i) - pos /\ header_buf = <<>>
    <3>1. PICK i \in 1 .. l :
               /\ pos \in Start(i) .. End(i) - 1
               /\ IF pos < Start(i) + 5
                  THEN remaining_skip = 0 /\ header_buf = SubSeq(stream, Start(i) + 1, pos)
                  ELSE remaining_skip = End(i) - pos /\ header_buf = <<>>
      BY <2>2
    <3>2. Start(i)' = Start(i) /\ End(i)' = End(i) /\ Start(i) \in Nat /\ i \in 1 .. Len(sent')
      BY <1>1, <1>7 DEF Start
    <3>3. SubSeq(stream', Start(i) + 1, pos) = SubSeq(stream, Start(i) + 1, pos)
      <4>1. stream' = stream \o encode(m) /\ encode(m) \in Seq(Byte)
        BY Codec DEF ServerSends
      <4>2. CASE pos = Start(i)
        BY <1>4, <3>2, <4>2, SubSeqEmpty
      <4>3. CASE pos # Start(i)
        <5>1. Start(i) + 1 \in 1 .. Len(stream) /\ pos \in 1 .. Len(stream)
          <6>1. Len(stream) \in Nat /\ pos \in Start(i) .. End(i) - 1
            BY <1>1, <3>1
          <6> QED
            BY <1>4, <3>2, <4>3, <6>1
        <5>2. SubSeq(stream \o encode(m), Start(i) + 1, pos) = SubSeq(stream, Start(i) + 1, pos)
          <6> DEFINE a == Start(i) + 1
          <6>1. a \in 1 .. Len(stream) /\ stream \in Seq(Byte) /\ encode(m) \in Seq(Byte)
            BY <1>4, <4>1, <5>1
          <6> HIDE DEF a
          <6>2. SubSeq(stream \o encode(m), a, pos) = SubSeq(stream, a, pos)
            BY <5>1, <6>1, SubSeqOfConcat1, Zenon
          <6> QED
            BY <6>2, Zenon DEF a
        <5> QED
          BY <4>1, <5>2, Zenon
      <4> QED
        BY <4>2, <4>3, Zenon
    <3> QED
      BY <1>2, <3>1, <3>2, <3>3, Zenon DEF InSync
  <2> QED
    BY <1>0, <2>1, <2>2 DEF InSync
<1>9. ASSUME NEW i \in 1 .. l + 1
      PROVE  \/ i \in 1 .. l /\ sent'[i] = sent[i] /\ End(i)' = End(i)
             \/ End(i)' >= pos + 5
  BY <1>1, <1>3, <1>4, SMTT(30)
<1>10. SeenSoFar' = SeenSoFar
  <2>1. ASSUME NEW i \in SeenSoFar' PROVE i \in SeenSoFar
    <3>1. /\ i \in 1 .. l + 1 /\ End(i)' <= pos /\ End(i)' > from + 1
          /\ sent'[i].type = Z /\ Len(sent'[i].payload) = 1
      BY <1>1, <1>2, <2>1 DEF SeenSoFar, RFQ
    <3>2. i \in 1 .. l /\ sent'[i] = sent[i] /\ End(i)' = End(i)
      BY <1>1, <1>4, <1>9, <3>1
    <3> QED
      BY <3>1, <3>2 DEF SeenSoFar, RFQ
  <2>2. ASSUME NEW i \in SeenSoFar PROVE i \in SeenSoFar'
    <3>1. /\ i \in 1 .. l /\ End(i) <= pos /\ End(i) > from + 1
          /\ sent[i].type = Z /\ Len(sent[i].payload) = 1
      BY <2>2 DEF SeenSoFar, RFQ
    <3>2. i \in 1 .. Len(sent') /\ sent'[i] = sent[i] /\ End(i)' = End(i)
      BY <1>1, <3>1
    <3> QED
      BY <1>2, <3>1, <3>2 DEF SeenSoFar, RFQ
  <2> QED
    BY <2>1, <2>2, Zenon
<1>11. IdleSoFar'
  <2>1. \A i \in SeenSoFar : sent'[i] = sent[i]
    BY <1>1 DEF SeenSoFar, RFQ
  <2>2. \A i \in SeenSoFar : sent'[i].payload[1] = sent[i].payload[1]
    BY <2>1
  <2> QED
    BY <1>0, <1>2, <1>10, <2>2 DEF IdleSoFar
<1>12. SkippedFirst'
  <2> SUFFICES ASSUME NEW i \in RFQ', pos' = End(i)' - 1 PROVE pos' \in {from', upto'}
    BY DEF SkippedFirst
  <2>1. i \in 1 .. l + 1 /\ sent'[i].type = Z /\ Len(sent'[i].payload) = 1
    BY <1>1 DEF RFQ
  <2>2. i \in 1 .. l /\ sent'[i] = sent[i] /\ End(i)' = End(i)
    <3>1. End(i)' \in Nat
      BY <1>5, <2>1, SMTT(30) DEF Types, End, RFQ
    <3>2. pos = End(i)' - 1
      BY <1>2
    <3>3. ~(End(i)' >= pos + 5)
      BY <1>4, <3>1, <3>2
    <3> QED
      BY <1>9, <2>1, <3>3
  <2>3. i \in RFQ
    BY <2>1, <2>2 DEF RFQ
  <2> QED
    BY <1>0, <1>2, <2>2, <2>3 DEF SkippedFirst
<1> QED
  BY <1>5, <1>6, <1>8, <1>11, <1>12 DEF IInv

-----------------------------------------------------------------------------
(* The scanner consumes bytes *)

\* Messages follow one another.
LEMMA Order ==
  ASSUME Types, Layout, NEW i \in 1 .. Len(sent), NEW k \in 1 .. Len(sent), i < k
  PROVE  End(i) <= Start(k)
<1>1. Len(sent) \in Nat /\ i \in 0 .. Len(sent) /\ k - 1 \in 0 .. Len(sent)
  BY DEF Types
<1>2. \A a, b \in 0 .. Len(sent) : a < b => End(a) < End(b)
  BY DEF Layout
<1>3. End(i) \in Nat /\ Start(k) \in Nat
  BY Message
<1> QED
  BY <1>1, <1>2, <1>3 DEF Start

\* What the scanner does not change.
LEMMA SameStream ==
  ASSUME UNCHANGED <<sent, ends, stream>>, Layout
  PROVE  Layout' /\ RFQ' = RFQ /\ \A i : End(i)' = End(i) /\ Start(i)' = Start(i)
<1>1. \A i : End(i)' = End(i) /\ Start(i)' = Start(i)
  BY DEF End, Start
<1>2. RFQ' = RFQ
  BY DEF RFQ
<1>3. Layout'
  BY DEF Layout, End, Start
<1> QED
  BY <1>1, <1>2, <1>3

\* After the last byte of a message the scanner is in sync.
LEMMA Boundary ==
  ASSUME Types, Layout, NEW i \in 1 .. Len(sent), UNCHANGED <<sent, ends, stream>>,
         pos' = End(i), remaining_skip' = 0, header_buf' = <<>>
  PROVE  InSync'
<1>1. Len(sent) \in Nat /\ End(i) \in Nat
  BY Message DEF Types
<1>2. End(i)' = End(i) /\ Start(i + 1)' = End(i)
  BY DEF End, Start
<1>3. CASE i = Len(sent)
  <2>1. End(i) = Len(stream)
    BY <1>3 DEF Layout
  <2> QED
    BY <2>1 DEF InSync
<1>4. CASE i # Len(sent)
  <2>1. i + 1 \in 1 .. Len(sent)
    BY <1>1, <1>4
  <2>2. End(i + 1) = End(i) + 5 + Len(sent[i + 1].payload) /\ Len(sent[i + 1].payload) \in Nat
    <3>1. Start(i + 1) = End(i)
      BY DEF Start
    <3> QED
      BY <2>1, <3>1, Message
  <2>3. End(i + 1)' = End(i + 1)
    BY DEF End
  <2>4. SubSeq(stream', End(i) + 1, pos') = <<>>
    BY <1>1, SubSeqEmpty
  <2> QED
    BY <1>1, <1>2, <2>1, <2>2, <2>3, <2>4, SMTT(30) DEF InSync
<1> QED
  BY <1>3, <1>4

\* Where the scanner is while there are bytes to consume.
LEMMA Place ==
  ASSUME Types, Layout, InSync, pos < upto
  PROVE  \E i \in 1 .. Len(sent) :
           /\ pos \in Start(i) .. End(i) - 1
           /\ pos < Start(i) + 5 =>
                remaining_skip = 0 /\ header_buf = SubSeq(stream, Start(i) + 1, pos)
           /\ ~(pos < Start(i) + 5) => remaining_skip = End(i) - pos /\ header_buf = <<>>
<1>1. pos # Len(stream)
  BY DEF Types
<1> QED
  BY <1>1 DEF InSync

\* Bytes of message i are consumed, and with its end no status byte that counts.
LEMMA NothingSeen ==
  ASSUME Types, Layout, IdleSoFar, NEW i \in 1 .. Len(sent),
         Start(i) <= pos, pos' \in Nat, pos <= pos', pos' <= End(i),
         UNCHANGED <<sent, ends, stream, from, saw_idle>>,
         i \in RFQ /\ pos' = End(i) => End(i) <= from + 1
  PROVE  IdleSoFar'
<1>1. RFQ' = RFQ /\ \A k : End(k)' = End(k)
  BY SameStream
<1>2. pos \in Nat /\ from \in Nat
  BY DEF Types
<1>3. ASSUME NEW k \in RFQ
      PROVE  (End(k) <= pos' /\ End(k) > from + 1) <=> (End(k) <= pos /\ End(k) > from + 1)
  <2>1. k \in 1 .. Len(sent)
    BY DEF RFQ
  <2>2. End(k) \in Nat /\ Start(k) \in Nat /\ Start(k) < End(k) /\ End(i) \in Nat /\ Start(i) \in Nat
    BY <2>1, Message, Zenon
  <2>3. CASE k < i
    BY <1>2, <2>1, <2>2, <2>3, Order
  <2>4. CASE i < k
    <3>1. End(i) <= Start(k)
      BY <2>1, <2>4, Order
    <3> QED
      BY <1>2, <2>2, <3>1
  <2>5. CASE k = i
    BY <1>2, <2>2, <2>5
  <2> QED
    BY <2>1, <2>3, <2>4, <2>5 DEF Types
<1>4. SeenSoFar' = SeenSoFar
  BY <1>1, <1>3 DEF SeenSoFar
<1> QED
  BY <1>4 DEF IdleSoFar

\* Bytes of message i are consumed; a status byte is next only at the end of the data.
LEMMA SkippedStep ==
  ASSUME Types, Layout, NEW i \in 1 .. Len(sent), pos' \in Nat,
         Start(i) <= pos', pos' <= End(i),
         UNCHANGED <<sent, ends, stream, from, upto>>,
         i \in RFQ /\ pos' = End(i) - 1 => pos' = upto
  PROVE  SkippedFirst'
<1>1. RFQ' = RFQ /\ \A k : End(k)' = End(k)
  BY SameStream
<1>2. SUFFICES ASSUME NEW k \in RFQ, pos' = End(k) - 1 PROVE pos' = upto
  BY <1>1 DEF SkippedFirst
<1>3. k \in 1 .. Len(sent)
  BY DEF RFQ
<1>4. /\ End(k) \in Nat /\ Start(k) \in Nat /\ Start(k) + 5 <= End(k)
      /\ End(i) \in Nat /\ Start(i) \in Nat
  BY <1>3, Message, Zenon
<1>5. CASE k < i
  BY <1>2, <1>3, <1>4, <1>5, Order
<1>6. CASE i < k
  <2>1. End(i) <= Start(k)
    BY <1>3, <1>6, Order
  <2> QED
    BY <1>2, <1>4, <2>1
<1>7. CASE k = i
  BY <1>2, <1>7
<1> QED
  BY <1>3, <1>5, <1>6, <1>7 DEF Types

\* A call of scan starts with no answer.
LEMMA ReadStep ==
  ASSUME IInv, NEW n \in 1 .. Len(stream), Read(n)
  PROVE  IInv'
<1>0. Types /\ Layout /\ InSync /\ SkippedFirst
  BY DEF IInv
<1>1. /\ pos = upto /\ upto + n <= Len(stream) /\ from' = upto /\ upto' = upto + n
      /\ saw_idle' = FALSE
      /\ UNCHANGED <<sent, ends, stream, pos, remaining_skip, header_buf, transaction_status>>
  BY DEF Read
<1>2. Types'
  <2>1. /\ sent \in Seq(Messages) /\ ends \in Seq(Nat) /\ stream \in Seq(Byte)
        /\ Len(ends) = Len(sent) /\ upto \in Nat
    BY <1>0 DEF Types
  <2>2. Len(stream) \in Nat
    BY <2>1
  <2>3. from' \in Nat /\ upto' \in Nat /\ pos' \in Nat /\ from' <= pos' /\ pos' <= upto'
        /\ upto' <= Len(stream)
    BY <1>1, <2>1, <2>2
  <2> QED
    BY <1>1, <2>1, <2>3, Zenon DEF Types
<1>3. Layout' /\ RFQ' = RFQ /\ \A i : End(i)' = End(i) /\ Start(i)' = Start(i)
  BY <1>0, <1>1, SameStream
<1>4. InSync'
  BY <1>0, <1>1, <1>3 DEF InSync
<1>5. IdleSoFar'
  <2>1. ASSUME NEW i \in SeenSoFar' PROVE FALSE
    <3>1. i \in 1 .. Len(sent) /\ End(i) <= pos /\ End(i) > pos + 1
      BY <1>1, <1>3 DEF SeenSoFar, RFQ
    <3> QED
      BY <1>0, <3>1, Message DEF Types
  <2> QED
    BY <1>1, <2>1 DEF IdleSoFar
<1>6. SkippedFirst'
  BY <1>1, <1>3 DEF SkippedFirst
<1> QED
  BY <1>2, <1>3, <1>4, <1>5, <1>6 DEF IInv

\* Phase 1 stays in the payload or ends the message; a status byte it skips is the
\* first byte of the data.
LEMMA SkipStep ==
  ASSUME IInv, SkipPayload
  PROVE  IInv'
<1>0. Types /\ Layout /\ InSync /\ IdleSoFar /\ SkippedFirst
  BY DEF IInv
<1>1. /\ pos < upto /\ remaining_skip > 0
      /\ pos' = pos + Least(remaining_skip, upto - pos)
      /\ remaining_skip' = remaining_skip - Least(remaining_skip, upto - pos)
      /\ UNCHANGED <<sent, ends, stream, from, upto, header_buf, transaction_status, saw_idle>>
  BY DEF SkipPayload
<1>2. PICK i \in 1 .. Len(sent) :
        /\ pos \in Start(i) .. End(i) - 1
        /\ pos < Start(i) + 5 =>
             remaining_skip = 0 /\ header_buf = SubSeq(stream, Start(i) + 1, pos)
        /\ ~(pos < Start(i) + 5) => remaining_skip = End(i) - pos /\ header_buf = <<>>
  BY <1>0, <1>1, Place
<1>3. /\ End(i) \in Nat /\ Start(i) \in Nat /\ End(i) = Start(i) + 5 + Len(sent[i].payload)
      /\ Len(sent[i].payload) \in Nat
  BY <1>0, Message
<1>4. ~(pos < Start(i) + 5) /\ remaining_skip = End(i) - pos /\ header_buf = <<>>
  BY <1>1, <1>2
<1>5. from \in Nat /\ pos \in Nat /\ upto \in Nat /\ upto <= Len(stream) /\ from <= pos
  BY <1>0 DEF Types
<1>6. /\ pos' \in Nat /\ pos < pos' /\ pos' <= End(i) /\ pos' <= upto
      /\ remaining_skip' = End(i) - pos'
      /\ pos' = End(i) \/ pos' = upto
  <2> DEFINE d == Least(End(i) - pos, upto - pos)
  <2>1. pos < End(i) /\ pos < upto
    BY <1>1, <1>2, <1>3, <1>5
  <2>2. d \in {End(i) - pos, upto - pos} /\ d <= End(i) - pos /\ d <= upto - pos
    BY <1>3, <1>5, SMTT(30) DEF Least
  <2>3. pos' = pos + d /\ remaining_skip' = (End(i) - pos) - d
    BY <1>1, <1>4
  <2> HIDE DEF d
  <2>4. d \in Nat /\ d > 0
    BY <1>3, <1>5, <2>1, <2>2
  <2>5. CASE d = End(i) - pos
    <3>1. pos' = End(i) /\ remaining_skip' = End(i) - pos'
      BY <1>3, <1>5, <2>3, <2>5, SMTT(30)
    <3>2. End(i) <= upto
      BY <1>3, <1>5, <2>2, <2>5
    <3> QED
      BY <1>3, <1>5, <2>1, <3>1, <3>2
  <2>6. CASE d = upto - pos
    <3>1. pos' = upto /\ remaining_skip' = End(i) - pos'
      BY <1>3, <1>5, <2>3, <2>6
    <3> QED
      BY <1>3, <1>5, <2>1, <2>2, <2>6, <3>1
  <2> QED
    BY <2>2, <2>5, <2>6
<1>7. Types'
  BY <1>0, <1>1, <1>5, <1>6 DEF Types
<1>8. Layout' /\ RFQ' = RFQ /\ \A k : End(k)' = End(k) /\ Start(k)' = Start(k)
  BY <1>0, <1>1, SameStream
<1>9. InSync'
  <2>1. CASE pos' = End(i)
    <3>1. remaining_skip' = 0 /\ header_buf' = <<>>
      BY <1>1, <1>3, <1>4, <1>6, <2>1
    <3> QED
      BY <1>0, <1>1, <2>1, <3>1, Boundary
  <2>2. CASE pos' # End(i)
    <3>1. pos' \in Start(i) .. End(i) - 1 /\ ~(pos' < Start(i) + 5)
      BY <1>3, <1>4, <1>5, <1>6, <2>2, SMTT(30)
    <3> QED
      BY <1>1, <1>4, <1>6, <1>8, <3>1 DEF InSync
  <2> QED
    BY <2>1, <2>2
<1>10. i \in RFQ => pos = from /\ pos = End(i) - 1
  <2> HAVE i \in RFQ
  <2>1. Len(sent[i].payload) = 1
    BY DEF RFQ
  <2>2. pos = End(i) - 1
    BY <1>2, <1>3, <1>4, <1>5, <2>1
  <2>3. pos \in {from, upto}
    BY <1>0, <2>2 DEF SkippedFirst
  <2> QED
    BY <1>1, <1>5, <2>2, <2>3
<1>11. IdleSoFar'
  <2>1. i \in RFQ /\ pos' = End(i) => End(i) <= from + 1
    BY <1>3, <1>5, <1>10
  <2>2. Start(i) <= pos /\ pos <= pos'
    BY <1>2, <1>3, <1>5, <1>6
  <2> QED
    BY <1>0, <1>1, <1>6, <2>1, <2>2, NothingSeen
<1>12. SkippedFirst'
  <2>1. Start(i) <= pos' /\ (i \in RFQ /\ pos' = End(i) - 1 => pos' = upto)
    BY <1>2, <1>3, <1>5, <1>6
  <2> QED
    BY <1>0, <1>1, <1>6, <2>1, SkippedStep
<1> QED
  BY <1>7, <1>8, <1>9, <1>11, <1>12 DEF IInv

\* In a header, what is gathered are its bytes as far as the data goes.
LEMMA Header ==
  ASSUME Types, Layout, InSync, pos < upto, remaining_skip = 0
  PROVE  \E i \in 1 .. Len(sent), e \in Nat :
           /\ Start(i) <= pos /\ pos < Start(i) + 5
           /\ Len(header_buf) = pos - Start(i)
           /\ e = Least(Start(i) + 5, upto)
           /\ pos < e /\ e <= Start(i) + 5 /\ e <= upto /\ e \in {Start(i) + 5, upto}
           /\ Gathered = SubSeq(stream, Start(i) + 1, e)
           /\ Len(Gathered) = e - Start(i)
           /\ \A k \in 1 .. e - Start(i) : Gathered[k] = stream[Start(i) + k]
<1>1. PICK i \in 1 .. Len(sent) :
        /\ pos \in Start(i) .. End(i) - 1
        /\ pos < Start(i) + 5 =>
             remaining_skip = 0 /\ header_buf = SubSeq(stream, Start(i) + 1, pos)
        /\ ~(pos < Start(i) + 5) => remaining_skip = End(i) - pos /\ header_buf = <<>>
  BY Place
<1>2. End(i) \in Nat /\ Start(i) \in Nat
  BY Message
<1>3. pos \in Nat /\ upto \in Nat /\ stream \in Seq(Byte) /\ upto <= Len(stream) /\ Len(stream) \in Nat
  BY DEF Types
<1>4. Start(i) <= pos /\ pos < Start(i) + 5
  <2>1. pos < End(i) /\ Start(i) <= pos
    BY <1>1, <1>2, <1>3
  <2>2. remaining_skip = End(i) - pos => FALSE
    BY <1>2, <1>3, <2>1
  <2> QED
    BY <1>1, <2>1, <2>2
<1>5. header_buf = SubSeq(stream, Start(i) + 1, pos)
  BY <1>1, <1>4
<1> DEFINE a == Start(i)
           e == Least(a + 5, upto)
<1>6. a \in Nat /\ a <= pos /\ pos < a + 5 /\ header_buf = SubSeq(stream, a + 1, pos)
  BY <1>2, <1>4, <1>5
<1> HIDE DEF a
<1>7. e \in Nat /\ pos < e /\ e <= a + 5 /\ e <= upto /\ e \in {a + 5, upto} /\ e <= Len(stream)
  BY <1>3, <1>6 DEF Least
<1>8. \A x \in Nat : a <= x /\ x <= Len(stream) =>
        /\ Len(SubSeq(stream, a + 1, x)) = x - a
        /\ \A k \in 1 .. x - a : SubSeq(stream, a + 1, x)[k] = stream[a + k]
  <2> SUFFICES ASSUME NEW x \in Nat, a <= x, x <= Len(stream)
               PROVE  /\ Len(SubSeq(stream, a + 1, x)) = x - a
                      /\ \A k \in 1 .. x - a : SubSeq(stream, a + 1, x)[k] = stream[a + k]
    BY Zenon
  <2> DEFINE b == a + 1
             t == SubSeq(stream, b, x)
  <2>1. b \in Int /\ x \in Int /\ \A k \in b .. x : stream[k] \in Byte
    BY <1>3, <1>6
  <2> HIDE DEF b
  <2>2. /\ Len(t) = IF b <= x THEN x - b + 1 ELSE 0
        /\ \A k \in 1 .. x - b + 1 : t[k] = stream[b + k - 1]
    BY <2>1, SubSeqProperties
  <2> HIDE DEF t
  <2>3. Len(t) = x - a
    BY <1>6, <2>2 DEF b
  <2>4. ASSUME NEW k \in 1 .. x - a PROVE t[k] = stream[a + k]
    <3>1. x - b + 1 = x - a /\ b + k - 1 = a + k
      BY <1>6 DEF b
    <3> QED
      BY <2>2, <3>1
  <2> QED
    BY <2>3, <2>4, Zenon DEF t, b
<1>9. Len(header_buf) = pos - a
  BY <1>3, <1>6, <1>8
<1>10. pos + Least(5 - Len(header_buf), upto - pos) = e
  BY <1>3, <1>6, <1>9 DEF Least
<1>11. Gathered = SubSeq(stream, a + 1, pos) \o SubSeq(stream, pos + 1, e)
  BY <1>6, <1>10, Zenon DEF Gathered
<1> HIDE DEF e
<1>12. Gathered = SubSeq(stream, a + 1, e)
  <2> DEFINE b == a + 1
  <2>1. b \in 1 .. Len(stream) + 1 /\ pos \in b - 1 .. Len(stream) /\ e \in pos .. Len(stream)
    BY <1>3, <1>6, <1>7
  <2> HIDE DEF b
  <2>2. SubSeq(stream, b, pos) \o SubSeq(stream, pos + 1, e) = SubSeq(stream, b, e)
    BY <1>3, <2>1, ConcatAdjacentSubSeq
  <2> QED
    BY <1>11, <2>2, Zenon DEF b
<1>13. Len(Gathered) = e - a /\ \A k \in 1 .. e - a : Gathered[k] = stream[a + k]
  <2>1. a <= e /\ e <= Len(stream) /\ e \in Nat
    BY <1>3, <1>6, <1>7
  <2>2. /\ Len(SubSeq(stream, a + 1, e)) = e - a
        /\ \A k \in 1 .. e - a : SubSeq(stream, a + 1, e)[k] = stream[a + k]
    BY <1>8, <2>1, Zenon
  <2> QED
    BY <1>12, <2>2, Zenon
<1> QED
  <2>1. /\ a <= pos /\ pos < a + 5 /\ Len(header_buf) = pos - a
        /\ e = Least(a + 5, upto)
        /\ pos < e /\ e <= a + 5 /\ e <= upto /\ e \in {a + 5, upto}
        /\ Gathered = SubSeq(stream, a + 1, e) /\ Len(Gathered) = e - a
        /\ \A k \in 1 .. e - a : Gathered[k] = stream[a + k]
    BY <1>6, <1>7, <1>9, <1>12, <1>13, Zenon DEF e
  <2>2. a = Start(i)
    BY DEF a
  <2> QED
    BY <1>7, <2>1, <2>2, Zenon

\* Phase 2 without the end of the header.
LEMMA PartialStep ==
  ASSUME IInv, PartialHeader
  PROVE  IInv'
<1>0. Types /\ Layout /\ InSync /\ IdleSoFar /\ SkippedFirst
  BY DEF IInv
<1>1. /\ pos < upto /\ remaining_skip = 0 /\ Len(Gathered) < 5
      /\ header_buf' = Gathered /\ pos' = upto
      /\ UNCHANGED <<sent, ends, stream, from, upto, remaining_skip, transaction_status, saw_idle>>
  BY DEF PartialHeader
<1>2. PICK i \in 1 .. Len(sent), e \in Nat :
           /\ Start(i) <= pos /\ pos < Start(i) + 5
           /\ e \in {Start(i) + 5, upto}
           /\ Gathered = SubSeq(stream, Start(i) + 1, e)
           /\ Len(Gathered) = e - Start(i)
  BY <1>0, <1>1, Header
<1>3. End(i) \in Nat /\ Start(i) \in Nat /\ Start(i) + 5 <= End(i)
  BY <1>0, Message
<1>4. from \in Nat /\ pos \in Nat /\ upto \in Nat /\ from <= pos
  BY <1>0 DEF Types
<1>5. e = upto /\ upto < Start(i) + 5
  BY <1>1, <1>2, <1>3, <1>4
<1>6. Types'
  BY <1>0, <1>1, <1>4 DEF Types
<1>7. Layout' /\ RFQ' = RFQ /\ \A k : End(k)' = End(k) /\ Start(k)' = Start(k)
  BY <1>0, <1>1, SameStream
<1>8. pos' \in Nat /\ Start(i) <= pos' /\ pos < pos' /\ pos' < Start(i) + 5 /\ pos' < End(i)
  BY <1>1, <1>2, <1>3, <1>4, <1>5
<1>9. InSync'
  <2>1. pos' \in Start(i) .. End(i) - 1
    BY <1>3, <1>8
  <2>2. header_buf' = SubSeq(stream, Start(i) + 1, pos')
    BY <1>1, <1>2, <1>5
  <2> QED
    BY <1>1, <1>7, <1>8, <2>1, <2>2, Zenon DEF InSync
<1>10. IdleSoFar'
  <2>1. pos' # End(i) /\ pos' <= End(i) /\ pos <= pos'
    BY <1>3, <1>4, <1>8
  <2> QED
    BY <1>0, <1>1, <1>2, <1>8, <2>1, NothingSeen
<1>11. SkippedFirst'
  <2>1. pos' <= End(i)
    BY <1>3, <1>8
  <2> QED
    BY <1>0, <1>1, <1>8, <2>1, SkippedStep
<1> QED
  BY <1>6, <1>7, <1>9, <1>10, <1>11 DEF IInv

\* Phase 3: the header tells the type and the size of the message it belongs to.
LEMMA WholeStep ==
  ASSUME IInv, WholeHeader
  PROVE  IInv'
<1>0. Types /\ Layout /\ InSync /\ IdleSoFar /\ SkippedFirst
  BY DEF IInv
<1> DEFINE h == Gathered
           after == pos + 5 - Len(header_buf)
<1>1. /\ pos < upto /\ remaining_skip = 0 /\ Len(h) = 5 /\ header_buf' = <<>>
      /\ UNCHANGED <<sent, ends, stream, from, upto>>
  BY DEF WholeHeader
<1>2. PICK i \in 1 .. Len(sent), e \in Nat :
           /\ Start(i) <= pos /\ pos < Start(i) + 5
           /\ Len(header_buf) = pos - Start(i)
           /\ e <= upto
           /\ Len(h) = e - Start(i)
           /\ \A k \in 1 .. e - Start(i) : h[k] = stream[Start(i) + k]
  BY <1>0, <1>1, Header
<1> DEFINE m == sent[i]
<1>a. /\ Start(i) <= pos /\ pos < Start(i) + 5 /\ Len(header_buf) = pos - Start(i)
      /\ e <= upto /\ e - Start(i) = 5
  BY <1>1, <1>2, Zenon
<1>b. m \in Messages /\ Size(m) = 5 + Len(m.payload)
  BY <1>0, Message
<1>3. /\ End(i) \in Nat /\ Start(i) \in Nat /\ Start(i) + 5 <= End(i)
      /\ End(i) = Start(i) + 5 + Len(m.payload) /\ Len(m.payload) \in Nat
      /\ End(i) <= Len(stream)
  BY <1>0, Message
<1>4. from \in Nat /\ pos \in Nat /\ upto \in Nat /\ from <= pos /\ saw_idle \in BOOLEAN
      /\ Len(stream) \in Nat /\ upto <= Len(stream)
  BY <1>0 DEF Types
<1>5. e = Start(i) + 5 /\ after = Start(i) + 5 /\ after <= upto /\ after \in Nat
  BY <1>a, <1>3, <1>4, SMTT(30)
<1>6. /\ \A k \in 1 .. 5 : h[k] = stream[Start(i) + k]
      /\ \A k \in 1 .. Size(m) : stream[Start(i) + k] = encode(m)[k]
  <2>1. \A k \in 1 .. 5 : h[k] = stream[Start(i) + k]
    BY <1>2, <1>a
  <2> QED
    BY <1>0, <2>1 DEF Layout
<1>7. \A k \in 1 .. 5 : h[k] = encode(m)[k]
  <2>1. \A k \in 1 .. 5 : k \in 1 .. Size(m)
    BY <1>b, <1>3, SMTT(30)
  <2> QED
    BY <1>6, <2>1
<1>8. h[1] = m.type /\ payload_len(h) = Len(m.payload)
  <2>1. encode(m)[1] = m.type /\ payload_len(encode(m)) = Len(m.payload)
    BY <1>b, Codec
  <2>2. /\ h[1] = encode(m)[1] /\ h[2] = encode(m)[2] /\ h[3] = encode(m)[3]
        /\ h[4] = encode(m)[4] /\ h[5] = encode(m)[5]
    BY <1>7
  <2> HIDE DEF h, m
  <2>3. from_be_bytes(h) = from_be_bytes(encode(m))
    BY <2>2, SMT DEF from_be_bytes
  <2> QED
    BY <2>1, <2>2, <2>3, SMT DEF payload_len
<1>9. i \in RFQ <=> m.type = Z /\ Len(m.payload) = 1
  BY DEF RFQ
<1>10. Layout' /\ RFQ' = RFQ /\ \A k : End(k)' = End(k) /\ Start(k)' = Start(k)
  BY <1>0, <1>1, SameStream
<1> HIDE DEF h, after, m
<1>11. CASE i \in RFQ /\ after < upto
  <2>1. /\ pos' = after + 1 /\ remaining_skip' = 0
        /\ saw_idle' = SawIdle(stream[after + 1])
    BY <1>8, <1>9, <1>11 DEF WholeHeader, h, after
  <2>2. after + 1 = End(i) /\ pos' = End(i) /\ End(i) > from + 1 /\ End(i) <= upto
    <3>1. Len(m.payload) = 1 /\ pos' = after + 1 /\ after < upto
      BY <1>9, <1>11, <2>1
    <3>2. End(i) = after + 1
      BY <1>3, <1>5, <3>1
    <3>3. from < after
      BY <1>a, <1>3, <1>4, <1>5
    <3> QED
      BY <1>4, <1>5, <3>1, <3>2, <3>3
  <2>3. stream[after + 1] = m.payload[1]
    <3>1. Len(m.payload) = 1 /\ 6 \in 1 .. Size(m)
      BY <1>b, <1>9, <1>11
    <3>2. stream[Start(i) + 6] = encode(m)[6]
      BY <1>6, <3>1
    <3>3. encode(m)[5 + 1] = m.payload[1]
      BY <1>b, <3>1, Codec
    <3>4. after + 1 = Start(i) + 6 /\ 5 + 1 = 6
      BY <1>3, <1>5
    <3> QED
      BY <3>2, <3>3, <3>4
  <2>4. Types'
    BY <1>0, <1>1, <1>3, <1>4, <2>1, <2>2 DEF Types, SawIdle
  <2>5. InSync'
    BY <1>0, <1>1, <2>1, <2>2, Boundary
  <2>6. SeenSoFar' \subseteq RFQ /\ i \in SeenSoFar'
    <3>1. End(i)' = End(i) /\ pos' = End(i) /\ from' = from /\ End(i) <= End(i)
      BY <1>1, <1>3, <1>10, <2>2
    <3> QED
      BY <1>10, <1>11, <2>2, <3>1 DEF SeenSoFar
  <2>7. ASSUME NEW k \in SeenSoFar' PROVE k <= i
    <3>1. k \in 1 .. Len(sent) /\ End(k) <= End(i)
      BY <1>10, <2>2, <2>6 DEF SeenSoFar, RFQ
    <3>2. CASE i < k
      <4>1. End(i) <= Start(k) /\ Start(k) < End(k) /\ Start(k) \in Nat /\ End(k) \in Nat
        BY <1>0, <3>1, <3>2, Order, Message, Zenon
      <4> QED
        BY <1>3, <3>1, <4>1, SMTT(30)
    <3> QED
      BY <3>1, <3>2, SMTT(30)
  <2>8. IdleSoFar'
    <3>1. saw_idle' <=> m.payload[1] = I
      BY <2>1, <2>3, Zenon DEF SawIdle
    <3>2. \A k \in SeenSoFar' : (\A j \in SeenSoFar' : j <= k) => k = i
      <4> SUFFICES ASSUME NEW k \in SeenSoFar', \A j \in SeenSoFar' : j <= k PROVE k = i
        OBVIOUS
      <4>1. i <= k /\ k <= i /\ k \in 1 .. Len(sent)
        BY <2>6, <2>7 DEF RFQ
      <4> QED
        BY <4>1
    <3>3. sent'[i].payload[1] = m.payload[1]
      BY <1>1 DEF m
    <3> QED
      BY <2>6, <2>7, <3>1, <3>2, <3>3 DEF IdleSoFar
  <2>9. SkippedFirst'
    <3>1. Start(i) <= pos' /\ pos' <= End(i) /\ pos' \in Nat /\ pos' # End(i) - 1
      BY <1>3, <2>2
    <3> QED
      BY <1>0, <1>1, <3>1, SkippedStep
  <2> QED
    BY <1>10, <2>4, <2>5, <2>8, <2>9 DEF IInv
<1>12. CASE ~(i \in RFQ /\ after < upto)
  <2>1. /\ pos' = after /\ remaining_skip' = Len(m.payload)
        /\ UNCHANGED <<transaction_status, saw_idle>>
    BY <1>8, <1>9, <1>12 DEF WholeHeader, h, after
  <2>2. /\ pos' \in Nat /\ pos' = Start(i) + 5 /\ pos < pos' /\ pos' <= End(i)
        /\ pos' <= upto /\ remaining_skip' = End(i) - pos'
    <3>1. pos' = Start(i) + 5 /\ Start(i) + 5 <= upto /\ remaining_skip' = Len(m.payload)
      BY <1>5, <2>1
    <3> QED
      BY <1>a, <1>3, <1>4, <3>1, SMTT(30)
  <2>3. Types'
    BY <1>0, <1>1, <1>4, <2>1, <2>2 DEF Types
  <2>4. InSync'
    <3>1. CASE pos' = End(i)
      <4>1. remaining_skip' = 0
        BY <1>3, <2>2, <3>1
      <4> QED
        BY <1>0, <1>1, <3>1, <4>1, Boundary
    <3>2. CASE pos' # End(i)
      <4>1. pos' \in Start(i) .. End(i) - 1 /\ ~(pos' < Start(i) + 5)
        BY <1>3, <2>2, <3>2, SMTT(30)
      <4> QED
        BY <1>1, <1>10, <2>2, <4>1 DEF InSync
    <3> QED
      BY <3>1, <3>2
  <2>5. i \in RFQ => pos' = End(i) - 1 /\ pos' = upto
    <3> HAVE i \in RFQ
    <3>1. Len(m.payload) = 1 /\ ~(after < upto) /\ pos' = after
      BY <1>9, <1>12, <2>1
    <3>2. pos' = End(i) - 1
      BY <1>3, <2>2, <3>1
    <3>3. pos' = upto
      BY <1>4, <1>5, <3>1
    <3> QED
      BY <3>2, <3>3
  <2>6. pos <= pos' /\ Start(i) <= pos' /\ (i \in RFQ => pos' # End(i))
    <3>1. pos <= pos' /\ Start(i) <= pos'
      BY <1>3, <1>4, <2>2, SMTT(30)
    <3>2. pos' = End(i) - 1 => pos' # End(i)
      BY <1>3, <2>2
    <3> QED
      BY <2>5, <3>1, <3>2
  <2>7. IdleSoFar'
    BY <1>0, <1>1, <1>a, <2>1, <2>2, <2>6, NothingSeen
  <2>8. SkippedFirst'
    BY <1>0, <1>1, <2>2, <2>5, <2>6, SkippedStep
  <2> QED
    BY <1>10, <2>3, <2>4, <2>7, <2>8 DEF IInv
<1> QED
  BY <1>11, <1>12

-----------------------------------------------------------------------------
(* The theorems *)

\* The invariant is inductive.
THEOREM ScannerInductive == Spec => []IInv
<1>1. Init => IInv
  <2> SUFFICES ASSUME Init PROVE IInv
    OBVIOUS
  <2>1. /\ sent = <<>> /\ ends = <<>> /\ stream = <<>> /\ from = 0 /\ upto = 0 /\ pos = 0
        /\ remaining_skip = 0 /\ header_buf = <<>> /\ saw_idle = FALSE /\ Len(sent) = 0
    BY DEF Init
  <2>2. Types
    <3>1. sent \in Seq(Messages) /\ ends \in Seq(Nat) /\ stream \in Seq(Byte)
          /\ Len(ends) = Len(sent) /\ upto <= Len(stream)
      BY <2>1, EmptySeq
    <3> QED
      BY <2>1, <3>1, Zenon DEF Types
  <2>3. RFQ = {}
    BY <2>1 DEF RFQ
  <2>4. Layout
    BY <2>1 DEF Layout, End
  <2> QED
    BY <2>1, <2>2, <2>3, <2>4 DEF IInv, InSync, IdleSoFar, SkippedFirst, SeenSoFar
<1>2. ASSUME IInv, [Next]_vars PROVE IInv'
  <2>1. CASE UNCHANGED vars
    BY <1>2, <2>1, Zenon DEF vars, IInv, Types, Layout, InSync, IdleSoFar, SkippedFirst, SeenSoFar, RFQ,
                      End, Start
  <2> QED
    BY <1>2, <2>1, SendStep, ReadStep, SkipStep, PartialStep, WholeStep DEF Next
<1> QED
  BY <1>1, <1>2, PTL DEF Spec

\* However the reads cut the stream, the scanner knows where in which message it is:
\* no length, no payload that looks like a header and no split header derails it.
THEOREM ScannerInSync == Spec => []InSync
<1>1. IInv => InSync
  BY DEF IInv
<1> QED
  BY ScannerInductive, <1>1, PTL

\* Every call reports an idle session only if the most recent ReadyForQuery of its data
\* is idle, and reports it when the status byte is not the first byte of the data.
THEOREM ScannerReportsIdle == Spec => []ScanReportsIdle
<1>1. IInv => ScanReportsIdle
  <2> SUFFICES ASSUME IInv, pos = upto PROVE ScanReportsIdle
    BY DEF ScanReportsIdle
  <2>0. Types /\ Layout /\ IdleSoFar
    BY DEF IInv
  <2>1. SeenSoFar = {i \in InData : End(i) > from + 1}
    BY <2>0, Message DEF SeenSoFar, InData, RFQ, Types
  <2>2. ASSUME NEW i \in SeenSoFar, NEW j \in InData \ SeenSoFar PROVE j <= i
    <3>1. /\ i \in 1 .. Len(sent) /\ j \in 1 .. Len(sent) /\ Len(sent) \in Nat
          /\ End(i) \in Nat /\ End(j) \in Nat /\ from \in Nat
      BY <2>0, Message DEF SeenSoFar, InData, RFQ, Types
    <3>2. End(j) < End(i)
      BY <2>1, <3>1
    <3>3. i < j => End(i) < End(j)
      BY <2>0, <3>1 DEF Layout
    <3> QED
      BY <3>1, <3>2, <3>3
  <2>3. ASSUME saw_idle PROVE \E i \in InData : MostRecent(i) /\ Idle(i)
    <3>1. PICK i \in SeenSoFar : (\A j \in SeenSoFar : j <= i) /\ sent[i].payload[1] = I
      BY <2>0, <2>3 DEF IdleSoFar
    <3> QED
      BY <2>1, <2>2, <3>1 DEF MostRecent, Idle
  <2>4. ASSUME NEW i \in InData, MostRecent(i), Idle(i), End(i) > from + 1 PROVE saw_idle
    <3>1. i \in SeenSoFar /\ \A j \in SeenSoFar : j <= i
      BY <2>1, <2>4 DEF MostRecent
    <3> QED
      BY <2>0, <2>4, <3>1 DEF IdleSoFar, Idle
  <2> QED
    BY <2>3, <2>4 DEF ScanReportsIdle
<1> QED
  BY ScannerInductive, <1>1, PTL
=============================================================================
