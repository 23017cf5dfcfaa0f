---------------------------- MODULE ProxyProofs ----------------------------
(***************************************************************************)
(* The streams through the proxy loops, for every number of messages and   *)
(* of sessions and however the streams are cut into reads: both directions *)
(* stay framed, and what the client has sent is forwarded, dropped by the  *)
(* proxy or still on its way, so that the server's stream is complete for  *)
(* as long as the slow loop has not taken the middle of a message for a    *)
(* header (RInv).                                                          *)
(***************************************************************************)
EXTENDS Proxy, TLAPS

-----------------------------------------------------------------------------
(* The invariant *)

ReqKinds == Query \cup {"parse", "sync", "terminate", "discard"}
Vias     == {"client", "reset", "other", "under", "shrink", "extended", "wrapped", "garbled"}
AnsKinds == {"ok", "error", "ready", "notice"}

\* Requests and answers, and their halves, when n requests have been sent.
ReqMsg(n) == [id : 0 .. n, kind : ReqKinds, via : Vias]
AnsMsg(n) == [no : Nat, kind : AnsKinds, idle : BOOLEAN, ans : 0 .. n]
Req(n) == [msg : ReqMsg(n), part : {1, 2}]
Ans(n) == [msg : AnsMsg(n), part : {1, 2}]

\* A stream that ends with a whole message: counted from its end, headers and
\* payloads alternate.
Framed(s) ==
  \A i \in 1 .. Len(s) :
     /\ s[i].part = 1 <=> (Len(s) - i) % 2 = 1
     /\ s[i].part = 1 => s[i + 1].msg = s[i].msg

\* What comes from the client and from the server, and what the server has not
\* processed yet.
Coming   == client_buf \o cNet
Arriving == server_buf \o sNet
Open     == From(toServer, served) \o Coming

Types ==
  /\ sends \in Nat /\ base \in 0 .. sends /\ no \in Nat /\ session \in Nat \ {0}
  /\ cNet \in Seq(Req(sends)) /\ client_buf \in Seq(Req(sends)) /\ toServer \in Seq(Req(sends))
  /\ sNet \in Seq(Ans(sends)) /\ server_buf \in Seq(Ans(sends)) /\ toClient \in Seq(Ans(sends))
  /\ served \in 0 .. Len(toServer)
  /\ dropped \subseteq ReqMsg(sends)
  /\ mode \in {"fast", "slow", "reset", "pooled", "closed"}

\* Nothing of a session is left when it is over.
Left ==
  mode \in {"reset", "pooled"} =>
    /\ cNet = <<>> /\ client_buf = <<>> /\ toClient = <<>>
    /\ dropped = {} /\ ~pending /\ ~skip

\* The client's messages are whole unless it has disconnected in the middle of one,
\* which a polite client does not do; the server's always.
WholeMessages ==
  /\ Talking /\ (Polite \/ ~cClosed) => Framed(Coming)
  /\ Framed(Arriving)

RInv == Types /\ Left /\ WholeMessages /\ ServerGetsAll

-----------------------------------------------------------------------------
(* Sequences *)

\* The elements of a sequence over S are in S.
LEMMA Element ==
  ASSUME NEW S, NEW s \in Seq(S), NEW i \in 1 .. Len(s)
  PROVE  s[i] \in S
  OBVIOUS

\* The empty sequence.
LEMMA Empty ==
  ASSUME NEW S
  PROVE  <<>> \in Seq(S) /\ \A s \in Seq(S) : s = <<>> <=> Len(s) = 0
  OBVIOUS

\* Sequences with the same elements are the same.
LEMMA Same ==
  ASSUME NEW S, NEW s \in Seq(S), NEW t \in Seq(S), Len(s) = Len(t), \A i \in 1 .. Len(s) : s[i] = t[i]
  PROVE  s = t
  OBVIOUS

\* The elements of a concatenation.
LEMMA Joined ==
  ASSUME NEW S, NEW s \in Seq(S), NEW t \in Seq(S)
  PROVE  /\ s \o t \in Seq(S)
         /\ Len(s) \in Nat /\ Len(t) \in Nat /\ Len(s \o t) = Len(s) + Len(t)
         /\ \A k \in 1 .. Len(s) : (s \o t)[k] = s[k]
         /\ \A k \in 1 .. Len(t) : (s \o t)[Len(s) + k] = t[k]
  OBVIOUS

\* Concatenation with the empty sequence.
LEMMA JoinEmpty ==
  ASSUME NEW S, NEW s \in Seq(S)
  PROVE  s \o <<>> = s /\ <<>> \o s = s
  OBVIOUS

\* Concatenation is associative.
LEMMA JoinThree ==
  ASSUME NEW S, NEW s \in Seq(S), NEW t \in Seq(S), NEW u \in Seq(S)
  PROVE  (s \o t) \o u = s \o (t \o u)
  OBVIOUS

\* The first n elements and the others.
LEMMA Taken ==
  ASSUME NEW S, NEW s \in Seq(S), NEW n \in 0 .. Len(s)
  PROVE  /\ SubSeq(s, 1, n) \in Seq(S) /\ Len(SubSeq(s, 1, n)) = n
         /\ \A k \in 1 .. n : SubSeq(s, 1, n)[k] = s[k]
         /\ SubSeq(s, n + 1, Len(s)) \in Seq(S) /\ Len(SubSeq(s, n + 1, Len(s))) = Len(s) - n
         /\ \A k \in 1 .. Len(s) - n : SubSeq(s, n + 1, Len(s))[k] = s[n + k]
  OBVIOUS

\* A sequence that begins as a and goes on as b is their concatenation.
LEMMA JoinedIs ==
  ASSUME NEW S, NEW a \in Seq(S), NEW b \in Seq(S), NEW t \in Seq(S), Len(t) = Len(a) + Len(b),
         \A k \in 1 .. Len(a) : t[k] = a[k], \A k \in 1 .. Len(b) : t[Len(a) + k] = b[k]
  PROVE  a \o b = t
<1> DEFINE c == a \o b
<1>1. c \in Seq(S) /\ Len(c) = Len(t)
  OBVIOUS
<1>2. ASSUME NEW k \in 1 .. Len(t) PROVE c[k] = t[k]
  <2>1. CASE k \in 1 .. Len(a)
    BY <2>1
  <2>2. CASE k - Len(a) \in 1 .. Len(b)
    BY <2>2, Len(a) + (k - Len(a)) = k
  <2> QED
    BY <2>1, <2>2
<1> HIDE DEF c
<1>3. c = t
  BY <1>1, <1>2, Same
<1> QED
  BY <1>3 DEF c

\* A read moves a piece from the front of one stream to the end of another.
LEMMA Moved ==
  ASSUME NEW S, NEW s \in Seq(S), NEW t \in Seq(S), NEW n \in 0 .. Len(t)
  PROVE  (s \o SubSeq(t, 1, n)) \o SubSeq(t, n + 1, Len(t)) = s \o t
<1> DEFINE a == SubSeq(t, 1, n)
           b == SubSeq(t, n + 1, Len(t))
<1>1. /\ a \in Seq(S) /\ Len(a) = n /\ \A k \in 1 .. n : a[k] = t[k]
      /\ b \in Seq(S) /\ Len(b) = Len(t) - n /\ \A k \in 1 .. Len(t) - n : b[k] = t[n + k]
  BY Taken
<1> HIDE DEF a, b
<1>2. /\ Len(t) = Len(a) + Len(b)
      /\ \A k \in 1 .. Len(a) : t[k] = a[k]
      /\ \A k \in 1 .. Len(b) : t[Len(a) + k] = b[k]
  BY <1>1
<1>3. a \o b = t
  BY <1>1, <1>2, JoinedIs, Zenon
<1>4. (s \o a) \o b = s \o (a \o b)
  BY <1>1, JoinThree, SMTT(30)
<1> QED
  BY <1>3, <1>4, Zenon DEF a, b

\* Taking from the front of a stream takes from the front of what it is followed by.
LEMMA Dropped ==
  ASSUME NEW S, NEW s \in Seq(S), NEW t \in Seq(S), NEW n \in 0 .. Len(s)
  PROVE  SubSeq(s, n + 1, Len(s)) \o t = SubSeq(s \o t, n + 1, Len(s \o t))
<1> DEFINE b == SubSeq(s, n + 1, Len(s))
           c == s \o t
           d == SubSeq(c, n + 1, Len(c))
<1>1. b \in Seq(S) /\ Len(b) = Len(s) - n /\ \A k \in 1 .. Len(s) - n : b[k] = s[n + k]
  BY Taken
<1> HIDE DEF b
<1>2. n \in 0 .. Len(c) /\ c \in Seq(S) /\ Len(c) = Len(s) + Len(t)
  OBVIOUS
<1>3. /\ \A k \in 1 .. Len(s) : c[k] = s[k]
      /\ \A k \in 1 .. Len(t) : c[Len(s) + k] = t[k]
  OBVIOUS
<1> HIDE DEF c
<1>4. d \in Seq(S) /\ Len(d) = Len(c) - n /\ \A k \in 1 .. Len(c) - n : d[k] = c[n + k]
  BY <1>2, Taken
<1> HIDE DEF d
<1>5. Len(d) = Len(b) + Len(t)
  BY <1>1, <1>2, <1>4
<1>6. ASSUME NEW k \in 1 .. Len(b) PROVE d[k] = b[k]
  <2>1. k \in 1 .. Len(c) - n /\ k \in 1 .. Len(s) - n /\ n + k \in 1 .. Len(s)
    BY <1>1, <1>2
  <2> QED
    BY <1>1, <1>3, <1>4, <2>1
<1>7. ASSUME NEW k \in 1 .. Len(t) PROVE d[Len(b) + k] = t[k]
  <2>1. Len(b) + k \in 1 .. Len(c) - n /\ n + (Len(b) + k) = Len(s) + k
    BY <1>1, <1>2
  <2> QED
    BY <1>3, <1>4, <2>1, Zenon
<1>8. b \o t = d
  BY <1>1, <1>4, <1>5, <1>6, <1>7, JoinedIs, Zenon
<1> QED
  BY <1>8, Zenon DEF b, c, d

-----------------------------------------------------------------------------
(* Streams *)

\* Odd and even lengths.
LEMMA Parity ==
  /\ \A x \in Int : (x + 2) % 2 = x % 2 /\ x % 2 \in {0, 1}
  /\ 0 % 2 = 0 /\ 1 % 2 = 1
  OBVIOUS

\* The halves of a message.
LEMMA Halves ==
  ASSUME NEW S, NEW m, [msg |-> m, part |-> 1] \in S, [msg |-> m, part |-> 2] \in S
  PROVE  /\ Parts(m) \in Seq(S) /\ Len(Parts(m)) = 2
         /\ Parts(m)[1] = [msg |-> m, part |-> 1] /\ Parts(m)[2] = [msg |-> m, part |-> 2]
  BY DEF Parts

\* What is left of a stream.
LEMMA Rest ==
  ASSUME NEW S, NEW s \in Seq(S), NEW n \in 0 .. Len(s)
  PROVE  /\ From(s, n) \in Seq(S) /\ Len(From(s, n)) = Len(s) - n
         /\ \A k \in 1 .. Len(s) - n : From(s, n)[k] = s[n + k]
  BY Taken DEF From

\* The two pieces make up the stream.
LEMMA Split ==
  ASSUME NEW S, NEW s \in Seq(S), NEW n \in 0 .. Len(s)
  PROVE  SubSeq(s, 1, n) \in Seq(S) /\ SubSeq(s, 1, n) \o From(s, n) = s
<1>1. SubSeq(s, 1, n) \in Seq(S) /\ <<>> \in Seq(S)
  BY Taken
<1>2. (<<>> \o SubSeq(s, 1, n)) \o From(s, n) = <<>> \o s
  BY <1>1, Moved, Zenon DEF From
<1> QED
  BY <1>1, <1>2, JoinEmpty

\* A whole message at the end of a stream.
LEMMA FramedAppend ==
  ASSUME NEW S, NEW s \in Seq(S), Framed(s),
         NEW m, [msg |-> m, part |-> 1] \in S, [msg |-> m, part |-> 2] \in S
  PROVE  Framed(s \o Parts(m))
<1> DEFINE t == Parts(m)
           c == s \o t
<1>1. /\ t \in Seq(S) /\ Len(t) = 2
      /\ t[1] = [msg |-> m, part |-> 1] /\ t[2] = [msg |-> m, part |-> 2]
  BY Halves
<1> HIDE DEF t
<1>2. /\ Len(s) \in Nat /\ Len(c) = Len(s) + Len(t)
      /\ \A k \in 1 .. Len(s) : c[k] = s[k]
      /\ \A k \in 1 .. Len(t) : c[Len(s) + k] = t[k]
  <2>1. t \in Seq(S)
    BY <1>1
  <2> QED
    BY <2>1, Joined
<1>3. /\ c[Len(s) + 1] = [msg |-> m, part |-> 1] /\ c[Len(s) + 2] = [msg |-> m, part |-> 2]
      /\ Len(c) = Len(s) + 2
  BY <1>1, <1>2
<1> HIDE DEF c
<1>4. ASSUME NEW i \in 1 .. Len(c)
      PROVE  /\ c[i].part = 1 <=> (Len(c) - i) % 2 = 1
             /\ c[i].part = 1 => c[i + 1].msg = c[i].msg
  <2>1. CASE i \in 1 .. Len(s)
    <3>1. c[i] = s[i]
      BY <1>2, <2>1
    <3>2. (Len(c) - i) % 2 = (Len(s) - i) % 2
      <4>1. Len(s) - i \in Int /\ Len(c) - i = (Len(s) - i) + 2
        BY <1>2, <1>3, <2>1
      <4> QED
        BY <4>1, Parity
    <3>3. s[i].part = 1 => i + 1 \in 1 .. Len(s)
      <4>1. s[i].part = 1 => (Len(s) - i) % 2 = 1
        BY <2>1 DEF Framed
      <4>2. (Len(s) - i) % 2 = 1 => i # Len(s)
        <5>1. i = Len(s) => Len(s) - i = 0
          BY <1>2, <2>1
        <5> QED
          BY <5>1, Parity
      <4> QED
        BY <4>1, <4>2, <1>2, <2>1
    <3>4. s[i].part = 1 => c[i + 1] = s[i + 1]
      BY <3>3, <1>2
    <3> QED
      BY <3>1, <3>2, <3>4, <2>1 DEF Framed
  <2>2. CASE i = Len(s) + 1
    <3>1. (Len(c) - i) % 2 = 1 /\ i + 1 = Len(s) + 2
      BY <1>2, <1>3, <2>2
    <3> QED
      BY <3>1, <1>3, <2>2
  <2>3. CASE i = Len(s) + 2
    <3>1. (Len(c) - i) % 2 = 0
      BY <1>2, <1>3, <2>3
    <3> QED
      BY <3>1, <1>3, <2>3
  <2> QED
    BY <1>2, <1>3, <2>1, <2>2, <2>3
<1> QED
  BY <1>4, Zenon DEF Framed, c, t

\* The end of a stream.
LEMMA FramedTail ==
  ASSUME NEW S, NEW s \in Seq(S), NEW t \in Seq(S), Framed(s \o t)
  PROVE  Framed(t)
<1> DEFINE c == s \o t
<1>1. /\ Len(s) \in Nat /\ Len(t) \in Nat /\ Len(c) = Len(s) + Len(t)
      /\ \A k \in 1 .. Len(t) : c[Len(s) + k] = t[k]
  BY Joined
<1>2. Framed(c)
  OBVIOUS
<1> HIDE DEF c
<1>3. ASSUME NEW i \in 1 .. Len(t)
      PROVE  /\ t[i].part = 1 <=> (Len(t) - i) % 2 = 1
             /\ t[i].part = 1 => t[i + 1].msg = t[i].msg
  <2> DEFINE j == Len(s) + i
  <2>1. j \in 1 .. Len(c) /\ Len(c) - j = Len(t) - i /\ c[j] = t[i]
    BY <1>1
  <2>2. /\ c[j].part = 1 <=> (Len(c) - j) % 2 = 1
        /\ c[j].part = 1 => c[j + 1].msg = c[j].msg
    BY <1>2, <2>1 DEF Framed
  <2>3. (Len(t) - i) % 2 = 1 => i + 1 \in 1 .. Len(t) /\ j + 1 = Len(s) + (i + 1)
    <3>1. i = Len(t) => (Len(t) - i) % 2 # 1
      BY <1>1
    <3> QED
      BY <1>1, <3>1
  <2>4. (Len(t) - i) % 2 = 1 => c[j + 1] = t[i + 1]
    BY <1>1, <2>3
  <2> HIDE DEF j
  <2> QED
    BY <2>1, <2>2, <2>4, Zenon
<1> QED
  BY <1>3 DEF Framed
-----------------------------------------------------------------------------
(* The requests in a stream *)

\* Complete, half by half: the requests after the first b are in order, and they
\* are those with a number in ids.
ReqDone(s, b, ids) ==
  /\ \A i, j \in 1 .. Len(s) : i < j /\ s[i].msg.id > b /\ s[j].msg.id > b =>
        2 * s[i].msg.id + s[i].part < 2 * s[j].msg.id + s[j].part
  /\ \A i \in 1 .. Len(s) : s[i].msg.id > b => s[i].msg.id \in ids
  /\ \A id \in ids, p \in {1, 2} :
        \E i \in 1 .. Len(s) : s[i].msg.id = id /\ s[i].part = p

\* The number of a half tells its message and its part.
LEMMA KeyOf ==
  ASSUME NEW x \in Nat, NEW y \in Nat, NEW p \in {1, 2}, NEW q \in {1, 2}, 2 * x + p = 2 * y + q
  PROVE  x = y /\ p = q
  OBVIOUS

\* The number of a half is an integer.
LEMMA KeyInt == \A x, y \in Nat : 2 * x + y \in Int
  OBVIOUS

\* The halves of a new message come after all the others.
LEMMA KeyLess ==
  ASSUME NEW n \in Nat, NEW x \in 0 .. n, NEW y, y = n + 1, NEW p \in {1, 2}, NEW q \in {1, 2}
  PROVE  2 * x + p < 2 * y + q
  OBVIOUS

\* What ServerGetsAll says of a stream, without the sequence of its keys.
LEMMA ReqDoneMeaning ==
  ASSUME NEW n \in Nat, NEW s \in Seq(Req(n)), NEW b \in Nat, NEW ids \in SUBSET Nat,
         \A id \in ids : id > b
  PROVE  Complete(RequestKeys(s, b), ids) <=> ReqDone(s, b, ids)
<1> DEFINE own == {j \in DOMAIN s : s[j].msg.id > b}
           key(i) == 2 * s[i].msg.id + s[i].part
           f == RequestKeys(s, b)
<1>1. \A i \in 1 .. Len(s) : s[i].msg.id \in Nat /\ s[i].part \in {1, 2}
  <2>1. \A i \in 1 .. Len(s) : s[i] \in Req(n)
    BY Element
  <2> QED
    BY <2>1 DEF Req, ReqMsg
<1>2. DOMAIN s = 1 .. Len(s)
  OBVIOUS
<1>3. DOMAIN f = own /\ \A i \in own : f[i] = key(i)
  BY DEF RequestKeys
<1>4. \A i : i \in own <=> i \in 1 .. Len(s) /\ s[i].msg.id > b
  BY <1>2
<1> HIDE DEF f, own
<1>5. (\A i, j \in DOMAIN f : i < j => f[i] < f[j]) <=>
      (\A i, j \in 1 .. Len(s) : i < j /\ s[i].msg.id > b /\ s[j].msg.id > b => key(i) < key(j))
  BY <1>3, <1>4, Zenon
<1>6. ASSUME Range(f) = {2 * id + p : id \in ids, p \in {1, 2}}
      PROVE  /\ \A i \in 1 .. Len(s) : s[i].msg.id > b => s[i].msg.id \in ids
             /\ \A id \in ids, p \in {1, 2} :
                   \E i \in 1 .. Len(s) : s[i].msg.id = id /\ s[i].part = p
  <2>1. ASSUME NEW i \in 1 .. Len(s), s[i].msg.id > b PROVE s[i].msg.id \in ids
    <3>1. key(i) \in Range(f)
      BY <1>3, <1>4, <2>1 DEF Range
    <3>2. PICK id \in ids, p \in {1, 2} : key(i) = 2 * id + p
      BY <1>6, <3>1
    <3>3. s[i].msg.id = id
      BY <1>1, <3>2, KeyOf, Zenon
    <3> QED
      BY <3>3
  <2>2. ASSUME NEW id \in ids, NEW p \in {1, 2}
        PROVE  \E i \in 1 .. Len(s) : s[i].msg.id = id /\ s[i].part = p
    <3>1. 2 * id + p \in Range(f)
      BY <1>6
    <3>2. PICK i \in own : key(i) = 2 * id + p
      BY <1>3, <3>1 DEF Range
    <3>3. i \in 1 .. Len(s)
      BY <1>4
    <3>4. /\ s[i].msg.id \in Nat /\ s[i].part \in {1, 2} /\ id \in Nat
          /\ 2 * s[i].msg.id + s[i].part = 2 * id + p
      BY <1>1, <3>2, <3>3
    <3>5. s[i].msg.id = id
      BY <3>4, KeyOf, Zenon
    <3>6. s[i].part = p
      <4>1. \A q \in {1, 2} : 2 * id + q = 2 * id + p => q = p
        BY <3>4
      <4> QED
        BY <3>4, <3>5, <4>1
    <3> QED
      BY <3>3, <3>5, <3>6
  <2> QED
    BY <2>1, <2>2, Zenon
<1>7. ASSUME \A i \in 1 .. Len(s) : s[i].msg.id > b => s[i].msg.id \in ids,
             \A id \in ids, p \in {1, 2} :
               \E i \in 1 .. Len(s) : s[i].msg.id = id /\ s[i].part = p
      PROVE  Range(f) = {2 * id + p : id \in ids, p \in {1, 2}}
  <2>1. ASSUME NEW x \in Range(f) PROVE x \in {2 * id + p : id \in ids, p \in {1, 2}}
    <3>1. PICK i \in own : x = key(i)
      BY <1>3 DEF Range
    <3>2. s[i].msg.id \in ids /\ s[i].part \in {1, 2}
      BY <1>1, <1>4, <1>7
    <3>3. \E id \in ids, p \in {1, 2} : x = 2 * id + p
      BY <3>1, <3>2, Zenon
    <3> QED
      BY <3>3
  <2>2. ASSUME NEW x \in {2 * id + p : id \in ids, p \in {1, 2}} PROVE x \in Range(f)
    <3>1. PICK id \in ids, p \in {1, 2} : x = 2 * id + p
      BY <2>2
    <3>2. PICK i \in 1 .. Len(s) : s[i].msg.id = id /\ s[i].part = p
      BY <1>7, SMTT(30)
    <3>3. i \in own /\ x = key(i)
      BY <1>4, <3>1, <3>2
    <3> QED
      BY <1>3, <3>3 DEF Range
  <2> QED
    BY <2>1, <2>2
<1>8. (Range(f) = {2 * id + p : id \in ids, p \in {1, 2}}) <=>
      /\ \A i \in 1 .. Len(s) : s[i].msg.id > b => s[i].msg.id \in ids
      /\ \A id \in ids, p \in {1, 2} :
            \E i \in 1 .. Len(s) : s[i].msg.id = id /\ s[i].part = p
  BY <1>6, <1>7
<1> QED
  BY <1>5, <1>8, SMTT(30) DEF Complete, ReqDone, f

\* A new request at the end.
LEMMA ReqDoneAppend ==
  ASSUME NEW n \in Nat, NEW s \in Seq(Req(n)), NEW b \in 0 .. n, NEW ids \in SUBSET (0 .. n),
         NEW m, m.id = n + 1, NEW T,
         [msg |-> m, part |-> 1] \in T, [msg |-> m, part |-> 2] \in T, s \in Seq(T),
         ReqDone(s, b, ids)
  PROVE  ReqDone(s \o Parts(m), b, ids \cup {n + 1})
<1> DEFINE c == s \o Parts(m)
           key(i) == 2 * c[i].msg.id + c[i].part
<1>1. /\ Parts(m) \in Seq(T) /\ Len(Parts(m)) = 2
      /\ Parts(m)[1] = [msg |-> m, part |-> 1] /\ Parts(m)[2] = [msg |-> m, part |-> 2]
  BY Halves
<1>2. /\ Len(s) \in Nat /\ Len(c) = Len(s) + Len(Parts(m))
      /\ \A k \in 1 .. Len(s) : c[k] = s[k]
      /\ \A k \in 1 .. Len(Parts(m)) : c[Len(s) + k] = Parts(m)[k]
  <2>1. Parts(m) \in Seq(T)
    BY <1>1
  <2> QED
    BY <2>1, Joined
<1>3. /\ Len(c) = Len(s) + 2
      /\ c[Len(s) + 1].msg.id = n + 1 /\ c[Len(s) + 1].part = 1
      /\ c[Len(s) + 2].msg.id = n + 1 /\ c[Len(s) + 2].part = 2
  BY <1>1, <1>2
<1>4. \A i \in 1 .. Len(s) : s[i].msg.id \in 0 .. n /\ s[i].part \in {1, 2}
  <2>1. \A i \in 1 .. Len(s) : s[i] \in Req(n)
    BY Element
  <2> QED
    BY <2>1 DEF Req, ReqMsg
<1> HIDE DEF c
<1>5. \A i \in 1 .. Len(c) : i \in 1 .. Len(s) \/ i = Len(s) + 1 \/ i = Len(s) + 2
  <2>1. Len(s) \in Nat /\ Len(c) = Len(s) + 2
    BY <1>2, <1>3
  <2> QED
    BY <2>1
<1>6. ASSUME NEW i \in 1 .. Len(c), NEW j \in 1 .. Len(c), i < j, c[i].msg.id > b, c[j].msg.id > b
      PROVE  key(i) < key(j)
  <2>1. CASE j \in 1 .. Len(s)
    <3>1. i \in 1 .. Len(s)
      BY <1>2, <1>6, <2>1
    <3>2. c[i] = s[i] /\ c[j] = s[j]
      BY <1>2, <2>1, <3>1
    <3> QED
      BY <1>6, <2>1, <3>1, <3>2 DEF ReqDone
  <2>2. CASE j \notin 1 .. Len(s) /\ i \in 1 .. Len(s)
    <3>1. c[i].msg.id \in 0 .. n /\ c[i].part \in {1, 2}
      BY <1>2, <1>4, <2>2
    <3>2. c[j].msg.id = n + 1 /\ c[j].part \in {1, 2}
      BY <1>3, <1>5, <2>2
    <3> QED
      BY <3>1, <3>2, KeyLess, Zenon
  <2>3. CASE j \notin 1 .. Len(s) /\ i \notin 1 .. Len(s)
    <3>1. i = Len(s) + 1 /\ j = Len(s) + 2
      BY <1>2, <1>5, <1>6, <2>3
    <3> QED
      BY <1>3, <3>1, SMTT(40)
  <2> QED
    BY <2>1, <2>2, <2>3
<1>7. ASSUME NEW i \in 1 .. Len(c), c[i].msg.id > b PROVE c[i].msg.id \in ids \cup {n + 1}
  BY <1>2, <1>3, <1>5, <1>7, Zenon DEF ReqDone
<1>8. ASSUME NEW id \in ids \cup {n + 1}, NEW p \in {1, 2}
      PROVE  \E i \in 1 .. Len(c) : c[i].msg.id = id /\ c[i].part = p
  <2>1. CASE id \in ids
    <3>1. PICK i \in 1 .. Len(s) : s[i].msg.id = id /\ s[i].part = p
      BY <2>1 DEF ReqDone
    <3>2. i \in 1 .. Len(c) /\ c[i] = s[i]
      BY <1>2, <1>3
    <3> QED
      BY <3>1, <3>2
  <2>2. CASE id = n + 1
    <3>1. Len(s) + 1 \in 1 .. Len(c) /\ Len(s) + 2 \in 1 .. Len(c)
      BY <1>2, <1>3
    <3> QED
      BY <1>3, <2>2, <3>1
  <2> QED
    BY <2>1, <2>2
<1> QED
  BY <1>6, <1>7, <1>8, Zenon DEF ReqDone, c

\* Only the order, the numbers and the parts matter.
LEMMA ReqDoneSame ==
  ASSUME NEW s, NEW t, NEW b, NEW ids, Len(t) = Len(s),
         \A i \in 1 .. Len(s) : t[i].msg.id = s[i].msg.id /\ t[i].part = s[i].part,
         ReqDone(s, b, ids)
  PROVE  ReqDone(t, b, ids)
<1>1. ASSUME NEW i \in 1 .. Len(t), NEW j \in 1 .. Len(t),
             i < j, t[i].msg.id > b, t[j].msg.id > b
      PROVE  2 * t[i].msg.id + t[i].part < 2 * t[j].msg.id + t[j].part
  <2>1. /\ t[i].msg.id = s[i].msg.id /\ t[i].part = s[i].part /\ i \in 1 .. Len(s)
        /\ t[j].msg.id = s[j].msg.id /\ t[j].part = s[j].part /\ j \in 1 .. Len(s)
    OBVIOUS
  <2>2. 2 * s[i].msg.id + s[i].part < 2 * s[j].msg.id + s[j].part
    BY <1>1, <2>1 DEF ReqDone
  <2> QED
    BY <2>1, <2>2
<1>2. \A i \in 1 .. Len(t) : t[i].msg.id > b => t[i].msg.id \in ids
  BY DEF ReqDone
<1>3. \A id \in ids, p \in {1, 2} :
        \E i \in 1 .. Len(t) : t[i].msg.id = id /\ t[i].part = p
  BY SMTT(30) DEF ReqDone
<1> QED
  BY <1>1, <1>2, <1>3, SMTT(40) DEF ReqDone

\* A request is taken out of the stream.
LEMMA ReqDoneRemove ==
  ASSUME NEW n \in Nat, NEW s \in Seq(Req(n)), NEW t \in Seq(Req(n)), NEW b \in Nat, NEW ids,
         NEW p \in Nat, p + 2 <= Len(s), Len(t) = Len(s) - 2,
         s[p + 1].part = 1, s[p + 2].part = 2, s[p + 2].msg.id = s[p + 1].msg.id,
         \A i \in 1 .. p : t[i] = s[i],
         \A i \in p + 1 .. Len(t) : t[i] = s[i + 2],
         ReqDone(s, b, ids)
  PROVE  ReqDone(t, b, ids \ {s[p + 1].msg.id})
<1> DEFINE key(u) == 2 * u.msg.id + u.part
           at_(i) == IF i <= p THEN i ELSE i + 2
           x == s[p + 1].msg.id
<1>0. Len(s) \in Nat /\ Len(t) \in Nat
  OBVIOUS
<1>1. \A i \in 1 .. Len(t) : at_(i) \in 1 .. Len(s) /\ t[i] = s[at_(i)]
  BY <1>0
<1>2. \A i \in 1 .. Len(t) : at_(i) # p + 1 /\ at_(i) # p + 2
  BY <1>0
<1>3. \A i, j \in 1 .. Len(t) : i < j => at_(i) < at_(j)
  BY <1>0
<1>4. \A k \in 1 .. Len(s) : k # p + 1 /\ k # p + 2 => \E i \in 1 .. Len(t) : at_(i) = k
  <2>1. ASSUME NEW k \in 1 .. Len(s), k # p + 1, k # p + 2
        PROVE  \E i \in 1 .. Len(t) : at_(i) = k
    <3>1. CASE k <= p
      <4>1. k \in 1 .. Len(t) /\ at_(k) = k
        BY <1>0, <3>1
      <4> QED
        BY <4>1
    <3>2. CASE ~(k <= p)
      <4>1. k - 2 \in 1 .. Len(t) /\ at_(k - 2) = k
        BY <1>0, <2>1, <3>2
      <4> QED
        BY <4>1, Zenon
    <3> QED
      BY <3>1, <3>2
  <2> QED
    BY <2>1
<1>5. \A i \in 1 .. Len(s) : s[i].msg.id \in Nat /\ s[i].part \in {1, 2}
  <2>1. \A i \in 1 .. Len(s) : s[i] \in Req(n)
    BY Element
  <2> QED
    BY <2>1, SMTT(40) DEF Req, ReqMsg
<1> HIDE DEF at_
<1>6. ASSUME NEW i \in 1 .. Len(t), NEW j \in 1 .. Len(t), i < j, t[i].msg.id > b, t[j].msg.id > b
      PROVE  key(t[i]) < key(t[j])
  <2>1. at_(i) < at_(j) /\ at_(i) \in 1 .. Len(s) /\ at_(j) \in 1 .. Len(s)
    BY <1>1, <1>3, <1>6, SMTT(40)
  <2>2. t[i] = s[at_(i)] /\ t[j] = s[at_(j)]
    BY <1>1
  <2>3. s[at_(i)].msg.id > b /\ s[at_(j)].msg.id > b
    BY <1>6, <2>2
  <2>4. key(s[at_(i)]) < key(s[at_(j)])
    BY <2>1, <2>3, Zenon DEF ReqDone
  <2> QED
    BY <2>2, <2>4
<1>7. ASSUME NEW i \in 1 .. Len(t), t[i].msg.id > b PROVE t[i].msg.id \in ids \ {x}
  <2> DEFINE k == at_(i)
  <2>1. k \in 1 .. Len(s) /\ t[i] = s[k] /\ k # p + 1 /\ k # p + 2
    BY <1>1, <1>2
  <2> HIDE DEF k
  <2>2. s[k].msg.id \in ids
    BY <1>7, <2>1 DEF ReqDone
  <2>3. ASSUME s[k].msg.id = x PROVE FALSE
    <3>1. PICK q \in {p + 1, p + 2} : s[q].part = s[k].part
      BY <1>5, <2>1, Zenon
    <3>2. q \in 1 .. Len(s) /\ q # k /\ q \in Int /\ k \in Int
      BY <1>0, <2>1
    <3>3. s[q].msg.id = s[k].msg.id
      BY <2>3, SMTT(40)
    <3>4. key(s[q]) = key(s[k]) /\ key(s[k]) \in Int
      <4>1. s[k].msg.id \in Nat /\ s[k].part \in Nat
        BY <1>5, <2>1, SMTT(40)
      <4>2. key(s[k]) \in Int
        BY <4>1, KeyInt, Zenon
      <4> QED
        BY <3>1, <3>3, <4>2
    <3>5. s[q].msg.id > b /\ s[k].msg.id > b
      BY <1>7, <2>1, <3>3
    <3>6. q < k => key(s[q]) < key(s[k])
      BY <2>1, <3>2, <3>5, SMTT(40) DEF ReqDone
    <3>7. k < q => key(s[k]) < key(s[q])
      BY <2>1, <3>2, <3>5, Zenon DEF ReqDone
    <3> HIDE DEF key
    <3> QED
      BY <3>2, <3>4, <3>6, <3>7
  <2> QED
    BY <2>1, <2>2, <2>3, Zenon
<1>8. ASSUME NEW id \in ids \ {x}, NEW r \in {1, 2}
      PROVE  \E i \in 1 .. Len(t) : t[i].msg.id = id /\ t[i].part = r
  <2>1. PICK k \in 1 .. Len(s) : s[k].msg.id = id /\ s[k].part = r
    BY Zenon DEF ReqDone
  <2>2. k # p + 1 /\ k # p + 2
    BY <2>1
  <2>3. PICK i \in 1 .. Len(t) : at_(i) = k
    BY <1>4, <2>2
  <2> QED
    BY <1>1, <2>1, <2>3, Zenon
<1> QED
  BY <1>6, <1>7, <1>8, SMTT(40) DEF ReqDone
-----------------------------------------------------------------------------
(* Types *)

\* The halves of a request.
LEMMA ReqParts ==
  ASSUME NEW n, NEW m \in ReqMsg(n)
  PROVE  /\ [msg |-> m, part |-> 1] \in Req(n) /\ [msg |-> m, part |-> 2] \in Req(n)
         /\ Parts(m) \in Seq(Req(n)) /\ Len(Parts(m)) = 2
<1>1. [msg |-> m, part |-> 1] \in Req(n) /\ [msg |-> m, part |-> 2] \in Req(n)
  BY DEF Req
<1> QED
  BY <1>1, Halves

\* The halves of an answer.
LEMMA AnsParts ==
  ASSUME NEW n, NEW m \in AnsMsg(n)
  PROVE  /\ [msg |-> m, part |-> 1] \in Ans(n) /\ [msg |-> m, part |-> 2] \in Ans(n)
         /\ Parts(m) \in Seq(Ans(n)) /\ Len(Parts(m)) = 2
<1>1. [msg |-> m, part |-> 1] \in Ans(n) /\ [msg |-> m, part |-> 2] \in Ans(n)
  BY DEF Ans
<1> QED
  BY <1>1, Halves

\* One more request.
LEMMA Grows ==
  ASSUME NEW n \in Nat
  PROVE  /\ \A s \in Seq(Req(n)) : s \in Seq(Req(n + 1))
         /\ \A s \in Seq(Ans(n)) : s \in Seq(Ans(n + 1))
<1>1. 0 .. n \subseteq 0 .. n + 1
  OBVIOUS
<1>2. Req(n) \subseteq Req(n + 1) /\ Ans(n) \subseteq Ans(n + 1)
  BY <1>1 DEF Req, Ans, ReqMsg, AnsMsg
<1> QED
  BY <1>2

\* The elements of a stream of requests and of a stream of answers.
LEMMA ReqElement ==
  ASSUME NEW n, NEW s \in Seq(Req(n)), NEW i \in 1 .. Len(s)
  PROVE  s[i].msg \in ReqMsg(n) /\ s[i].part \in {1, 2}
<1>1. s[i] \in Req(n)
  BY Element
<1> QED
  BY <1>1 DEF Req

\* An element of a stream of answers.
LEMMA AnsElement ==
  ASSUME NEW n, NEW s \in Seq(Ans(n)), NEW i \in 1 .. Len(s)
  PROVE  s[i].msg \in AnsMsg(n) /\ s[i].part \in {1, 2}
<1>1. s[i] \in Ans(n)
  BY Element
<1> QED
  BY <1>1 DEF Ans

\* What the server says to a request: a result unless it is Sync, and ReadyForQuery
\* unless it is Parse.
Result(m, r) ==
  m \in AnsMsg(sends) /\ m.kind \in {"ok", "error"} /\ m.ans = r.id
ReadyFor(m, r) ==
  m \in AnsMsg(sends) /\ m.kind = "ready" /\ m.ans = r.id /\ (m.idle <=> tx' = "idle")

\* What the server appends when it processes a request.
LEMMA AnswerStep ==
  ASSUME Types, ServerAnswers
  PROVE  /\ served + 2 <= Len(toServer)
         /\ Request \in ReqMsg(sends) /\ Request.kind # "terminate"
         /\ \/ \E m : /\ no' = no + 1 /\ m.no = no + 1 /\ sNet' = sNet \o Parts(m)
                       /\ \/ Request.kind = "sync" /\ ReadyFor(m, Request)
                          \/ Request.kind = "parse" /\ Result(m, Request)
            \/ \E m, z : /\ Request.kind \notin {"sync", "parse"}
                          /\ no' = no + 2 /\ m.no = no + 1 /\ z.no = no + 2
                          /\ Result(m, Request) /\ ReadyFor(z, Request)
                          /\ sNet' = sNet \o Parts(m) \o Parts(z)
<1> DEFINE r == Request
           o == IF Fails(r) THEN "error" ELSE "ok"
           idle == After(r) = "idle"
           one(k) == [no |-> no + 1, kind |-> k, idle |-> idle, ans |-> r.id]
           two == [no |-> no + 2, kind |-> "ready", idle |-> idle, ans |-> r.id]
<1>1. served + 2 <= Len(toServer) /\ r.kind # "terminate" /\ tx' = After(r)
  BY SMTT(40) DEF ServerAnswers, Ready
<1>2. r \in ReqMsg(sends)
  <2>1. served + 1 \in 1 .. Len(toServer) /\ toServer \in Seq(Req(sends))
    BY <1>1 DEF Types
  <2> QED
    BY <2>1, ReqElement DEF Request
<1>3. r.id \in 0 .. sends /\ no + 1 \in Nat /\ no + 2 \in Nat /\ idle \in BOOLEAN
  BY <1>2 DEF Types, ReqMsg
<1>4. /\ \A k \in AnsKinds : one(k) \in AnsMsg(sends)
      /\ two \in AnsMsg(sends) /\ o \in {"ok", "error"}
  BY <1>3 DEF AnsMsg, AnsKinds
<1>5. CASE r.kind = "sync"
  <2>1. no' = no + 1 /\ sNet' = sNet \o Parts(one("ready"))
    BY <1>5 DEF ServerAnswers
  <2>2. ReadyFor(one("ready"), r)
    BY <1>1, <1>4, Zenon DEF ReadyFor, AnsKinds
  <2> HIDE DEF r
  <2> QED
    BY <1>1, <1>2, <1>5, <2>1, <2>2, Zenon DEF r
<1>6. CASE r.kind = "parse"
  <2>1. no' = no + 1 /\ sNet' = sNet \o Parts(one(o))
    BY <1>6 DEF ServerAnswers
  <2>2. Result(one(o), r)
    BY <1>1, <1>4 DEF Result, AnsKinds
  <2> QED
    BY <1>1, <1>2, <1>6, <2>1, <2>2, Zenon
<1>7. CASE r.kind \notin {"sync", "parse"}
  <2>1. no' = no + 2 /\ sNet' = sNet \o Parts(one(o)) \o Parts(two)
    <3> DEFINE kinds == <<o>> \o <<"ready">>
               msg(i) == [no |-> no + i, kind |-> kinds[i], idle |-> idle, ans |-> r.id]
    <3>1. Len(kinds) = 2 /\ kinds[1] = o /\ kinds[2] = "ready"
      OBVIOUS
    <3>2. r.kind # "sync" /\ r.kind # "parse"
      BY <1>7
    <3>3. /\ no' = no + Len(kinds)
          /\ sNet' = IF Len(kinds) = 1 THEN sNet \o Parts(msg(1))
                                       ELSE sNet \o Parts(msg(1)) \o Parts(msg(2))
      BY <3>2, Zenon DEF ServerAnswers
    <3>4. msg(1) = one(o) /\ msg(2) = two
      BY <3>1
    <3> HIDE DEF kinds, msg
    <3> QED
      BY <3>1, <3>3, <3>4, Zenon
  <2>2. Result(one(o), r) /\ ReadyFor(two, r)
    BY <1>1, <1>4, Zenon DEF Result, ReadyFor, AnsKinds
  <2> QED
    BY <1>1, <1>2, <1>7, <2>1, <2>2, Zenon
<1> QED
  BY <1>5, <1>6, <1>7, Zenon
\* A message of the client in the slow loop: where it goes, and the notice.
LEMMA ClientMessage ==
  ASSUME Types, SlowClientMessage
  PROVE  LET m == client_buf[1].msg
             v == Verdict(m) IN
         /\ m \in ReqMsg(sends)
         /\ IF v = "dropped"
            THEN m.kind = "latin" /\ toServer' = toServer
            ELSE /\ [m EXCEPT !.via = v] \in ReqMsg(sends)
                 /\ toServer' = toServer \o Parts([m EXCEPT !.via = v])
         /\ toServer' \in Seq(Req(sends)) /\ Len(toServer) <= Len(toServer')
<1> DEFINE m == client_buf[1].msg
           v == Verdict(m)
<1>1. m \in ReqMsg(sends)
  <2>1. 1 \in 1 .. Len(client_buf) /\ client_buf \in Seq(Req(sends))
    BY DEF SlowClientMessage, Whole, Types
  <2> QED
    BY <2>1, ReqElement
<1>2. v \in {"other", "under", "shrink", "dropped", "extended", "wrapped"}
  BY DEF Verdict
<1>3. v = "dropped" => m.kind = "latin"
  BY DEF Verdict
<1>4. toServer' = IF v = "dropped" THEN toServer ELSE toServer \o Parts([m EXCEPT !.via = v])
  BY DEF SlowClientMessage
<1> HIDE DEF v
<1>5. v # "dropped" => [m EXCEPT !.via = v] \in ReqMsg(sends)
  BY <1>1, <1>2 DEF ReqMsg, Vias
<1>6. toServer' \in Seq(Req(sends)) /\ Len(toServer) <= Len(toServer')
  <2>1. CASE v = "dropped"
    BY <1>4, <2>1 DEF Types
  <2>2. CASE v # "dropped"
    <3>1. Parts([m EXCEPT !.via = v]) \in Seq(Req(sends)) /\ toServer \in Seq(Req(sends))
      BY <1>5, <2>2, ReqParts, Zenon DEF Types
    <3> QED
      BY <1>4, <2>2, <3>1, Joined
  <2> QED
    BY <2>1, <2>2
<1> QED
  BY <1>1, <1>3, <1>4, <1>5, <1>6 DEF v

\* The proxy's notice is a message of two halves.
LEMMA NoticeType ==
  ASSUME NEW n \in Nat
  PROVE  Notice \in Seq(Ans(n)) /\ Len(Notice) = 2
<1>1. [no |-> 0, kind |-> "notice", idle |-> FALSE, ans |-> 0] \in AnsMsg(n)
  BY DEF AnsMsg, AnsKinds
<1> QED
  BY <1>1, AnsParts, Zenon DEF Notice

\* The slow loop appends nothing to what it forwards but its notice.
LEMMA NoticeStep ==
  ASSUME Types, SlowClientMessage
  PROVE  toClient' \in Seq(Ans(sends)) /\ (toClient' = toClient \/ toClient' = toClient \o Notice)
<1>1. toClient' = toClient \/ toClient' = toClient \o Notice
  BY DEF SlowClientMessage
<1>2. Notice \in Seq(Ans(sends)) /\ toClient \in Seq(Ans(sends))
  BY NoticeType DEF Types
<1> QED
  BY <1>1, <1>2, Joined, Zenon

\* DISCARD ALL is a request of two halves.
LEMMA DiscardType ==
  ASSUME NEW n \in Nat
  PROVE  DiscardAll \in Seq(Req(n)) /\ Len(DiscardAll) = 2
<1>1. [id |-> 0, kind |-> "discard", via |-> "reset"] \in ReqMsg(n)
  BY DEF ReqMsg, ReqKinds, Vias
<1> QED
  BY <1>1, ReqParts, Zenon DEF DiscardAll

\* A spoilt piece of the client's stream.
LEMMA GarbledType ==
  ASSUME NEW n, NEW s \in Seq(Req(n))
  PROVE  Garbled(s) \in Seq(Req(n)) /\ Len(Garbled(s)) = Len(s)
<1> DEFINE e(i) == [s[i] EXCEPT !.msg.via = "garbled"]
<1>1. ASSUME NEW i \in 1 .. Len(s) PROVE e(i) \in Req(n)
  <2>1. s[i] \in Req(n)
    BY Element
  <2> QED
    BY <2>1 DEF Req, ReqMsg, Vias
<1> HIDE DEF e
<1>2. Len(s) \in Nat /\ DOMAIN s = 1 .. Len(s)
  OBVIOUS
<1> DEFINE t == [i \in 1 .. Len(s) |-> e(i)]
<1>3. t \in Seq(Req(n)) /\ Len(t) = Len(s)
  BY <1>1, <1>2
<1>4. Garbled(s) = t
  BY <1>2, Zenon DEF Garbled, e
<1> QED
  BY <1>3, <1>4

\* A piece that the slow loop cuts wrongly out of the client's stream.
LEMMA MiscutToServer ==
  ASSUME Types, NEW n \in 0 .. Len(client_buf), MiscutClient(n)
  PROVE  /\ toServer' \in Seq(Req(sends)) /\ Len(toServer) <= Len(toServer')
         /\ client_buf' = From(client_buf, n) /\ client_buf' \in Seq(Req(sends))
         /\ toClient' = toClient \/ toClient' = toClient \o Notice
         /\ toClient' \in Seq(Ans(sends))
         /\ mode = "slow" /\ mode' = "slow" /\ misread' = misread \cup {"client"}
         /\ UNCHANGED <<clientVars, serverVars, gaugeVars, sNet, at, server_buf, pending, skip,
                        dropped, missed>>
<1> DEFINE h == SubSeq(client_buf, 1, n)
<1>1. /\ toServer \in Seq(Req(sends)) /\ client_buf \in Seq(Req(sends))
      /\ toClient \in Seq(Ans(sends)) /\ sends \in Nat
  BY DEF Types
<1>2. /\ client_buf' = From(client_buf, n)
      /\ toServer' = toServer \o h \/ toServer' = toServer \o Garbled(h) \/ toServer' = toServer
      /\ toClient' = toClient \/ toClient' = toClient \o Notice
      /\ misread' = misread \cup {"client"}
      /\ UNCHANGED <<clientVars, serverVars, gaugeVars, sNet, mode, at, server_buf, pending, skip,
                     dropped, missed>>
  BY Zenon DEF MiscutClient
<1>3. mode = "slow"
  BY DEF MiscutClient
<1>4. h \in Seq(Req(sends)) /\ From(client_buf, n) \in Seq(Req(sends))
  BY <1>1, Taken DEF From
<1> HIDE DEF h
<1>5. Garbled(h) \in Seq(Req(sends))
  BY <1>4, GarbledType
<1>6. toServer' \in Seq(Req(sends)) /\ Len(toServer) <= Len(toServer')
  <2>1. CASE toServer' = toServer \o h
    BY <1>1, <1>4, <2>1, Joined
  <2>2. CASE toServer' = toServer \o Garbled(h)
    BY <1>1, <1>5, <2>2, Joined
  <2>3. CASE toServer' = toServer
    BY <1>1, <2>3
  <2> QED
    BY <1>2, <2>1, <2>2, <2>3
<1>7. toClient' \in Seq(Ans(sends))
  <2>1. Notice \in Seq(Ans(sends))
    BY <1>1, NoticeType
  <2> QED
    BY <1>1, <1>2, <2>1, Joined, Zenon
<1> QED
  BY <1>2, <1>3, <1>4, <1>6, <1>7, Zenon

\* A piece that the slow loop cuts wrongly out of the server's stream.
LEMMA MiscutToClient ==
  ASSUME Types, NEW n \in 0 .. Len(server_buf), MiscutServer(n)
  PROVE  /\ toClient' = toClient \o SubSeq(server_buf, 1, n) /\ toClient' \in Seq(Ans(sends))
         /\ server_buf' = From(server_buf, n) /\ server_buf' \in Seq(Ans(sends))
         /\ mode = "slow" /\ mode' \in {"fast", "slow"} /\ misread' = misread \cup {"server"}
         /\ UNCHANGED <<clientVars, serverVars, gaugeVars, sNet, toServer, client_buf, pending,
                        injected, skip, dropped, missed>>
<1> DEFINE h == SubSeq(server_buf, 1, n)
<1>1. server_buf \in Seq(Ans(sends)) /\ toClient \in Seq(Ans(sends))
  BY DEF Types
<1>2. /\ server_buf' = From(server_buf, n) /\ toClient' = toClient \o h
      /\ mode = "slow" /\ mode' \in {"fast", "slow"} /\ misread' = misread \cup {"server"}
      /\ UNCHANGED <<clientVars, serverVars, gaugeVars, sNet, toServer, client_buf, pending,
                     injected, skip, dropped, missed>>
  BY Zenon DEF MiscutServer
<1>3. h \in Seq(Ans(sends)) /\ From(server_buf, n) \in Seq(Ans(sends))
  BY <1>1, Taken DEF From
<1> HIDE DEF h
<1>4. toClient \o h \in Seq(Ans(sends))
  BY <1>1, <1>3, Joined
<1> QED
  BY <1>2, <1>3, <1>4, Zenon DEF h

\* A piece that reset_connection cuts wrongly.
LEMMA MiscutOfReset ==
  ASSUME Types, NEW n \in 0 .. Len(server_buf), MiscutReset(n)
  PROVE  /\ server_buf' = From(server_buf, n) \/ server_buf' = <<>>
         /\ server_buf' \in Seq(Ans(sends))
         /\ mode = "reset" /\ mode' \in {"reset", "pooled", "closed"}
         /\ misread' = misread \cup {"server"}
         /\ UNCHANGED <<clientVars, serverVars, gaugeVars, sNet, toServer, toClient, client_buf,
                        pending, injected, skip, dropped, missed>>
<1>1. server_buf \in Seq(Ans(sends))
  BY DEF Types
<1>2. /\ server_buf' = From(server_buf, n) \/ server_buf' = <<>>
      /\ mode = "reset" /\ mode' \in {"reset", "pooled", "closed"}
      /\ misread' = misread \cup {"server"}
      /\ UNCHANGED <<clientVars, serverVars, gaugeVars, sNet, toServer, toClient, client_buf,
                     pending, injected, skip, dropped, missed>>
  BY Zenon DEF MiscutReset
<1>3. From(server_buf, n) \in Seq(Ans(sends)) /\ <<>> \in Seq(Ans(sends))
  BY <1>1, Taken DEF From
<1> QED
  BY <1>2, <1>3, Zenon

\* Every step keeps the types.
LEMMA TypesStep ==
  ASSUME Types, [Next]_vars
  PROVE  Types'
<1>1. ASSUME NEW k \in Kinds, ClientSends(k) PROVE Types'
  <2> DEFINE m == [id |-> sends + 1, kind |-> k, via |-> "client"]
  <2>1. /\ sends' = sends + 1 /\ sends' \in Nat /\ base \in 0 .. sends'
        /\ cNet' = cNet \o Parts(m)
    BY <1>1 DEF ClientSends, Types
  <2>2. m \in ReqMsg(sends')
    BY <2>1, ProxyAssumption DEF ReqMsg, ReqKinds, Vias, Types
  <2>3. Parts(m) \in Seq(Req(sends')) /\ cNet \in Seq(Req(sends'))
    BY <2>1, <2>2, ReqParts, Grows, Zenon DEF Types
  <2>4. cNet' \in Seq(Req(sends'))
    BY <2>1, <2>3, Joined
  <2>5. /\ client_buf \in Seq(Req(sends')) /\ toServer \in Seq(Req(sends'))
        /\ sNet \in Seq(Ans(sends')) /\ server_buf \in Seq(Ans(sends'))
        /\ toClient \in Seq(Ans(sends'))
    BY <2>1, Grows DEF Types
  <2>6. dropped \subseteq ReqMsg(sends')
    <3>1. 0 .. sends \subseteq 0 .. sends'
      BY <2>1 DEF Types
    <3> QED
      BY <3>1 DEF Types, ReqMsg
  <2> QED
    BY <1>1, <2>1, <2>4, <2>5, <2>6 DEF ClientSends, clientVars, serverVars, gaugeVars,
       loopVars, Types
<1>2. ASSUME NEW n \in 0 .. Len(cNet), ClientCloses(n) PROVE Types'
  <2>1. cNet' \in Seq(Req(sends))
    BY <1>2, Taken, Zenon DEF ClientCloses, Types
  <2> QED
    BY <1>2, <2>1 DEF ClientCloses, clientVars, serverVars, gaugeVars, loopVars, Types
<1>3. CASE ServerAnswers
  <2>1. sNet' \in Seq(Ans(sends)) /\ no' \in Nat
    <3>1. CASE \E m : no' = no + 1 /\ sNet' = sNet \o Parts(m) /\ m \in AnsMsg(sends)
      <4>1. PICK m \in AnsMsg(sends) : no' = no + 1 /\ sNet' = sNet \o Parts(m)
        BY <3>1
      <4>2. Parts(m) \in Seq(Ans(sends)) /\ sNet \in Seq(Ans(sends))
        BY AnsParts, Zenon DEF Types
      <4> QED
        BY <4>1, <4>2, Joined DEF Types
    <3>2. CASE \E m, z : /\ no' = no + 2 /\ m \in AnsMsg(sends) /\ z \in AnsMsg(sends)
                         /\ sNet' = sNet \o Parts(m) \o Parts(z)
      <4>1. PICK m \in AnsMsg(sends), z \in AnsMsg(sends) :
              no' = no + 2 /\ sNet' = sNet \o Parts(m) \o Parts(z)
        BY <3>2, Zenon
      <4>2. /\ Parts(m) \in Seq(Ans(sends)) /\ Parts(z) \in Seq(Ans(sends))
            /\ sNet \in Seq(Ans(sends))
        BY AnsParts, Zenon DEF Types
      <4>3. sNet \o Parts(m) \in Seq(Ans(sends))
        BY <4>2, Joined
      <4> QED
        BY <4>1, <4>2, <4>3, Joined DEF Types
    <3> QED
      BY <1>3, AnswerStep, <3>1, <3>2, Zenon DEF Result, ReadyFor
  <2>2. served' \in 0 .. Len(toServer)
    <3>1. served' = served + 2
      BY <1>3 DEF ServerAnswers
    <3>2. served + 2 <= Len(toServer)
      BY <1>3, AnswerStep
    <3> QED
      BY <3>1, <3>2 DEF Types
  <2> QED
    BY <1>3, <2>1, <2>2, SMTT(30) DEF ServerAnswers, clientVars, serverVars, gaugeVars,
       loopVars, Types
<1>4. CASE ServerCloses
  BY <1>4 DEF ServerCloses, clientVars, serverVars, gaugeVars, loopVars, Types
<1>5. CASE MonitorStep
  BY <1>5 DEF MonitorStep, clientVars, serverVars, gaugeVars, loopVars, Types
<1>6. ASSUME NEW n \in 1 .. Len(cNet), FastClientRead(n) PROVE Types'
  <2>0. n \in 0 .. Len(cNet) /\ cNet \in Seq(Req(sends))
    BY DEF Types
  <2>1. cNet' \in Seq(Req(sends)) /\ SubSeq(cNet, 1, n) \in Seq(Req(sends))
    BY <1>6, <2>0, Rest, Taken DEF FastClientRead
  <2>2. toServer \o client_buf \in Seq(Req(sends)) /\ Len(toServer) <= Len(toServer \o client_buf)
    BY Joined DEF Types
  <2>3. toServer' \in Seq(Req(sends)) /\ Len(toServer) <= Len(toServer')
    BY <1>6, <2>1, <2>2, Joined, SMTT(40) DEF FastClientRead, Types
  <2>4. served \in 0 .. Len(toServer')
    BY <2>3 DEF Types
  <2> QED
    BY <1>6, <2>1, <2>3, <2>4, SMTT(30) DEF FastClientRead, clientVars, serverVars, gaugeVars,
       loopVars, Types
<1>7. ASSUME NEW n \in 1 .. Len(cNet), SlowClientRead(n) PROVE Types'
  <2>0. n \in 0 .. Len(cNet) /\ cNet \in Seq(Req(sends)) /\ client_buf \in Seq(Req(sends))
    BY DEF Types
  <2>1. cNet' \in Seq(Req(sends)) /\ SubSeq(cNet, 1, n) \in Seq(Req(sends))
    BY <1>7, <2>0, Rest, Taken DEF SlowClientRead
  <2>2. client_buf' \in Seq(Req(sends))
    BY <1>7, <2>0, <2>1, Joined, SMTT(30) DEF SlowClientRead
  <2> QED
    BY <1>7, <2>1, <2>2, SMTT(30) DEF SlowClientRead, clientVars, serverVars, gaugeVars,
       loopVars, Types
<1>8. ASSUME NEW n \in 1 .. Len(sNet), FastServerRead(n) PROVE Types'
  <2>0. n \in 0 .. Len(sNet) /\ sNet \in Seq(Ans(sends)) /\ server_buf \in Seq(Ans(sends))
    BY DEF Types
  <2>1. sNet' \in Seq(Ans(sends)) /\ SubSeq(sNet, 1, n) \in Seq(Ans(sends))
    BY <1>8, <2>0, Rest, Taken, Zenon DEF FastServerRead
  <2>2. server_buf \o SubSeq(sNet, 1, n) \in Seq(Ans(sends)) /\ toClient \in Seq(Ans(sends))
    BY <2>0, <2>1, Joined DEF Types
  <2>3. toClient' \in Seq(Ans(sends))
    BY <1>8, <2>2, Joined DEF FastServerRead
  <2>4. mode' \in {"fast", "slow"}
    BY <1>8 DEF FastServerRead
  <2> QED
    BY <1>8, <2>1, <2>3, <2>4, SMTT(40) DEF FastServerRead, clientVars, serverVars, gaugeVars,
       loopVars, Types
<1>9. ASSUME NEW n \in 1 .. Len(sNet), ServerRead(n) PROVE Types'
  <2>0. n \in 0 .. Len(sNet) /\ sNet \in Seq(Ans(sends)) /\ server_buf \in Seq(Ans(sends))
    BY DEF Types
  <2>1. sNet' \in Seq(Ans(sends)) /\ SubSeq(sNet, 1, n) \in Seq(Ans(sends))
    BY <1>9, <2>0, Rest, Taken DEF ServerRead
  <2>2. server_buf' \in Seq(Ans(sends))
    BY <1>9, <2>0, <2>1, Joined DEF ServerRead
  <2> QED
    BY <1>9, <2>1, <2>2 DEF ServerRead, clientVars, serverVars, gaugeVars, loopVars, Types
<1>10. CASE SlowClientMessage
  <2>1. 2 \in 0 .. Len(client_buf) /\ client_buf \in Seq(Req(sends))
    BY <1>10 DEF SlowClientMessage, Whole, Types
  <2>2. client_buf' \in Seq(Req(sends))
    BY <1>10, <2>1, Rest DEF SlowClientMessage
  <2>3. toServer' \in Seq(Req(sends)) /\ served \in 0 .. Len(toServer')
    BY <1>10, ClientMessage DEF Types
  <2>4. toClient' \in Seq(Ans(sends))
    BY <1>10, NoticeStep
  <2>5. dropped' \subseteq ReqMsg(sends)
    <3>1. dropped' = dropped \/ dropped' = dropped \cup {client_buf[1].msg}
      BY <1>10 DEF SlowClientMessage
    <3>2. client_buf[1].msg \in ReqMsg(sends)
      BY <1>10, ClientMessage, Zenon
    <3> QED
      BY <3>1, <3>2 DEF Types
  <2> QED
    BY <1>10, <2>2, <2>3, <2>4, <2>5 DEF SlowClientMessage, clientVars, serverVars, gaugeVars,
       loopVars, Types
<1>11. CASE SlowServerMessage
  <2>1. 2 \in 0 .. Len(server_buf) /\ 1 \in 1 .. Len(server_buf) /\ server_buf \in Seq(Ans(sends))
    BY <1>11 DEF SlowServerMessage, Whole, Types
  <2>2. server_buf' \in Seq(Ans(sends))
    BY <1>11, <2>1, Rest DEF SlowServerMessage
  <2>3. server_buf[1].msg \in AnsMsg(sends)
    BY <2>1, AnsElement
  <2>4. Parts(server_buf[1].msg) \in Seq(Ans(sends)) /\ toClient \in Seq(Ans(sends))
    BY <2>3, AnsParts, Zenon DEF Types
  <2>5. toClient' \in Seq(Ans(sends))
    BY <1>11, <2>4, Joined, SMTT(40) DEF SlowServerMessage
  <2>6. mode' \in {"fast", "slow"}
    BY <1>11 DEF SlowServerMessage
  <2> QED
    BY <1>11, <2>2, <2>5, <2>6, Zenon DEF SlowServerMessage, clientVars, serverVars,
       gaugeVars, loopVars, Types
<1>12. CASE ResetMessage
  <2>1. 2 \in 0 .. Len(server_buf) /\ server_buf \in Seq(Ans(sends))
    BY <1>12 DEF ResetMessage, Whole, Types
  <2>2. server_buf' \in Seq(Ans(sends))
    <3>1. From(server_buf, 2) \in Seq(Ans(sends)) /\ <<>> \in Seq(Ans(sends))
      BY <2>1, Rest
    <3>2. server_buf' = From(server_buf, 2) \/ server_buf' = <<>>
      BY <1>12 DEF ResetMessage
    <3> QED
      BY <3>1, <3>2, Zenon
  <2>3. mode' \in {"pooled", "closed", "reset"}
    BY <1>12 DEF ResetMessage, ResetVerdict
  <2> QED
    BY <1>12, <2>2, <2>3 DEF ResetMessage, clientVars, serverVars, gaugeVars, loopVars, Types
<1>13. CASE NoMessage
  BY <1>13 DEF NoMessage, clientVars, serverVars, gaugeVars, loopVars, Types
<1>14. CASE Misframe
  BY <1>14 DEF Misframe, clientVars, serverVars, gaugeVars, loopVars, Types
<1>20. ASSUME NEW n \in 0 .. Len(client_buf), MiscutClient(n) PROVE Types'
  <2>1. served \in 0 .. Len(toServer')
    BY <1>20, MiscutToServer DEF Types
  <2> QED
    BY <1>20, <2>1, MiscutToServer, SMTT(30) DEF clientVars, serverVars, Types
<1>21. ASSUME NEW n \in 0 .. Len(server_buf), MiscutServer(n) PROVE Types'
  BY <1>21, MiscutToClient, SMTT(30) DEF clientVars, serverVars, Types
<1>22. ASSUME NEW n \in 0 .. Len(server_buf), MiscutReset(n) PROVE Types'
  BY <1>22, MiscutOfReset, SMTT(30) DEF clientVars, serverVars, Types
<1>15. CASE EndSession
  <2>1. toServer' \in Seq(Req(sends)) /\ Len(toServer) <= Len(toServer')
    <3>1. DiscardAll \in Seq(Req(sends)) /\ toServer \in Seq(Req(sends))
      BY DiscardType DEF Types
    <3> QED
      BY <1>15, <3>1, Joined DEF EndSession
  <2>2. served \in 0 .. Len(toServer')
    BY <2>1 DEF Types
  <2> QED
    BY <1>15, <2>1, <2>2 DEF EndSession, LeaveLoops, clientVars, serverVars, gaugeVars,
       loopVars, Types
<1>16. CASE ResetEof
  BY <1>16 DEF ResetEof, clientVars, serverVars, gaugeVars, loopVars, Types
<1>17. CASE Drop
  BY <1>17 DEF Drop, LeaveLoops, clientVars, serverVars, gaugeVars, loopVars, Types
<1>18. CASE Reuse
  <2>1. toServer' \in Seq(Req(sends)) /\ served' = 0
    BY <1>18, Rest DEF Reuse, Types
  <2>2. served' \in 0 .. Len(toServer')
    BY <2>1
  <2> QED
    BY <1>18, <2>1, <2>2 DEF Reuse, clientVars, serverVars, gaugeVars, loopVars, Types
<1>19. ASSUME UNCHANGED vars PROVE Types'
  BY <1>19 DEF vars, clientVars, serverVars, gaugeVars, loopVars, Types
<1> QED
  BY <1>1, <1>2, <1>3, <1>4, <1>5, <1>6, <1>7, <1>8, <1>9, <1>10, <1>11, <1>12, <1>13, <1>14,
     <1>15, <1>16, <1>17, <1>18, <1>19, <1>20, <1>21, <1>22, SMTT(30) DEF Next, Loops
-----------------------------------------------------------------------------
(* What a step does to the streams *)

\* A read.
LEMMA ReadStream ==
  ASSUME NEW S, NEW a \in Seq(S), NEW b \in Seq(S), NEW n \in 0 .. Len(b)
  PROVE  /\ a \o SubSeq(b, 1, n) \in Seq(S) /\ From(b, n) \in Seq(S)
         /\ (a \o SubSeq(b, 1, n)) \o From(b, n) = a \o b
<1>1. SubSeq(b, 1, n) \in Seq(S) /\ From(b, n) \in Seq(S)
  BY Taken DEF From
<1>2. a \o SubSeq(b, 1, n) \in Seq(S)
  BY <1>1, Joined
<1>3. (a \o SubSeq(b, 1, n)) \o From(b, n) = a \o b
  BY Moved, Zenon DEF From
<1> QED
  BY <1>1, <1>2, <1>3, Zenon

\* A message is taken from the front.
LEMMA TakeStream ==
  ASSUME NEW S, NEW a \in Seq(S), NEW b \in Seq(S), NEW n \in 0 .. Len(a)
  PROVE  /\ SubSeq(a, 1, n) \in Seq(S) /\ From(a, n) \in Seq(S) /\ From(a, n) \o b \in Seq(S)
         /\ SubSeq(a, 1, n) \o (From(a, n) \o b) = a \o b
<1>1. /\ SubSeq(a, 1, n) \in Seq(S) /\ From(a, n) \in Seq(S)
      /\ SubSeq(a, 1, n) \o From(a, n) = a
  BY Split, Taken, Zenon DEF From
<1> DEFINE x == SubSeq(a, 1, n)
           y == From(a, n)
<1> HIDE DEF x, y
<1>2. x \in Seq(S) /\ y \in Seq(S) /\ x \o y = a
  BY <1>1 DEF x, y
<1>3. y \o b \in Seq(S)
  BY <1>2, Joined
<1>4. (x \o y) \o b = x \o (y \o b)
  <2>1. x \in Seq(S) /\ y \in Seq(S) /\ b \in Seq(S)
    BY <1>2
  <2> QED
    BY <2>1, JoinThree, SMTT(40)
<1> QED
  BY <1>2, <1>3, <1>4, Zenon DEF x, y

\* Every step keeps Left: a session ends with all its buffers cleared.
LEMMA LeftStep ==
  ASSUME Types, Left, [Next]_vars
  PROVE  Left'
<1>1. ASSUME NEW k \in Kinds, ClientSends(k) PROVE Left'
  BY <1>1 DEF ClientSends, clientVars, serverVars, gaugeVars, loopVars, Left, Talking
<1>2. ASSUME NEW n \in 0 .. Len(cNet), ClientCloses(n) PROVE Left'
  BY <1>2, Zenon DEF ClientCloses, clientVars, serverVars, gaugeVars, loopVars, Left, Talking
<1>3. CASE ServerAnswers
  BY <1>3, SMTT(40) DEF ServerAnswers, clientVars, serverVars, gaugeVars, loopVars, Left, Talking
<1>4. CASE ServerCloses
  BY <1>4 DEF ServerCloses, clientVars, serverVars, gaugeVars, loopVars, Left, Talking
<1>5. CASE MonitorStep
  BY <1>5 DEF MonitorStep, clientVars, serverVars, gaugeVars, loopVars, Left, Talking
<1>6. ASSUME NEW n \in 1 .. Len(cNet), FastClientRead(n) PROVE Left'
  BY <1>6 DEF FastClientRead, clientVars, serverVars, gaugeVars, loopVars, Left, Talking
<1>7. ASSUME NEW n \in 1 .. Len(cNet), SlowClientRead(n) PROVE Left'
  BY <1>7, SMTT(30) DEF SlowClientRead, clientVars, serverVars, gaugeVars, loopVars, Left, Talking
<1>8. ASSUME NEW n \in 1 .. Len(sNet), FastServerRead(n) PROVE Left'
  BY <1>8, SMTT(40) DEF FastServerRead, clientVars, serverVars, gaugeVars, loopVars, Left, Talking
<1>9. ASSUME NEW n \in 1 .. Len(sNet), ServerRead(n) PROVE Left'
  BY <1>9 DEF ServerRead, clientVars, serverVars, gaugeVars, loopVars, Left, Talking
<1>10. CASE SlowClientMessage
  BY <1>10, SMTT(30) DEF SlowClientMessage, clientVars, serverVars, gaugeVars, loopVars, Left,
     Talking
<1>11. CASE SlowServerMessage
  BY <1>11, SMTT(40) DEF SlowServerMessage, clientVars, serverVars, gaugeVars, loopVars, Left,
     Talking
<1>12. CASE ResetMessage
  BY <1>12 DEF ResetMessage, clientVars, serverVars, gaugeVars, loopVars, Left, Talking
<1>13. CASE NoMessage
  BY <1>13 DEF NoMessage, clientVars, serverVars, gaugeVars, loopVars, Left, Talking
<1>14. CASE Misframe
  BY <1>14 DEF Misframe, clientVars, serverVars, gaugeVars, loopVars, Left, Talking
<1>20. ASSUME NEW n \in 0 .. Len(client_buf), MiscutClient(n) PROVE Left'
  BY <1>20, MiscutToServer, Zenon DEF Left
<1>21. ASSUME NEW n \in 0 .. Len(server_buf), MiscutServer(n) PROVE Left'
  BY <1>21, MiscutToClient, Zenon DEF Left
<1>22. ASSUME NEW n \in 0 .. Len(server_buf), MiscutReset(n) PROVE Left'
  BY <1>22, MiscutOfReset, Zenon DEF clientVars, Left
<1>15. CASE EndSession
  BY <1>15 DEF EndSession, LeaveLoops, clientVars, serverVars, gaugeVars, loopVars, Left
<1>16. CASE ResetEof
  BY <1>16 DEF ResetEof, clientVars, serverVars, gaugeVars, loopVars, Left, Talking
<1>17. CASE Drop
  BY <1>17 DEF Drop, LeaveLoops, clientVars, serverVars, gaugeVars, loopVars, Left
<1>18. CASE Reuse
  BY <1>18 DEF Reuse, clientVars, serverVars, gaugeVars, loopVars, Left, Talking
<1>19. ASSUME UNCHANGED vars PROVE Left'
  BY <1>19 DEF vars, clientVars, serverVars, gaugeVars, loopVars, Left
<1> QED
  BY <1>1, <1>2, <1>3, <1>4, <1>5, <1>6, <1>7, <1>8, <1>9, <1>10, <1>11, <1>12, <1>13, <1>14,
     <1>15, <1>16, <1>17, <1>18, <1>19, <1>20, <1>21, <1>22 DEF Next, Loops

\* The client's messages stay whole.
LEMMA ComingStep ==
  ASSUME Types, Left, Talking /\ (Polite \/ ~cClosed) => Framed(Coming), [Next]_vars
  PROVE  (Talking /\ (Polite \/ ~cClosed))' => Framed(Coming')
<1> SUFFICES ASSUME Talking', Polite \/ ~cClosed' PROVE Framed(Coming')
  OBVIOUS
<1>1. ASSUME NEW k \in Kinds, ClientSends(k) PROVE Framed(Coming')
  <2> DEFINE m == [id |-> sends + 1, kind |-> k, via |-> "client"]
  <2>1. /\ cNet' = cNet \o Parts(m) /\ client_buf' = client_buf
        /\ Talking /\ ~cClosed /\ sends' = sends + 1
    BY <1>1 DEF ClientSends, loopVars
  <2>2. m \in ReqMsg(sends')
    BY <2>1, ProxyAssumption DEF ReqMsg, ReqKinds, Vias, Types
  <2>3. /\ [msg |-> m, part |-> 1] \in Req(sends') /\ [msg |-> m, part |-> 2] \in Req(sends')
        /\ Parts(m) \in Seq(Req(sends'))
    BY <2>2, ReqParts
  <2>4. cNet \in Seq(Req(sends')) /\ client_buf \in Seq(Req(sends'))
    BY <2>1, Grows DEF Types
  <2> HIDE DEF m
  <2>5. Coming \in Seq(Req(sends'))
    BY <2>4, Joined DEF Coming
  <2>6. Coming' = Coming \o Parts(m)
    <3>1. /\ client_buf \in Seq(Req(sends')) /\ cNet \in Seq(Req(sends'))
          /\ Parts(m) \in Seq(Req(sends'))
      BY <2>3, <2>4
    <3>2. client_buf \o (cNet \o Parts(m)) = (client_buf \o cNet) \o Parts(m)
      BY <3>1, JoinThree, SMTT(40)
    <3> QED
      BY <2>1, <3>2 DEF Coming
  <2> QED
    BY <2>1, <2>3, <2>5, <2>6, FramedAppend
<1>2. ASSUME NEW n \in 0 .. Len(cNet), ClientCloses(n) PROVE Framed(Coming')
  <2>1. /\ Talking /\ ~cClosed /\ cClosed' /\ client_buf' = client_buf
        /\ cNet' = SubSeq(cNet, 1, n) /\ (Polite => n = Len(cNet))
    BY <1>2 DEF ClientCloses, loopVars
  <2>2. cNet' = cNet
    BY <2>1 DEF Types
  <2> QED
    BY <2>1, <2>2 DEF Coming
<1>3. CASE ServerAnswers
  BY <1>3, SMTT(40) DEF ServerAnswers, clientVars, serverVars, gaugeVars, loopVars, Coming, Talking
<1>4. CASE ServerCloses
  BY <1>4 DEF ServerCloses, clientVars, serverVars, gaugeVars, loopVars, Coming, Talking
<1>5. CASE MonitorStep
  BY <1>5 DEF MonitorStep, clientVars, serverVars, gaugeVars, loopVars, Coming, Talking
<1>6. ASSUME NEW n \in 1 .. Len(cNet), FastClientRead(n) PROVE Framed(Coming')
  <2>1. n \in 0 .. Len(cNet) /\ cNet \in Seq(Req(sends)) /\ client_buf \in Seq(Req(sends))
    BY DEF Types
  <2>2. /\ client_buf' = <<>> /\ cNet' = From(cNet, n) /\ cClosed' = cClosed /\ Talking
    BY <1>6 DEF FastClientRead, Talking
  <2>a. /\ client_buf \o SubSeq(cNet, 1, n) \in Seq(Req(sends)) /\ From(cNet, n) \in Seq(Req(sends))
        /\ (client_buf \o SubSeq(cNet, 1, n)) \o From(cNet, n) = client_buf \o cNet
    <3>1. client_buf \o SubSeq(cNet, 1, n) \in Seq(Req(sends))
      BY <2>1, ReadStream
    <3>2. From(cNet, n) \in Seq(Req(sends))
      BY <2>1, ReadStream, Zenon
    <3>3. (client_buf \o SubSeq(cNet, 1, n)) \o From(cNet, n) = client_buf \o cNet
      BY <2>1, Moved, Zenon DEF From
    <3> QED
      BY <3>1, <3>2, <3>3, Zenon
  <2> DEFINE a == client_buf \o SubSeq(cNet, 1, n)
             z == From(cNet, n)
  <2> HIDE DEF a, z
  <2>3. a \in Seq(Req(sends)) /\ z \in Seq(Req(sends)) /\ a \o z = client_buf \o cNet
    BY <2>a, Zenon DEF a, z
  <2>4. Coming' = z
    BY <2>2, <2>3, JoinEmpty DEF Coming, z
  <2> QED
    BY <2>2, <2>3, <2>4, FramedTail, Zenon DEF Coming
<1>7. ASSUME NEW n \in 1 .. Len(cNet), SlowClientRead(n) PROVE Framed(Coming')
  <2>1. n \in 0 .. Len(cNet) /\ cNet \in Seq(Req(sends)) /\ client_buf \in Seq(Req(sends))
    BY DEF Types
  <2>2. /\ client_buf' = client_buf \o SubSeq(cNet, 1, n) /\ cNet' = From(cNet, n)
        /\ cClosed' = cClosed /\ Talking
    BY <1>7 DEF SlowClientRead, Talking
  <2>3. Coming' = Coming
    BY <2>1, <2>2, ReadStream, ZenonT(40) DEF Coming
  <2> QED
    BY <2>2, <2>3
<1>8. ASSUME NEW n \in 1 .. Len(sNet), FastServerRead(n) PROVE Framed(Coming')
  BY <1>8, Zenon DEF FastServerRead, clientVars, serverVars, gaugeVars, loopVars, Coming, Talking
<1>9. ASSUME NEW n \in 1 .. Len(sNet), ServerRead(n) PROVE Framed(Coming')
  BY <1>9 DEF ServerRead, clientVars, serverVars, gaugeVars, loopVars, Coming, Talking
<1>10. CASE SlowClientMessage
  <2>1. 2 \in 0 .. Len(client_buf) /\ cNet \in Seq(Req(sends)) /\ client_buf \in Seq(Req(sends))
    BY <1>10 DEF SlowClientMessage, Whole, Types
  <2>2. client_buf' = From(client_buf, 2) /\ cNet' = cNet /\ cClosed' = cClosed /\ Talking
    BY <1>10 DEF SlowClientMessage, clientVars, Talking
  <2> DEFINE a == SubSeq(client_buf, 1, 2)
             z == From(client_buf, 2) \o cNet
  <2>3. a \in Seq(Req(sends)) /\ z \in Seq(Req(sends)) /\ a \o z = Coming
    BY <2>1, TakeStream, SMTT(60) DEF Coming
  <2>4. Coming' = z
    BY <2>2 DEF Coming
  <2> HIDE DEF a, z
  <2> QED
    BY <2>2, <2>3, <2>4, FramedTail, Zenon
<1>11. CASE SlowServerMessage
  BY <1>11, SMTT(40) DEF SlowServerMessage, clientVars, serverVars, gaugeVars, loopVars,
     Coming, Talking
<1>12. CASE ResetMessage
  BY <1>12 DEF ResetMessage, ResetVerdict, Talking
<1>13. CASE NoMessage
  BY <1>13 DEF NoMessage, clientVars, serverVars, gaugeVars, loopVars, Coming, Talking
<1>14. CASE Misframe
  BY <1>14 DEF Misframe, clientVars, serverVars, gaugeVars, loopVars, Coming, Talking
<1>20. ASSUME NEW n \in 0 .. Len(client_buf), MiscutClient(n) PROVE Framed(Coming')
  <2>1. client_buf \in Seq(Req(sends)) /\ cNet \in Seq(Req(sends))
    BY DEF Types
  <2>2. client_buf' = From(client_buf, n) /\ cNet' = cNet /\ cClosed' = cClosed /\ Talking
    BY <1>20, MiscutToServer, Zenon DEF clientVars, Talking
  <2> DEFINE a == SubSeq(client_buf, 1, n)
             z == From(client_buf, n) \o cNet
  <2>3. a \in Seq(Req(sends)) /\ z \in Seq(Req(sends)) /\ a \o z = Coming
    <3>1. a \in Seq(Req(sends)) /\ z \in Seq(Req(sends))
      BY <2>1, TakeStream, SMTT(40)
    <3>2. a \o z = client_buf \o cNet
      BY <2>1, TakeStream, SMTT(40)
    <3> QED
      BY <3>1, <3>2, Zenon DEF Coming
  <2>4. Coming' = z
    BY <2>2 DEF Coming
  <2> HIDE DEF a, z
  <2> QED
    BY <2>2, <2>3, <2>4, FramedTail, Zenon
<1>21. ASSUME NEW n \in 0 .. Len(server_buf), MiscutServer(n) PROVE Framed(Coming')
  BY <1>21, MiscutToClient, Zenon DEF clientVars, Coming, Talking
<1>22. ASSUME NEW n \in 0 .. Len(server_buf), MiscutReset(n) PROVE Framed(Coming')
  BY <1>22, MiscutOfReset, SMTT(30) DEF Talking
<1>15. CASE EndSession
  BY <1>15 DEF EndSession, Talking
<1>16. CASE ResetEof
  BY <1>16 DEF ResetEof, clientVars, serverVars, gaugeVars, loopVars, Coming, Talking
<1>17. CASE Drop
  BY <1>17 DEF Drop, Talking
<1>18. CASE Reuse
  <2>1. cNet' = <<>> /\ client_buf' = <<>>
    BY <1>18 DEF Reuse, Left
  <2>2. Coming' = <<>> /\ Len(Coming') = 0
    BY <2>1 DEF Coming
  <2> QED
    BY <2>2 DEF Framed
<1>19. ASSUME UNCHANGED vars PROVE Framed(Coming')
  BY <1>19 DEF vars, clientVars, serverVars, gaugeVars, loopVars, Coming, Talking
<1> QED
  BY <1>1, <1>2, <1>3, <1>4, <1>5, <1>6, <1>7, <1>8, <1>9, <1>10, <1>11, <1>12, <1>13, <1>14,
     <1>15, <1>16, <1>17, <1>18, <1>19, <1>20, <1>21, <1>22, SMTT(30) DEF Next, Loops
\* More from the server.
LEMMA ArrivingMore ==
  ASSUME Types, Framed(Arriving), server_buf' = server_buf, NEW m \in AnsMsg(sends)
  PROVE  /\ sNet' = sNet \o Parts(m) =>
              Arriving' = Arriving \o Parts(m) /\ Framed(Arriving')
         /\ \A z \in AnsMsg(sends) : sNet' = sNet \o Parts(m) \o Parts(z) =>
              Arriving' = Arriving \o Parts(m) \o Parts(z) /\ Framed(Arriving')
<1> DEFINE S == Ans(sends)
<1> HIDE DEF S
<1>1. /\ [msg |-> m, part |-> 1] \in S /\ [msg |-> m, part |-> 2] \in S /\ Parts(m) \in Seq(S)
      /\ server_buf \in Seq(S) /\ sNet \in Seq(S)
  BY AnsParts, Zenon DEF S, Types
<1>2. Arriving \in Seq(S)
  BY <1>1, Joined, SMTT(40) DEF Arriving
<1>3. server_buf \o (sNet \o Parts(m)) = Arriving \o Parts(m)
  <2>1. server_buf \in Seq(S) /\ sNet \in Seq(S) /\ Parts(m) \in Seq(S)
    BY <1>1
  <2> QED
    BY <2>1, JoinThree, SMTT(40) DEF Arriving
<1>4. Framed(Arriving \o Parts(m))
  BY <1>1, <1>2, FramedAppend
<1>5. ASSUME NEW z \in AnsMsg(sends)
      PROVE  /\ server_buf \o ((sNet \o Parts(m)) \o Parts(z)) = (Arriving \o Parts(m)) \o Parts(z)
             /\ Framed((Arriving \o Parts(m)) \o Parts(z))
  <2>1. /\ [msg |-> z, part |-> 1] \in S /\ [msg |-> z, part |-> 2] \in S
        /\ Parts(z) \in Seq(S)
    BY AnsParts, SMTT(30) DEF S
  <2> DEFINE x == sNet \o Parts(m)
             y == Arriving \o Parts(m)
  <2>2. x \in Seq(S) /\ y \in Seq(S)
    BY <1>1, <1>2, Joined, SMTT(40)
  <2>3. server_buf \o x = y /\ Framed(y)
    BY <1>3, <1>4
  <2> HIDE DEF x, y
  <2>4. server_buf \o (x \o Parts(z)) = (server_buf \o x) \o Parts(z)
    <3>1. server_buf \in Seq(S) /\ x \in Seq(S) /\ Parts(z) \in Seq(S)
      BY <1>1, <2>1, <2>2
    <3> QED
      BY <3>1, JoinThree, SMTT(30)
  <2>5. Framed(y \o Parts(z))
    BY <2>1, <2>2, <2>3, FramedAppend
  <2> QED
    BY <2>3, <2>4, <2>5 DEF x, y
<1> QED
  BY <1>3, <1>4, <1>5, Zenon DEF Arriving

\* Some of what has arrived is taken from its front, or all that was read.
LEMMA ArrivingCut ==
  ASSUME Types, Framed(Arriving), NEW n \in 0 .. Len(server_buf)
  PROVE  Framed(From(server_buf, n) \o sNet) /\ Framed(<<>> \o sNet)
<1> DEFINE a == SubSeq(server_buf, 1, n)
           z == From(server_buf, n) \o sNet
<1>1. server_buf \in Seq(Ans(sends)) /\ sNet \in Seq(Ans(sends))
  BY DEF Types
<1>2. a \in Seq(Ans(sends)) /\ z \in Seq(Ans(sends)) /\ a \o z = server_buf \o sNet
  <2>1. a \in Seq(Ans(sends)) /\ z \in Seq(Ans(sends))
    BY <1>1, TakeStream, SMTT(40)
  <2> DEFINE y == From(server_buf, n)
  <2>2. a \o y = server_buf /\ y \in Seq(Ans(sends))
    BY <1>1, Split, Rest, SMTT(40)
  <2> HIDE DEF a, y
  <2>3. a \in Seq(Ans(sends)) /\ y \in Seq(Ans(sends)) /\ sNet \in Seq(Ans(sends))
    BY <1>1, <2>1, <2>2
  <2>4. (a \o y) \o sNet = a \o (y \o sNet)
    BY <2>3, JoinThree, SMTT(40)
  <2> QED
    BY <2>1, <2>2, <2>4 DEF y
<1> HIDE DEF a, z
<1>3. Framed(z) /\ Framed(sNet)
  BY <1>1, <1>2, FramedTail, Zenon DEF Arriving
<1>4. <<>> \o sNet = sNet
  BY <1>1, JoinEmpty
<1> QED
  BY <1>3, <1>4 DEF z

\* The server's messages stay whole.
LEMMA ArrivingStep ==
  ASSUME Types, Framed(Arriving), [Next]_vars
  PROVE  Framed(Arriving')
<1>1. ASSUME NEW k \in Kinds, ClientSends(k) PROVE Framed(Arriving')
  BY <1>1 DEF ClientSends, clientVars, serverVars, gaugeVars, loopVars, Arriving
<1>2. ASSUME NEW n \in 0 .. Len(cNet), ClientCloses(n) PROVE Framed(Arriving')
  BY <1>2 DEF ClientCloses, clientVars, serverVars, gaugeVars, loopVars, Arriving
<1>3. CASE ServerAnswers
  <2>1. server_buf' = server_buf
    BY <1>3, SMTT(40) DEF ServerAnswers, loopVars
  <2>2. CASE \E m \in AnsMsg(sends) : sNet' = sNet \o Parts(m)
    <3>1. PICK m \in AnsMsg(sends) : sNet' = sNet \o Parts(m)
      BY <2>2
    <3> QED
      BY <2>1, <3>1, ArrivingMore, Zenon
  <2>3. CASE \E m, z \in AnsMsg(sends) : sNet' = sNet \o Parts(m) \o Parts(z)
    <3>1. PICK m \in AnsMsg(sends), z \in AnsMsg(sends) : sNet' = sNet \o Parts(m) \o Parts(z)
      BY <2>3, Zenon
    <3> QED
      BY <2>1, <3>1, ArrivingMore, Zenon
  <2> QED
    BY <1>3, AnswerStep, <2>2, <2>3, Zenon DEF Result, ReadyFor
<1>4. CASE ServerCloses
  BY <1>4 DEF ServerCloses, clientVars, serverVars, gaugeVars, loopVars, Arriving
<1>5. CASE MonitorStep
  BY <1>5 DEF MonitorStep, clientVars, serverVars, gaugeVars, loopVars, Arriving
<1>6. ASSUME NEW n \in 1 .. Len(cNet), FastClientRead(n) PROVE Framed(Arriving')
  BY <1>6 DEF FastClientRead, clientVars, serverVars, gaugeVars, loopVars, Arriving
<1>7. ASSUME NEW n \in 1 .. Len(cNet), SlowClientRead(n) PROVE Framed(Arriving')
  BY <1>7 DEF SlowClientRead, clientVars, serverVars, gaugeVars, loopVars, Arriving
<1>8. ASSUME NEW n \in 1 .. Len(sNet), FastServerRead(n) PROVE Framed(Arriving')
  <2>1. n \in 0 .. Len(sNet) /\ sNet \in Seq(Ans(sends)) /\ server_buf \in Seq(Ans(sends))
    BY SMTT(30) DEF Types
  <2>2. server_buf' = <<>> /\ sNet' = From(sNet, n)
    BY <1>8, SMTT(40) DEF FastServerRead
  <2> DEFINE a == server_buf \o SubSeq(sNet, 1, n)
             z == From(sNet, n)
  <2> HIDE DEF a, z
  <2>3. a \in Seq(Ans(sends)) /\ z \in Seq(Ans(sends)) /\ a \o z = server_buf \o sNet
    <3>1. a \in Seq(Ans(sends)) /\ z \in Seq(Ans(sends))
      BY <2>1, ReadStream, Zenon DEF a, z
    <3>2. a \o z = server_buf \o sNet
      BY <2>1, Moved, Zenon DEF From, a, z
    <3> QED
      BY <3>1, <3>2
  <2>4. Framed(z)
    BY <2>3, FramedTail, Zenon DEF Arriving
  <2>5. Arriving' = z
    BY <2>2, <2>3, JoinEmpty DEF Arriving, z
  <2> QED
    BY <2>4, <2>5
<1>9. ASSUME NEW n \in 1 .. Len(sNet), ServerRead(n) PROVE Framed(Arriving')
  <2>1. n \in 0 .. Len(sNet) /\ sNet \in Seq(Ans(sends)) /\ server_buf \in Seq(Ans(sends))
    BY DEF Types
  <2>2. server_buf' = server_buf \o SubSeq(sNet, 1, n) /\ sNet' = From(sNet, n)
    BY <1>9 DEF ServerRead
  <2>3. Arriving' = Arriving
    BY <2>1, <2>2, Moved, Zenon DEF Arriving, From
  <2> QED
    BY <2>3
<1>10. CASE SlowClientMessage
  BY <1>10 DEF SlowClientMessage, clientVars, serverVars, gaugeVars, loopVars, Arriving
<1>11. CASE SlowServerMessage
  <2>1. 2 \in 0 .. Len(server_buf) /\ sNet \in Seq(Ans(sends)) /\ server_buf \in Seq(Ans(sends))
    BY <1>11, SMTT(40) DEF SlowServerMessage, Whole, Types
  <2>2. server_buf' = From(server_buf, 2) /\ sNet' = sNet
    BY <1>11, SMTT(40) DEF SlowServerMessage
  <2> DEFINE a == SubSeq(server_buf, 1, 2)
             z == From(server_buf, 2) \o sNet
  <2> HIDE DEF a, z
  <2>3. a \in Seq(Ans(sends)) /\ z \in Seq(Ans(sends)) /\ a \o z = server_buf \o sNet
    <3> DEFINE k == 2
    <3>1. k \in 0 .. Len(server_buf)
      BY <2>1 DEF k
    <3> HIDE DEF k
    <3>2. /\ SubSeq(server_buf, 1, k) \in Seq(Ans(sends))
          /\ From(server_buf, k) \o sNet \in Seq(Ans(sends))
          /\ SubSeq(server_buf, 1, k) \o (From(server_buf, k) \o sNet) = server_buf \o sNet
      BY <2>1, <3>1, TakeStream, SMTT(60)
    <3> QED
      BY <3>2, Zenon DEF a, z, k
  <2>4. Framed(z)
    BY <2>3, FramedTail, Zenon DEF Arriving
  <2>5. Arriving' = z
    BY <2>2 DEF Arriving, z
  <2> QED
    BY <2>4, <2>5, Zenon
<1>12. CASE ResetMessage
  <2>1. sNet \in Seq(Ans(sends)) /\ server_buf \in Seq(Ans(sends))
    BY DEF Types
  <2>2. Framed(sNet)
    BY <2>1, FramedTail DEF Arriving
  <2>3. <<>> \o sNet = sNet
    BY <2>1, JoinEmpty
  <2>4. CASE server_buf' = <<>>
    <3>1. Arriving' = sNet
      BY <1>12, <2>3, <2>4 DEF ResetMessage, Arriving
    <3> QED
      BY <2>2, <3>1
  <2>5. CASE server_buf' = From(server_buf, 2)
    <3> DEFINE a == SubSeq(server_buf, 1, 2)
               z == From(server_buf, 2) \o sNet
    <3>1. 2 \in 0 .. Len(server_buf)
      BY <1>12, <2>1 DEF ResetMessage, Whole
    <3>2. a \in Seq(Ans(sends)) /\ z \in Seq(Ans(sends)) /\ a \o z = server_buf \o sNet
      BY <2>1, <3>1, TakeStream, SMTT(60)
    <3>3. Arriving' = z
      BY <1>12, <2>5 DEF ResetMessage, Arriving
    <3> HIDE DEF a, z
    <3>4. Framed(z)
      BY <3>2, FramedTail, Zenon DEF Arriving
    <3> QED
      BY <3>3, <3>4
  <2> QED
    BY <1>12, <2>4, <2>5 DEF ResetMessage
<1>13. CASE NoMessage
  BY <1>13 DEF NoMessage, clientVars, serverVars, gaugeVars, loopVars, Arriving
<1>14. CASE Misframe
  BY <1>14 DEF Misframe, clientVars, serverVars, gaugeVars, loopVars, Arriving
<1>20. ASSUME NEW n \in 0 .. Len(client_buf), MiscutClient(n) PROVE Framed(Arriving')
  BY <1>20, MiscutToServer, Zenon DEF Arriving
<1>21. ASSUME NEW n \in 0 .. Len(server_buf), MiscutServer(n) PROVE Framed(Arriving')
  <2>1. server_buf' = From(server_buf, n) /\ sNet' = sNet
    BY <1>21, MiscutToClient, Zenon
  <2> QED
    BY <2>1, ArrivingCut, Zenon DEF Arriving
<1>22. ASSUME NEW n \in 0 .. Len(server_buf), MiscutReset(n) PROVE Framed(Arriving')
  <2>1. (server_buf' = From(server_buf, n) \/ server_buf' = <<>>) /\ sNet' = sNet
    BY <1>22, MiscutOfReset, Zenon
  <2> QED
    BY <2>1, ArrivingCut, Zenon DEF Arriving
<1>15. CASE EndSession
  <2>1. sNet \in Seq(Ans(sends)) /\ server_buf \in Seq(Ans(sends))
    BY DEF Types
  <2>2. Framed(sNet)
    BY <2>1, FramedTail DEF Arriving
  <2>3. <<>> \o sNet = sNet
    BY <2>1, JoinEmpty
  <2>4. Arriving' = sNet
    BY <1>15, <2>3 DEF EndSession, LeaveLoops, Arriving
  <2> QED
    BY <2>2, <2>4
<1>16. CASE ResetEof
  BY <1>16 DEF ResetEof, clientVars, serverVars, gaugeVars, loopVars, Arriving
<1>17. CASE Drop
  <2>1. sNet \in Seq(Ans(sends)) /\ server_buf \in Seq(Ans(sends))
    BY DEF Types
  <2>2. Framed(sNet)
    BY <2>1, FramedTail DEF Arriving
  <2>3. <<>> \o sNet = sNet
    BY <2>1, JoinEmpty
  <2>4. Arriving' = sNet
    BY <1>17, <2>3 DEF Drop, LeaveLoops, Arriving
  <2> QED
    BY <2>2, <2>4
<1>18. CASE Reuse
  BY <1>18 DEF Reuse, clientVars, serverVars, gaugeVars, loopVars, Arriving
<1>19. ASSUME UNCHANGED vars PROVE Framed(Arriving')
  BY <1>19 DEF vars, clientVars, serverVars, gaugeVars, loopVars, Arriving
<1> QED
  BY <1>1, <1>2, <1>3, <1>4, <1>5, <1>6, <1>7, <1>8, <1>9, <1>10, <1>11, <1>12, <1>13, <1>14,
     <1>15, <1>16, <1>17, <1>18, <1>19, <1>20, <1>21, <1>22, Zenon DEF Next, Loops
-----------------------------------------------------------------------------
(* ServerGetsAll *)

\* The elements of three pieces.
Pieces(s, a, h, z) ==
  /\ Len(a) \in Nat /\ Len(h) \in Nat /\ Len(z) \in Nat
  /\ Len(s) = Len(a) + Len(h) + Len(z)
  /\ \A i \in 1 .. Len(a) : s[i] = a[i]
  /\ \A i \in 1 .. Len(h) : s[Len(a) + i] = h[i]
  /\ \A i \in 1 .. Len(z) : s[Len(a) + Len(h) + i] = z[i]

\* A stream made of three.
LEMMA Three ==
  ASSUME NEW S, NEW a \in Seq(S), NEW h \in Seq(S), NEW z \in Seq(S)
  PROVE  a \o (h \o z) \in Seq(S) /\ Pieces(a \o (h \o z), a, h, z)
<1> DEFINE x == h \o z
           s == a \o x
<1>1. /\ x \in Seq(S) /\ Len(h) \in Nat /\ Len(z) \in Nat /\ Len(x) = Len(h) + Len(z)
      /\ \A k \in 1 .. Len(h) : x[k] = h[k]
      /\ \A k \in 1 .. Len(z) : x[Len(h) + k] = z[k]
  BY Joined
<1> HIDE DEF x
<1>2. x \in Seq(S)
  BY <1>1
<1>3. /\ s \in Seq(S) /\ Len(a) \in Nat /\ Len(s) = Len(a) + Len(x)
      /\ \A k \in 1 .. Len(a) : s[k] = a[k]
      /\ \A k \in 1 .. Len(x) : s[Len(a) + k] = x[k]
  BY <1>2, Joined
<1> HIDE DEF s
<1>4. Len(s) = Len(a) + Len(h) + Len(z)
  BY <1>1, <1>3
<1>5. ASSUME NEW i \in 1 .. Len(h) PROVE s[Len(a) + i] = h[i]
  <2>1. i \in 1 .. Len(x)
    BY <1>1
  <2> QED
    BY <1>1, <1>3, <2>1
<1>6. ASSUME NEW i \in 1 .. Len(z) PROVE s[Len(a) + Len(h) + i] = z[i]
  <2>1. Len(h) + i \in 1 .. Len(x) /\ Len(a) + (Len(h) + i) = Len(a) + Len(h) + i
    BY <1>1, <1>3
  <2>2. s[Len(a) + (Len(h) + i)] = x[Len(h) + i]
    BY <1>3, <2>1, SMTT(30)
  <2> QED
    BY <1>1, <2>1, <2>2, SMTT(40)
<1> QED
  BY <1>1, <1>3, <1>4, <1>5, <1>6, SMTT(40) DEF s, x, Pieces

\* A message is forwarded in another form.
LEMMA ReqDoneReplace ==
  ASSUME NEW n \in Nat, NEW a \in Seq(Req(n)), NEW h \in Seq(Req(n)), NEW g \in Seq(Req(n)),
         NEW z \in Seq(Req(n)), NEW b, NEW ids, Len(h) = 2, Len(g) = 2,
         \A i \in {1, 2} : g[i].msg.id = h[i].msg.id /\ g[i].part = h[i].part,
         ReqDone(a \o (h \o z), b, ids)
  PROVE  ReqDone(a \o (g \o z), b, ids)
<1> DEFINE s == a \o (h \o z)
           t == a \o (g \o z)
<1>a. Pieces(s, a, h, z) /\ Pieces(t, a, g, z)
  BY Three, Zenon
<1>3. ReqDone(s, b, ids)
  BY Zenon
<1> HIDE DEF s, t
<1>1. /\ Len(a) \in Nat /\ Len(z) \in Nat /\ Len(s) = Len(a) + Len(h) + Len(z)
      /\ \A i \in 1 .. Len(a) : s[i] = a[i]
      /\ \A i \in 1 .. Len(h) : s[Len(a) + i] = h[i]
      /\ \A i \in 1 .. Len(z) : s[Len(a) + Len(h) + i] = z[i]
  BY <1>a, Zenon DEF Pieces
<1>2. /\ Len(t) = Len(a) + Len(g) + Len(z)
      /\ \A i \in 1 .. Len(a) : t[i] = a[i]
      /\ \A i \in 1 .. Len(g) : t[Len(a) + i] = g[i]
      /\ \A i \in 1 .. Len(z) : t[Len(a) + Len(g) + i] = z[i]
  BY <1>a, Zenon DEF Pieces
<1>4. Len(s) = Len(a) + 2 + Len(z) /\ Len(t) = Len(s)
  BY <1>1, <1>2, ZenonT(40)
<1>5. ASSUME NEW i \in 1 .. Len(s) PROVE t[i].msg.id = s[i].msg.id /\ t[i].part = s[i].part
  <2>1. CASE i \in 1 .. Len(a)
    BY <1>1, <1>2, <2>1, ZenonT(40)
  <2>2. CASE i \in {Len(a) + 1, Len(a) + 2}
    <3>1. PICK k \in {1, 2} : i = Len(a) + k
      BY <2>2
    <3>2. k \in 1 .. Len(h) /\ k \in 1 .. Len(g)
      BY SMTT(30)
    <3>3. s[i] = h[k] /\ t[i] = g[k]
      BY <1>1, <1>2, <3>1, <3>2, Zenon
    <3> QED
      BY <3>3, SMTT(40)
  <2>3. CASE i > Len(a) + 2
    <3> DEFINE k == i - Len(a) - 2
    <3>1. k \in 1 .. Len(z) /\ i = Len(a) + Len(h) + k /\ i = Len(a) + Len(g) + k
      BY <1>1, <1>4, <2>3, SMTT(40)
    <3>2. s[i] = z[k] /\ t[i] = z[k]
      BY <1>1, <1>2, <3>1, SMTT(40)
    <3> QED
      BY <3>2, Zenon
  <2>4. i \in 1 .. Len(a) \/ i \in {Len(a) + 1, Len(a) + 2} \/ i > Len(a) + 2
    <3>1. Len(a) \in Nat /\ i \in Nat
      BY <1>1, <1>4, SMTT(40)
    <3> QED
      BY <3>1, SMTT(40)
  <2> QED
    BY <2>1, <2>2, <2>3, <2>4, Zenon
<1>6. ReqDone(t, b, ids)
  BY <1>3, <1>4, <1>5, ReqDoneSame, Zenon
<1> QED
  BY <1>6 DEF t

\* A message is dropped.
LEMMA ReqDoneDrop ==
  ASSUME NEW n \in Nat, NEW a \in Seq(Req(n)), NEW h \in Seq(Req(n)), NEW z \in Seq(Req(n)),
         NEW b \in Nat, NEW ids, Len(h) = 2,
         h[1].part = 1, h[2].part = 2, h[2].msg.id = h[1].msg.id,
         ReqDone(a \o (h \o z), b, ids)
  PROVE  ReqDone(a \o z, b, ids \ {h[1].msg.id})
<1> DEFINE s == a \o (h \o z)
           t == a \o z
           p == Len(a)
<1>a. s \in Seq(Req(n)) /\ Pieces(s, a, h, z)
  BY Three, SMTT(40)
<1>1. /\ s \in Seq(Req(n)) /\ p \in Nat /\ Len(z) \in Nat /\ Len(s) = p + Len(h) + Len(z)
      /\ \A i \in 1 .. p : s[i] = a[i]
      /\ \A i \in 1 .. Len(h) : s[p + i] = h[i]
      /\ \A i \in 1 .. Len(z) : s[p + Len(h) + i] = z[i]
  <2> HIDE DEF s
  <2> QED
    BY <1>a, SMTT(40) DEF Pieces
<1>2. /\ t \in Seq(Req(n)) /\ Len(t) = p + Len(z)
      /\ \A i \in 1 .. p : t[i] = a[i]
      /\ \A i \in 1 .. Len(z) : t[p + i] = z[i]
  BY Joined, SMTT(40)
<1>3. ReqDone(s, b, ids)
  OBVIOUS
<1> HIDE DEF s, t, p
<1>4. p + 2 <= Len(s) /\ Len(t) = Len(s) - 2
  BY <1>1, <1>2, SMTT(40)
<1>5. 1 \in 1 .. Len(h) /\ 2 \in 1 .. Len(h)
  OBVIOUS
<1>6. s[p + 1] = h[1] /\ s[p + 2] = h[2]
  BY <1>1, <1>5, SMTT(40)
<1>7. \A i \in 1 .. p : t[i] = s[i]
  BY <1>1, <1>2, SMTT(40)
<1>8. ASSUME NEW i \in p + 1 .. Len(t) PROVE t[i] = s[i + 2]
  <2> DEFINE k == i - p
  <2>1. k \in 1 .. Len(z) /\ i = p + k /\ i + 2 = p + Len(h) + k
    BY <1>1, <1>2, SMTT(40)
  <2> QED
    BY <1>1, <1>2, <2>1, ZenonT(30)
<1>9. ReqDone(t, b, ids \ {s[p + 1].msg.id})
  <2>1. /\ s \in Seq(Req(n)) /\ t \in Seq(Req(n)) /\ p \in Nat /\ p + 2 <= Len(s)
        /\ Len(t) = Len(s) - 2 /\ s[p + 1].part = 1 /\ s[p + 2].part = 2
        /\ s[p + 2].msg.id = s[p + 1].msg.id
    BY <1>1, <1>2, <1>4, <1>6, SMTT(40)
  <2> QED
    BY <1>3, <1>7, <1>8, <2>1, ReqDoneRemove, Zenon
<1> QED
  BY <1>6, <1>9, Zenon DEF t
\* All of the client's stream, and what of it is due.
Requests == toServer \o client_buf \o cNet
Due == (base + 1 .. sends) \ {m.id : m \in dropped}
Delivered == ReqDone(Requests, base, Due) /\ \A m \in dropped : m.kind = "latin"

\* The client's stream in its three places.
LEMMA PiecesType ==
  ASSUME NEW n, NEW a \in Seq(Req(n)), NEW b \in Seq(Req(n)), NEW c \in Seq(Req(n))
  PROVE  a \o b \o c \in Seq(Req(n)) /\ a \o b \o c = a \o (b \o c)
<1>1. a \o b \in Seq(Req(n))
  BY Joined
<1>2. (a \o b) \o c \in Seq(Req(n))
  BY <1>1, Joined
<1>3. (a \o b) \o c = a \o (b \o c)
  BY JoinThree
<1> QED
  BY <1>2, <1>3

\* Delivered is ServerGetsAll for the stream in its three places.
LEMMA DeliveredMeaning ==
  ASSUME NEW n \in Nat, NEW a \in Seq(Req(n)), NEW b \in Seq(Req(n)), NEW c \in Seq(Req(n)),
         NEW k \in Nat, NEW D
  PROVE  Complete(RequestKeys(a \o b \o c, k), (k + 1 .. n) \ {m.id : m \in D}) <=>
         ReqDone(a \o b \o c, k, (k + 1 .. n) \ {m.id : m \in D})
<1> DEFINE s == a \o b \o c
           ids == (k + 1 .. n) \ {m.id : m \in D}
<1>1. s \in Seq(Req(n))
  BY PiecesType
<1>2. ids \in SUBSET Nat /\ \A id \in ids : id > k
  OBVIOUS
<1> HIDE DEF s, ids
<1>3. Complete(RequestKeys(s, k), ids) <=> ReqDone(s, k, ids)
  BY <1>1, <1>2, ReqDoneMeaning, SMTT(40)
<1> QED
  BY <1>3 DEF s, ids

\* The message the slow loop takes is the next one of the client.
LEMMA FirstMessage ==
  ASSUME Types, Framed(Coming), Whole(client_buf)
  PROVE  LET h == SubSeq(client_buf, 1, 2) IN
         /\ Len(h) = 2 /\ h[1].part = 1 /\ h[2].part = 2
         /\ h[1].msg = client_buf[1].msg /\ h[2].msg = client_buf[1].msg
<1> DEFINE h == SubSeq(client_buf, 1, 2)
<1>1. /\ client_buf \in Seq(Req(sends)) /\ cNet \in Seq(Req(sends))
      /\ Len(client_buf) \in Nat /\ Len(client_buf) >= 2 /\ client_buf[1].part = 1
  BY DEF Types, Whole
<1>2. Len(h) = 2 /\ h[1] = client_buf[1] /\ h[2] = client_buf[2]
  <2>1. 2 \in 0 .. Len(client_buf) /\ 1 \in 1 .. 2 /\ 2 \in 1 .. 2
    BY <1>1
  <2> QED
    BY <1>1, <2>1, Taken
<1>3. /\ Len(Coming) = Len(client_buf) + Len(cNet) /\ Len(cNet) \in Nat
      /\ \A k \in 1 .. Len(client_buf) : Coming[k] = client_buf[k]
  BY <1>1, Joined DEF Coming
<1>4. /\ Coming[1] = client_buf[1] /\ Coming[2] = client_buf[2]
      /\ 1 \in 1 .. Len(Coming) /\ 2 \in 1 .. Len(Coming)
  BY <1>1, <1>3
<1>5. (Len(Coming) - 1) % 2 = 1 /\ Coming[2].msg = Coming[1].msg
  BY <1>1, <1>4, SMTT(40) DEF Framed
<1>6. (Len(Coming) - 2) % 2 # 1
  <2>1. Len(Coming) \in Int
    BY <1>1, <1>3
  <2> QED
    BY <1>5, <2>1
<1>7. client_buf[2].part # 1
  BY <1>4, <1>6 DEF Framed
<1>8. client_buf[2].part = 2
  BY <1>1, <1>7, ReqElement, SMTT(40)
<1> QED
  BY <1>1, <1>2, <1>4, <1>5, <1>8, SMTT(40)

\* Every step keeps what the client has sent in the stream.
LEMMA DeliveredStep ==
  ASSUME Types, Left, Talking /\ ~cClosed => Framed(Coming),
         Talking /\ ~cClosed /\ "client" \notin misread => Delivered, [Next]_vars
  PROVE  (Talking /\ ~cClosed /\ "client" \notin misread)' => Delivered'
<1> SUFFICES ASSUME Talking', ~cClosed', "client" \notin misread' PROVE Delivered'
  OBVIOUS
<1>1. ASSUME NEW k \in Kinds, ClientSends(k) PROVE Delivered'
  <2> DEFINE m == [id |-> sends + 1, kind |-> k, via |-> "client"]
             T == Req(sends + 1)
  <2>1. /\ cNet' = cNet \o Parts(m) /\ client_buf' = client_buf /\ toServer' = toServer
        /\ Talking /\ ~cClosed /\ "client" \notin misread /\ sends' = sends + 1 /\ base' = base /\ dropped' = dropped
    BY <1>1, SMTT(40) DEF ClientSends, loopVars
  <2>2. m \in ReqMsg(sends + 1) /\ m.id = sends + 1
    BY ProxyAssumption, SMTT(40) DEF ReqMsg, ReqKinds, Vias, Types
  <2>3. /\ [msg |-> m, part |-> 1] \in T /\ [msg |-> m, part |-> 2] \in T
        /\ Parts(m) \in Seq(T)
    BY <2>2, ReqParts, SMTT(40)
  <2>4. /\ cNet \in Seq(T) /\ client_buf \in Seq(T) /\ toServer \in Seq(T)
    BY Grows DEF Types
  <2> HIDE DEF m, T
  <2>5. toServer \o client_buf \in Seq(T)
    BY <2>4, Joined
  <2>6. Requests \in Seq(T) /\ Requests \in Seq(Req(sends))
    BY <2>4, <2>5, Joined, PiecesType, SMTT(40) DEF Requests, Types
  <2>7. Requests' = Requests \o Parts(m)
    <3> DEFINE x == toServer \o client_buf
    <3> HIDE DEF x
    <3>1. x \in Seq(T) /\ cNet \in Seq(T) /\ Parts(m) \in Seq(T)
      BY <2>3, <2>4, <2>5 DEF x
    <3>2. x \o (cNet \o Parts(m)) = (x \o cNet) \o Parts(m)
      BY <3>1, JoinThree, SMTT(40)
    <3> QED
      BY <2>1, <3>2 DEF Requests, x
  <2>8. Due' = Due \cup {sends + 1} /\ Due \in SUBSET (0 .. sends)
    <3>1. \A x \in dropped : x.id \in 0 .. sends
      BY DEF Types, ReqMsg
    <3>2. sends \in Nat /\ base \in 0 .. sends
      BY DEF Types
    <3>3. base + 1 .. sends + 1 = (base + 1 .. sends) \cup {sends + 1}
      BY <3>2
    <3>4. sends + 1 \notin {x.id : x \in dropped} /\ base + 1 .. sends \subseteq 0 .. sends
      BY <3>1, <3>2
    <3> QED
      BY <2>1, <3>3, <3>4, SMTT(40) DEF Due
  <2>9. ReqDone(Requests \o Parts(m), base, Due \cup {sends + 1})
    <3>1. /\ sends \in Nat /\ base \in 0 .. sends /\ m.id = sends + 1
          /\ ReqDone(Requests, base, Due)
      BY <2>1, <2>2 DEF Types, Delivered
    <3> QED
      BY <2>3, <2>6, <2>8, <3>1, ReqDoneAppend, SMTT(40)
  <2> QED
    BY <2>1, <2>7, <2>8, <2>9, Zenon DEF Delivered
<1>2. ASSUME NEW n \in 0 .. Len(cNet), ClientCloses(n) PROVE Delivered'
  BY <1>2 DEF ClientCloses
<1>3. CASE ServerAnswers
  <2>1. /\ Requests' = Requests /\ base' = base /\ Due' = Due /\ dropped' = dropped
        /\ Talking /\ ~cClosed /\ "client" \notin misread
    BY <1>3, Zenon DEF ServerAnswers, clientVars, serverVars, gaugeVars, loopVars, Requests,
       Due, Talking
  <2> QED
    BY <2>1 DEF Delivered
<1>4. CASE ServerCloses
  <2>1. /\ Requests' = Requests /\ base' = base /\ Due' = Due /\ dropped' = dropped
        /\ Talking /\ ~cClosed /\ "client" \notin misread
    BY <1>4, Zenon DEF ServerCloses, clientVars, serverVars, gaugeVars, loopVars, Requests,
       Due, Talking
  <2> QED
    BY <2>1 DEF Delivered
<1>5. CASE MonitorStep
  <2>1. /\ Requests' = Requests /\ base' = base /\ Due' = Due /\ dropped' = dropped
        /\ Talking /\ ~cClosed /\ "client" \notin misread
    BY <1>5, Zenon DEF MonitorStep, clientVars, serverVars, gaugeVars, loopVars, Requests,
       Due, Talking
  <2> QED
    BY <2>1 DEF Delivered
<1>6. ASSUME NEW n \in 1 .. Len(cNet), FastClientRead(n) PROVE Delivered'
  <2>1. n \in 0 .. Len(cNet) /\ cNet \in Seq(Req(sends))
    BY DEF Types
  <2>2. toServer \o client_buf \in Seq(Req(sends))
    BY Joined, SMTT(40) DEF Types
  <2>3. /\ toServer' = toServer \o client_buf \o SubSeq(cNet, 1, n) /\ client_buf' = <<>>
        /\ cNet' = From(cNet, n) /\ base' = base /\ Due' = Due /\ dropped' = dropped
        /\ Talking /\ ~cClosed /\ "client" \notin misread
    BY <1>6, SMTT(40) DEF FastClientRead, Due, Talking
  <2>4. toServer' \in Seq(Req(sends))
    BY <1>6, TypesStep, Zenon DEF Next, Loops, FastClientRead, Types
  <2>5. Requests' = toServer' \o From(cNet, n)
    BY <2>3, <2>4, JoinEmpty DEF Requests
  <2>6. (toServer \o client_buf \o SubSeq(cNet, 1, n)) \o From(cNet, n) = Requests
    BY <2>1, <2>2, Moved, Zenon DEF From, Requests
  <2> QED
    BY <2>3, <2>5, <2>6, Zenon DEF Delivered
<1>7. ASSUME NEW n \in 1 .. Len(cNet), SlowClientRead(n) PROVE Delivered'
  <2>1. n \in 0 .. Len(cNet) /\ cNet \in Seq(Req(sends))
    BY DEF Types
  <2>2. toServer \o client_buf \in Seq(Req(sends))
    BY Joined DEF Types
  <2>3. /\ client_buf' = client_buf \o SubSeq(cNet, 1, n) /\ toServer' = toServer
        /\ cNet' = From(cNet, n) /\ base' = base /\ Due' = Due /\ dropped' = dropped
        /\ Talking /\ ~cClosed /\ "client" \notin misread
    BY <1>7, SMTT(40) DEF SlowClientRead, Due, Talking
  <2> DEFINE a == SubSeq(cNet, 1, n)
             z == From(cNet, n)
  <2>4. a \in Seq(Req(sends))
    BY <2>1, Taken
  <2>5. ((toServer \o client_buf) \o a) \o z = Requests
    BY <2>1, <2>2, Moved, Zenon DEF From, Requests
  <2> HIDE DEF a, z
  <2>6. (toServer \o client_buf) \o a = toServer \o (client_buf \o a)
    <3>1. toServer \in Seq(Req(sends)) /\ client_buf \in Seq(Req(sends)) /\ a \in Seq(Req(sends))
      BY <2>4 DEF Types
    <3> QED
      BY <3>1, JoinThree, SMTT(40)
  <2>7. Requests' = (toServer \o (client_buf \o a)) \o z
    BY <2>3 DEF Requests, a, z
  <2> QED
    BY <2>3, <2>5, <2>6, <2>7, Zenon DEF Delivered
<1>8. ASSUME NEW n \in 1 .. Len(sNet), FastServerRead(n) PROVE Delivered'
  <2>1. /\ Requests' = Requests /\ base' = base /\ Due' = Due /\ dropped' = dropped
        /\ Talking /\ ~cClosed /\ "client" \notin misread
    BY <1>8, Zenon DEF FastServerRead, clientVars, serverVars, gaugeVars, loopVars, Requests,
       Due, Talking
  <2> QED
    BY <2>1 DEF Delivered
<1>9. ASSUME NEW n \in 1 .. Len(sNet), ServerRead(n) PROVE Delivered'
  <2>1. /\ Requests' = Requests /\ base' = base /\ Due' = Due /\ dropped' = dropped
        /\ Talking /\ ~cClosed /\ "client" \notin misread
    BY <1>9, SMTT(40) DEF ServerRead, clientVars, serverVars, gaugeVars, loopVars, Requests,
       Due, Talking
  <2> QED
    BY <2>1 DEF Delivered
<1>10. CASE SlowClientMessage
  <2> DEFINE S == Req(sends)
             h == SubSeq(client_buf, 1, 2)
             y == From(client_buf, 2)
             z == y \o cNet
             m == client_buf[1].msg
             v == Verdict(m)
  <2>0. /\ client_buf' = y /\ cNet' = cNet /\ base' = base /\ sends' = sends
        /\ Talking /\ ~cClosed /\ "client" \notin misread
        /\ toServer' = IF v = "dropped" THEN toServer ELSE toServer \o Parts([m EXCEPT !.via = v])
        /\ dropped' = IF v = "dropped" THEN dropped \cup {m} ELSE dropped
    BY <1>10 DEF SlowClientMessage, clientVars, Talking
  <2>1. /\ 2 \in 0 .. Len(client_buf) /\ cNet \in Seq(S) /\ client_buf \in Seq(S)
        /\ toServer \in Seq(S) /\ sends \in Nat /\ base \in Nat
    BY <1>10 DEF SlowClientMessage, Whole, Types
  <2>2. h \in Seq(S) /\ y \in Seq(S) /\ z \in Seq(S) /\ h \o z = Coming
    <3> HIDE DEF S
    <3>1. h \in Seq(S) /\ y \in Seq(S) /\ z \in Seq(S)
      BY <2>1, TakeStream, SMTT(60)
    <3>2. h \o z = client_buf \o cNet
      <4>1. h \o y = client_buf
        BY <2>1, Split
      <4> HIDE DEF h, y
      <4>2. h \in Seq(S) /\ y \in Seq(S) /\ cNet \in Seq(S)
        BY <2>1, <3>1
      <4>3. (h \o y) \o cNet = h \o (y \o cNet)
        BY <4>2, JoinThree, SMTT(40)
      <4> QED
        BY <4>1, <4>3
    <3> QED
      BY <3>1, <3>2, SMTT(40) DEF Coming
  <2>3. /\ Len(h) = 2 /\ h[1].part = 1 /\ h[2].part = 2
        /\ h[1].msg = m /\ h[2].msg = m
    BY <1>10, <2>0, FirstMessage DEF SlowClientMessage
  <2>4. /\ m \in ReqMsg(sends)
        /\ v # "dropped" => [m EXCEPT !.via = v] \in ReqMsg(sends)
        /\ v = "dropped" => m.kind = "latin"
    BY <1>10, ClientMessage
  <2> HIDE DEF S, h, y, z, m, v
  <2>5. Requests = toServer \o (h \o z)
    <3>1. toServer \in Seq(Req(sends)) /\ client_buf \in Seq(Req(sends)) /\ cNet \in Seq(Req(sends))
      BY DEF Types
    <3>2. toServer \o client_buf \o cNet = toServer \o (client_buf \o cNet)
      BY <3>1, PiecesType, SMTT(40)
    <3> QED
      BY <2>2, <3>2 DEF Requests, Coming
  <2>6. ReqDone(toServer \o (h \o z), base, Due)
    BY <2>0, <2>5 DEF Delivered
  <2>7. CASE v = "dropped"
    <3>1. Requests' = toServer \o z
      <4>1. Requests' = (toServer \o y) \o cNet
        BY <2>0, <2>7 DEF Requests
      <4>2. toServer \in Seq(S) /\ y \in Seq(S) /\ cNet \in Seq(S)
        BY <2>1, <2>2, Zenon
      <4> QED
        BY <4>1, <4>2, PiecesType, SMTT(40) DEF S, z
    <3>2. Due' = Due \ {h[1].msg.id}
      BY <2>0, <2>3, <2>7, Zenon DEF Due
    <3>3. ReqDone(toServer \o z, base, Due \ {h[1].msg.id})
      <4>1. /\ sends \in Nat /\ toServer \in Seq(Req(sends)) /\ h \in Seq(Req(sends))
            /\ z \in Seq(Req(sends)) /\ base \in Nat /\ Len(h) = 2
            /\ h[1].part = 1 /\ h[2].part = 2 /\ h[2].msg.id = h[1].msg.id
        BY <2>1, <2>2, <2>3, SMTT(40) DEF S
      <4> QED
        BY <2>6, <4>1, ReqDoneDrop, Zenon
    <3>4. \A x \in dropped' : x.kind = "latin"
      BY <2>0, <2>4, <2>7 DEF Delivered
    <3> QED
      BY <2>0, <3>1, <3>2, <3>3, <3>4 DEF Delivered
  <2>8. CASE v # "dropped"
    <3> DEFINE w == [m EXCEPT !.via = v]
               g == Parts(w)
    <3>1. /\ g \in Seq(S) /\ Len(g) = 2 /\ w.id = m.id
          /\ g[1] = [msg |-> w, part |-> 1] /\ g[2] = [msg |-> w, part |-> 2]
      <4>1. w \in ReqMsg(sends) /\ w.id = m.id
        BY <2>4, <2>8, SMTT(30) DEF ReqMsg
      <4> HIDE DEF w
      <4> QED
        BY <4>1, ReqParts, Halves, SMTT(40) DEF S
    <3>2. \A i \in {1, 2} : g[i].msg.id = h[i].msg.id /\ g[i].part = h[i].part
      <4> HIDE DEF w, g
      <4>1. g[1].msg.id = h[1].msg.id /\ g[1].part = h[1].part
        BY <2>3, <3>1, SMTT(40)
      <4>2. g[2].msg.id = h[2].msg.id /\ g[2].part = h[2].part
        BY <2>3, <3>1, SMTT(40)
      <4> QED
        BY <4>1, <4>2, Zenon
    <3>3. toServer' = toServer \o g /\ dropped' = dropped
      BY <2>0, <2>8
    <3> HIDE DEF w, g
    <3>4. Requests' = toServer \o (g \o z)
      <4>1. Requests' = ((toServer \o g) \o y) \o cNet
        BY <2>0, <3>3, Zenon DEF Requests
      <4>2. toServer \in Seq(S) /\ y \in Seq(S) /\ cNet \in Seq(S) /\ g \in Seq(S)
        BY <2>1, <2>2, <3>1, SMTT(40)
      <4> DEFINE x == toServer \o g
      <4>3. x \in Seq(S)
        BY <4>2, Joined
      <4>4. x \o z = toServer \o (g \o z)
        <5>1. toServer \in Seq(Req(sends)) /\ g \in Seq(Req(sends)) /\ z \in Seq(Req(sends))
          BY <2>2, <4>2 DEF S
        <5> QED
          BY <5>1, PiecesType, SMTT(40)
      <4> HIDE DEF x
      <4>5. (x \o y) \o cNet = x \o z
        <5>1. x \in Seq(Req(sends)) /\ y \in Seq(Req(sends)) /\ cNet \in Seq(Req(sends))
          BY <4>2, <4>3 DEF S
        <5> QED
          BY <5>1, PiecesType, SMTT(40) DEF z
      <4> QED
        BY <4>1, <4>4, <4>5 DEF x
    <3>5. Due' = Due
      BY <2>0, <3>3, SMTT(40) DEF Due
    <3>6. ReqDone(toServer \o (g \o z), base, Due)
      <4>1. /\ sends \in Nat /\ toServer \in Seq(Req(sends)) /\ h \in Seq(Req(sends))
            /\ g \in Seq(Req(sends)) /\ z \in Seq(Req(sends)) /\ Len(h) = 2 /\ Len(g) = 2
        BY <2>1, <2>2, <2>3, <3>1, Zenon DEF S
      <4> QED
        BY <2>6, <3>2, <4>1, ReqDoneReplace, Zenon
    <3> QED
      BY <2>0, <3>3, <3>4, <3>5, <3>6, Zenon DEF Delivered
  <2> QED
    BY <2>7, <2>8
<1>11. CASE SlowServerMessage
  <2>1. /\ Requests' = Requests /\ base' = base /\ Due' = Due /\ dropped' = dropped
        /\ Talking /\ ~cClosed /\ "client" \notin misread
    BY <1>11, SMTT(40) DEF SlowServerMessage, clientVars, serverVars, gaugeVars, loopVars,
       Requests, Due, Talking
  <2> QED
    BY <2>1 DEF Delivered
<1>12. CASE ResetMessage
  BY <1>12, Zenon DEF ResetMessage, ResetVerdict, Talking
<1>13. CASE NoMessage
  <2>1. /\ Requests' = Requests /\ base' = base /\ Due' = Due /\ dropped' = dropped
        /\ Talking /\ ~cClosed /\ "client" \notin misread
    BY <1>13, Zenon DEF NoMessage, clientVars, serverVars, gaugeVars, loopVars, Requests, Due,
       Talking
  <2> QED
    BY <2>1 DEF Delivered
<1>14. CASE Misframe
  <2>1. /\ Requests' = Requests /\ base' = base /\ Due' = Due /\ dropped' = dropped
        /\ Talking /\ ~cClosed /\ "client" \notin misread
    BY <1>14, SMTT(40) DEF Misframe, clientVars, serverVars, gaugeVars, loopVars, Requests,
       Due, Talking
  <2> QED
    BY <2>1 DEF Delivered
<1>20. ASSUME NEW n \in 0 .. Len(client_buf), MiscutClient(n) PROVE Delivered'
  BY <1>20, MiscutToServer, Zenon
<1>21. ASSUME NEW n \in 0 .. Len(server_buf), MiscutServer(n) PROVE Delivered'
  <2>1. /\ Requests' = Requests /\ base' = base /\ Due' = Due /\ dropped' = dropped
        /\ Talking /\ ~cClosed /\ "client" \notin misread
    BY <1>21, MiscutToClient, Zenon DEF clientVars, Requests, Due, Talking
  <2> QED
    BY <2>1 DEF Delivered
<1>22. ASSUME NEW n \in 0 .. Len(server_buf), MiscutReset(n) PROVE Delivered'
  BY <1>22, MiscutOfReset, SMTT(30) DEF Talking
<1>15. CASE EndSession
  BY <1>15 DEF EndSession, Talking
<1>16. CASE ResetEof
  BY <1>16 DEF ResetEof, Talking
<1>17. CASE Drop
  BY <1>17 DEF Drop, Talking
<1>18. CASE Reuse
  <2>1. /\ cNet' = <<>> /\ client_buf' = <<>> /\ toServer' = From(toServer, served)
        /\ base' = sends /\ sends' = sends /\ dropped' = {}
    BY <1>18, SMTT(40) DEF Reuse, Left
  <2>2. toServer' \in Seq(Req(sends)) /\ sends \in Nat
    BY <2>1, Rest, SMTT(40) DEF Types
  <2>3. Requests' = toServer'
    BY <2>1, <2>2, JoinEmpty DEF Requests
  <2>4. Due' = {}
    <3>1. sends + 1 .. sends = {}
      BY <2>2, SMTT(30)
    <3> QED
      BY <2>1, <3>1, SMTT(40) DEF Due
  <2>5. \A i \in 1 .. Len(toServer') : ~(toServer'[i].msg.id > base')
    <3>1. \A i \in 1 .. Len(toServer') : toServer'[i].msg.id \in 0 .. sends
      BY <2>2, ReqElement, Zenon DEF ReqMsg
    <3> QED
      BY <2>1, <2>2, <3>1, SMTT(40)
  <2> QED
    BY <2>1, <2>3, <2>4, <2>5, Zenon DEF Delivered, ReqDone
<1>19. ASSUME UNCHANGED vars PROVE Delivered'
  <2>1. /\ Requests' = Requests /\ base' = base /\ Due' = Due /\ dropped' = dropped
        /\ Talking /\ ~cClosed /\ "client" \notin misread
    BY <1>19, Zenon DEF vars, clientVars, serverVars, gaugeVars, loopVars, Requests, Due, Talking
  <2> QED
    BY <2>1 DEF Delivered
<1> QED
  BY <1>1, <1>2, <1>3, <1>4, <1>5, <1>6, <1>7, <1>8, <1>9, <1>10, <1>11, <1>12, <1>13, <1>14,
     <1>15, <1>16, <1>17, <1>18, <1>19, <1>20, <1>21, <1>22, Zenon DEF Next, Loops

\* The first session starts with empty streams.
LEMMA RInvInit == Init => RInv
<1> SUFFICES ASSUME Init PROVE RInv
  OBVIOUS
<1>1. Types
  BY DEF Init, Types
<1>2. Left
  BY DEF Init, Left
<1>3. WholeMessages
  <2>1. Coming = <<>> /\ Len(Coming) = 0 /\ Arriving = <<>> /\ Len(Arriving) = 0
    BY SMTT(30) DEF Init, Coming, Arriving
  <2> QED
    BY <2>1 DEF WholeMessages, Framed
<1>4. ServerGetsAll
  <2>1. Requests = <<>> /\ Due = {} /\ dropped = {} /\ base = 0 /\ Len(Requests) = 0
    <3>1. 0 + 1 .. 0 = {}
      OBVIOUS
    <3> QED
      BY <3>1 DEF Init, Requests, Due
  <2>2. ReqDone(Requests, base, Due)
    BY <2>1, SMTT(40) DEF ReqDone
  <2>3. Complete(RequestKeys(Requests, base), Due)
    <3>1. /\ sends \in Nat /\ toServer \in Seq(Req(sends)) /\ client_buf \in Seq(Req(sends))
          /\ cNet \in Seq(Req(sends)) /\ base \in Nat
      BY <1>1 DEF Types
    <3> QED
      BY <2>2, <3>1, DeliveredMeaning, Zenon DEF Requests, Due
  <2> QED
    BY <2>1, <2>3, SMTT(40) DEF ServerGetsAll, Requests, Due
<1> QED
  BY <1>1, <1>2, <1>3, <1>4 DEF RInv

\* Every step of the client, the server, the loops and the reset keeps RInv.
LEMMA RInvStep == RInv /\ [Next]_vars => RInv'
<1> SUFFICES ASSUME RInv, [Next]_vars PROVE RInv'
  OBVIOUS
<1>1. Types /\ Left /\ WholeMessages /\ ServerGetsAll
  BY DEF RInv
<1>2. Types' /\ Left'
  BY <1>1, TypesStep, LeftStep
<1>3. WholeMessages'
  BY <1>1, ComingStep, ArrivingStep, SMTT(30) DEF WholeMessages
<1>4. Talking /\ ~cClosed /\ "client" \notin misread => Delivered
  <2>1. /\ sends \in Nat /\ toServer \in Seq(Req(sends)) /\ client_buf \in Seq(Req(sends))
        /\ cNet \in Seq(Req(sends)) /\ base \in Nat
    BY <1>1 DEF Types
  <2>2. Complete(RequestKeys(Requests, base), Due) <=> ReqDone(Requests, base, Due)
    BY <2>1, DeliveredMeaning, Zenon DEF Requests, Due
  <2> QED
    BY <1>1, <2>2, Zenon DEF ServerGetsAll, Delivered, Requests, Due
<1>5. (Talking /\ ~cClosed /\ "client" \notin misread)' => Delivered'
  BY <1>1, <1>4, DeliveredStep, Zenon DEF WholeMessages
<1>6. ServerGetsAll'
  <2>1. /\ sends' \in Nat /\ toServer' \in Seq(Req(sends')) /\ client_buf' \in Seq(Req(sends'))
        /\ cNet' \in Seq(Req(sends')) /\ base' \in Nat
    BY <1>2 DEF Types
  <2>2. Complete(RequestKeys(Requests', base'), Due') <=> ReqDone(Requests', base', Due')
    BY <2>1, DeliveredMeaning, Zenon DEF Requests, Due
  <2> QED
    BY <1>5, <2>2, SMTT(40) DEF ServerGetsAll, Delivered, Requests, Due
<1> QED
  BY <1>2, <1>3, <1>6 DEF RInv

\* RInv holds throughout.
LEMMA RInvAlways == Spec => []RInv
  BY RInvInit, RInvStep, PTL DEF Spec

\* Until slow_proxy_loop takes the middle of a message for a header (FramesAreKept: never,
\* for a polite client) the server gets what a connected client has sent in order and
\* once, across every switch between the loops; only queries that are not UTF-8, which
\* the slow loop drops, are missing.
THEOREM NothingLostToServer == Spec => []ServerGetsAll
<1>1. RInv => ServerGetsAll
  BY DEF RInv
<1> QED
  BY <1>1, RInvAlways, PTL
=============================================================================
