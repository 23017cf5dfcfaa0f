---------------------------- MODULE ProxyAnswers ----------------------------
(***************************************************************************)
(* The answers, for every number of messages and of sessions and however   *)
(* the streams are cut into reads.                                         *)
(*                                                                         *)
(* AInv: everything the server sends in a session reaches the client or is *)
(* on its way, and the status scanner of the fast loop is in the middle of *)
(* a message exactly when an odd number of halves is still to come.  That  *)
(* needs a connection that was handed over with nothing on its way (Quiet).*)
(*                                                                         *)
(* This module shows that each step keeps it, and what a step does to the  *)
(* requests that are open and to the answers that arrive when the client   *)
(* waits for the answer to one request or one extended query (Group,       *)
(* ReadyLast).                                                             *)
(***************************************************************************)
EXTENDS ProxyProofs

-----------------------------------------------------------------------------
(* The invariant *)

\* A pooled connection owes nothing: no request is unanswered, no answer unread.
Quiet == mode = "pooled" => Open = <<>> /\ Arriving = <<>>

\* The session's connection was new, or its predecessors were polite.
Handed == Polite \/ session = 1

\* The fast loop's scanner waits for a payload exactly when one comes next, until the
\* slow loop has cut the stream wrongly.
SkipParity ==
  Handed /\ Talking /\ "server" \notin misread => (skip <=> Len(Arriving) % 2 = 1)

AInv == SkipParity /\ (Handed => ClientGetsAll)

\* A polite client waits for the answer to one request or to one group of an
\* extended query: what the server has not processed yet, r, when b of n requests were
\* sent in earlier sessions and l is the kind of the last one.
Group(r, b, n, l) ==
  /\ \A i \in 1 .. Len(r) :
       /\ r[i].msg.id > b
       /\ i + 2 <= Len(r) => r[i].msg.kind = "parse"
       /\ i + 2 > Len(r) => r[i].msg.id = n /\ r[i].msg.kind = l
  /\ Len(r) > 2 => l \in {"parse", "sync"}

\* ReadyForQuery is the last of what arrives, d, it answers the last request and it
\* tells the state of the transaction, t.
Plain(d, b) ==
  \A i \in 1 .. Len(d) : d[i].msg.kind \notin {"notice", "ready"} /\ d[i].msg.ans > b
ReadyLast(d, r, b, n, l, t) ==
  \A i \in 1 .. Len(d) :
     /\ d[i].msg.kind # "notice" /\ d[i].msg.ans > b
     /\ d[i].msg.kind = "ready" =>
          /\ r = <<>> /\ i + 2 > Len(d) /\ l # "parse"
          /\ d[i].msg.ans = n
          /\ d[i].msg.idle <=> t = "idle"

-----------------------------------------------------------------------------
(* The answers in a stream *)

\* Complete, half by half: the server's messages with a number in ids
\* are there, in order.
AnsDone(s, ids) ==
  /\ \A i, j \in 1 .. Len(s) : i < j /\ s[i].msg.kind # "notice" /\ s[j].msg.kind # "notice" =>
        2 * s[i].msg.no + s[i].part < 2 * s[j].msg.no + s[j].part
  /\ \A i \in 1 .. Len(s) : s[i].msg.kind # "notice" => s[i].msg.no \in ids
  /\ \A x \in ids, p \in {1, 2} :
        \E i \in 1 .. Len(s) : s[i].msg.kind # "notice" /\ s[i].msg.no = x /\ s[i].part = p

\* What ClientGetsAll says of a stream, without the sequence of its keys.
LEMMA AnsDoneMeaning ==
  ASSUME NEW q, NEW s \in Seq(Ans(q)), NEW ids \in SUBSET Nat
  PROVE  Complete(AnswerKeys(s), ids) <=> AnsDone(s, ids)
<1> DEFINE own == {j \in DOMAIN s : s[j].msg.kind # "notice"}
           key(i) == 2 * s[i].msg.no + s[i].part
           f == AnswerKeys(s)
           all == {2 * x + p : x \in ids, p \in {1, 2}}
<1>1. \A i \in 1 .. Len(s) : s[i].msg.no \in Nat /\ s[i].part \in {1, 2}
  BY AnsElement DEF AnsMsg
<1>2. DOMAIN s = 1 .. Len(s)
  OBVIOUS
<1>3. DOMAIN f = own /\ \A i \in own : f[i] = key(i)
  BY DEF AnswerKeys
<1>4. \A i : i \in own <=> i \in 1 .. Len(s) /\ s[i].msg.kind # "notice"
  BY <1>2
<1> HIDE DEF f, own
<1>5. (\A i, j \in DOMAIN f : i < j => f[i] < f[j]) <=>
      (\A i, j \in 1 .. Len(s) :
         i < j /\ s[i].msg.kind # "notice" /\ s[j].msg.kind # "notice" => key(i) < key(j))
  BY <1>3, <1>4, SMTT(40)
<1>6. ASSUME Range(f) = all
      PROVE  /\ \A i \in 1 .. Len(s) : s[i].msg.kind # "notice" => s[i].msg.no \in ids
             /\ \A x \in ids, p \in {1, 2} :
                   \E i \in 1 .. Len(s) : s[i].msg.kind # "notice" /\ s[i].msg.no = x /\ s[i].part = p
  <2>1. ASSUME NEW i \in 1 .. Len(s), s[i].msg.kind # "notice" PROVE s[i].msg.no \in ids
    <3>1. key(i) \in Range(f)
      BY <1>3, <1>4, <2>1 DEF Range
    <3>2. PICK x \in ids, p \in {1, 2} : key(i) = 2 * x + p
      BY <1>6, <3>1
    <3>3. s[i].msg.no = x
      <4>1. s[i].msg.no \in Nat /\ s[i].part \in {1, 2} /\ x \in Nat
        BY <1>1
      <4> QED
        BY <3>2, <4>1, KeyOf, Zenon
    <3> QED
      BY <3>3
  <2>2. ASSUME NEW x \in ids, NEW p \in {1, 2}
        PROVE  \E i \in 1 .. Len(s) : s[i].msg.kind # "notice" /\ s[i].msg.no = x /\ s[i].part = p
    <3>1. 2 * x + p \in Range(f)
      BY <1>6
    <3>2. PICK i \in own : key(i) = 2 * x + p
      BY <1>3, <3>1 DEF Range
    <3>3. i \in 1 .. Len(s) /\ s[i].msg.kind # "notice"
      BY <1>4
    <3>4. /\ s[i].msg.no \in Nat /\ s[i].part \in {1, 2} /\ x \in Nat
          /\ 2 * s[i].msg.no + s[i].part = 2 * x + p
      BY <1>1, <3>2, <3>3
    <3>5. s[i].msg.no = x
      BY <3>4, KeyOf, Zenon
    <3>6. s[i].part = p
      <4>1. \A y \in {1, 2} : 2 * x + y = 2 * x + p => y = p
        BY <3>4
      <4> QED
        BY <3>4, <3>5, <4>1
    <3> QED
      BY <3>3, <3>5, <3>6
  <2> QED
    BY <2>1, <2>2
<1>7. ASSUME \A i \in 1 .. Len(s) : s[i].msg.kind # "notice" => s[i].msg.no \in ids,
             \A x \in ids, p \in {1, 2} :
               \E i \in 1 .. Len(s) : s[i].msg.kind # "notice" /\ s[i].msg.no = x /\ s[i].part = p
      PROVE  Range(f) = all
  <2>1. ASSUME NEW y \in Range(f) PROVE y \in all
    <3>1. PICK i \in own : y = key(i)
      BY <1>3 DEF Range
    <3>2. s[i].msg.no \in ids /\ s[i].part \in {1, 2}
      BY <1>1, <1>4, <1>7
    <3>3. \E x \in ids, p \in {1, 2} : y = 2 * x + p
      BY <3>1, <3>2, Zenon
    <3> QED
      BY <3>3
  <2>2. ASSUME NEW y \in all PROVE y \in Range(f)
    <3>1. PICK x \in ids, p \in {1, 2} : y = 2 * x + p
      BY <2>2
    <3>2. PICK i \in 1 .. Len(s) : s[i].msg.kind # "notice" /\ s[i].msg.no = x /\ s[i].part = p
      BY <1>7
    <3>3. i \in own /\ y = key(i)
      BY <1>4, <3>1, <3>2
    <3> QED
      BY <1>3, <3>3 DEF Range
  <2> QED
    BY <2>1, <2>2
<1>8. Range(f) = all <=>
      /\ \A i \in 1 .. Len(s) : s[i].msg.kind # "notice" => s[i].msg.no \in ids
      /\ \A x \in ids, p \in {1, 2} :
            \E i \in 1 .. Len(s) : s[i].msg.kind # "notice" /\ s[i].msg.no = x /\ s[i].part = p
  BY <1>6, <1>7
<1> QED
  BY <1>5, <1>8 DEF Complete, AnsDone, f

\* A new message at the end.
LEMMA AnsDoneAppend ==
  ASSUME NEW q, NEW s \in Seq(Ans(q)), NEW n \in Nat, NEW ids \in SUBSET (0 .. n), AnsDone(s, ids),
         NEW m \in AnsMsg(q), m.no = n + 1, m.kind # "notice"
  PROVE  AnsDone(s \o Parts(m), ids \cup {n + 1})
<1> DEFINE c == s \o Parts(m)
           key(i) == 2 * c[i].msg.no + c[i].part
<1>1. /\ Parts(m) \in Seq(Ans(q)) /\ Len(Parts(m)) = 2
      /\ Parts(m)[1] = [msg |-> m, part |-> 1] /\ Parts(m)[2] = [msg |-> m, part |-> 2]
  BY AnsParts, Halves, SMTT(30)
<1>2. /\ Len(s) \in Nat /\ Len(c) = Len(s) + Len(Parts(m))
      /\ \A k \in 1 .. Len(s) : c[k] = s[k]
      /\ \A k \in 1 .. Len(Parts(m)) : c[Len(s) + k] = Parts(m)[k]
  <2>1. Parts(m) \in Seq(Ans(q))
    BY <1>1
  <2> QED
    BY <2>1, Joined
<1>3. /\ Len(c) = Len(s) + 2
      /\ c[Len(s) + 1].msg = m /\ c[Len(s) + 1].part = 1
      /\ c[Len(s) + 2].msg = m /\ c[Len(s) + 2].part = 2
  BY <1>1, <1>2
<1>4. \A i \in 1 .. Len(s) : s[i].part \in {1, 2}
  BY AnsElement
<1> HIDE DEF c
<1>5. \A i \in 1 .. Len(c) : i \in 1 .. Len(s) \/ i = Len(s) + 1 \/ i = Len(s) + 2
  <2>1. Len(s) \in Nat /\ Len(c) = Len(s) + 2
    BY <1>2, <1>3
  <2> QED
    BY <2>1
<1>6. ASSUME NEW i \in 1 .. Len(c), NEW j \in 1 .. Len(c), i < j,
             c[i].msg.kind # "notice", c[j].msg.kind # "notice"
      PROVE  key(i) < key(j)
  <2>1. CASE j \in 1 .. Len(s)
    <3>1. i \in 1 .. Len(s)
      BY <1>2, <1>6, <2>1
    <3>2. c[i] = s[i] /\ c[j] = s[j]
      BY <1>2, <2>1, <3>1
    <3> QED
      BY <1>6, <2>1, <3>1, <3>2 DEF AnsDone
  <2>2. CASE j \notin 1 .. Len(s) /\ i \in 1 .. Len(s)
    <3>1. c[i].msg.no \in 0 .. n /\ c[i].part \in {1, 2}
      <4>1. c[i] = s[i] /\ s[i].msg.no \in ids
        BY <1>2, <1>6, <2>2, SMTT(40) DEF AnsDone
      <4> QED
        BY <1>4, <2>2, <4>1, Zenon
    <3>2. c[j].msg.no = n + 1 /\ c[j].part \in {1, 2}
      BY <1>3, <1>5, <2>2
    <3> QED
      BY <3>1, <3>2, KeyLess, Zenon
  <2>3. CASE j \notin 1 .. Len(s) /\ i \notin 1 .. Len(s)
    <3>1. i = Len(s) + 1 /\ j = Len(s) + 2
      BY <1>2, <1>5, <1>6, <2>3
    <3> QED
      BY <1>3, <3>1
  <2> QED
    BY <2>1, <2>2, <2>3
<1>7. ASSUME NEW i \in 1 .. Len(c), c[i].msg.kind # "notice" PROVE c[i].msg.no \in ids \cup {n + 1}
  <2>1. CASE i \in 1 .. Len(s)
    <3>1. c[i].msg.no \in ids
      BY <1>2, <1>7, <2>1 DEF AnsDone
    <3> QED
      BY <3>1
  <2>2. CASE i \notin 1 .. Len(s)
    <3>1. c[i].msg.no = n + 1
      BY <1>3, <1>5, <2>2
    <3> QED
      BY <3>1
  <2> QED
    BY <2>1, <2>2
<1>8. ASSUME NEW x \in ids \cup {n + 1}, NEW p \in {1, 2}
      PROVE  \E i \in 1 .. Len(c) : c[i].msg.kind # "notice" /\ c[i].msg.no = x /\ c[i].part = p
  <2>1. CASE x \in ids
    <3>1. PICK i \in 1 .. Len(s) : s[i].msg.kind # "notice" /\ s[i].msg.no = x /\ s[i].part = p
      BY <2>1 DEF AnsDone
    <3>2. i \in 1 .. Len(c) /\ c[i] = s[i]
      BY <1>2, <1>3
    <3> QED
      BY <3>1, <3>2
  <2>2. CASE x = n + 1
    <3>1. Len(s) + 1 \in 1 .. Len(c) /\ Len(s) + 2 \in 1 .. Len(c)
      BY <1>2, <1>3
    <3> QED
      BY <1>3, <2>2, <3>1
  <2> QED
    BY <2>1, <2>2
<1> QED
  BY <1>6, <1>7, <1>8, Zenon DEF AnsDone, c

\* A notice in between.
LEMMA AnsDoneNotice ==
  ASSUME NEW q, NEW a \in Seq(Ans(q)), NEW z \in Seq(Ans(q)), NEW g \in Seq(Ans(q)), NEW ids,
         Len(g) = 2, \A i \in {1, 2} : g[i].msg.kind = "notice", AnsDone(a \o z, ids)
  PROVE  AnsDone(a \o (g \o z), ids)
<1> DEFINE s == a \o z
           t == a \o (g \o z)
           p == Len(a)
           back(i) == IF i <= p THEN i ELSE i - 2
<1>a. Pieces(t, a, g, z)
  BY Three
<1>1. /\ p \in Nat /\ Len(z) \in Nat /\ Len(s) = p + Len(z)
      /\ \A i \in 1 .. p : s[i] = a[i]
      /\ \A i \in 1 .. Len(z) : s[p + i] = z[i]
  BY Joined
<1>2. AnsDone(s, ids)
  OBVIOUS
<1> HIDE DEF s, t, p
<1>3. /\ Len(t) = p + 2 + Len(z)
      /\ \A i \in 1 .. p : t[i] = a[i]
      /\ \A i \in 1 .. 2 : t[p + i] = g[i]
      /\ \A i \in 1 .. Len(z) : t[p + 2 + i] = z[i]
  BY <1>a DEF Pieces, p
<1>4. t[p + 1].msg.kind = "notice" /\ t[p + 2].msg.kind = "notice"
  <2>1. 1 \in 1 .. 2 /\ 2 \in 1 .. 2
    OBVIOUS
  <2> QED
    BY <1>3, <2>1
<1>5. ASSUME NEW i \in 1 .. Len(t), t[i].msg.kind # "notice"
      PROVE  back(i) \in 1 .. Len(s) /\ s[back(i)] = t[i] /\ i # p + 1 /\ i # p + 2
  <2>1. i # p + 1 /\ i # p + 2
    BY <1>4, <1>5
  <2>2. CASE i <= p
    <3>1. i \in 1 .. p /\ i \in 1 .. Len(s)
      BY <1>1, <2>2
    <3> QED
      BY <1>1, <1>3, <2>1, <2>2, <3>1
  <2>3. CASE ~(i <= p)
    <3> DEFINE k == i - p - 2
    <3>1. k \in 1 .. Len(z) /\ i = p + 2 + k /\ i - 2 = p + k /\ i - 2 \in 1 .. Len(s)
      BY <1>1, <1>3, <2>1, <2>3
    <3>2. t[p + 2 + k] = z[k] /\ s[p + k] = z[k]
      BY <1>1, <1>3, <3>1, Zenon
    <3> QED
      BY <2>1, <2>3, <3>1, <3>2
  <2> QED
    BY <2>2, <2>3
<1>6. ASSUME NEW k \in 1 .. Len(s) PROVE \E i \in 1 .. Len(t) : t[i] = s[k]
  <2>1. CASE k <= p
    <3>1. k \in 1 .. p /\ k \in 1 .. Len(t)
      BY <1>1, <1>3, <2>1
    <3> QED
      BY <1>1, <1>3, <3>1
  <2>2. CASE ~(k <= p)
    <3> DEFINE x == k - p
    <3>1. x \in 1 .. Len(z) /\ k = p + x /\ p + 2 + x \in 1 .. Len(t)
      <4>1. p \in Nat /\ Len(z) \in Nat /\ Len(s) = p + Len(z) /\ Len(t) = p + 2 + Len(z)
        BY <1>1, <1>3, Zenon
      <4> QED
        BY <2>2, <4>1
    <3>2. t[p + 2 + x] = z[x] /\ s[p + x] = z[x]
      BY <1>1, <1>3, <3>1, Zenon
    <3> QED
      BY <3>1, <3>2
  <2> QED
    BY <2>1, <2>2
<1>7. ASSUME NEW i \in 1 .. Len(t), NEW j \in 1 .. Len(t), i < j,
             t[i].msg.kind # "notice", t[j].msg.kind # "notice"
      PROVE  2 * t[i].msg.no + t[i].part < 2 * t[j].msg.no + t[j].part
  <2>1. /\ back(i) \in 1 .. Len(s) /\ s[back(i)] = t[i] /\ i # p + 1 /\ i # p + 2
        /\ back(j) \in 1 .. Len(s) /\ s[back(j)] = t[j] /\ j # p + 1 /\ j # p + 2
    BY <1>5, <1>7
  <2>2. back(i) < back(j)
    <3>1. i \in Int /\ j \in Int /\ p \in Int
      BY <1>1
    <3> QED
      BY <1>7, <2>1, <3>1
  <2> HIDE DEF back
  <2>3. /\ s[back(i)].msg.kind # "notice" /\ s[back(j)].msg.kind # "notice"
    BY <1>7, <2>1
  <2>4. 2 * s[back(i)].msg.no + s[back(i)].part < 2 * s[back(j)].msg.no + s[back(j)].part
    BY <1>2, <2>1, <2>2, <2>3, Zenon DEF AnsDone
  <2> QED
    BY <2>1, <2>4
<1> HIDE DEF back
<1>8. ASSUME NEW i \in 1 .. Len(t), t[i].msg.kind # "notice" PROVE t[i].msg.no \in ids
  <2>1. back(i) \in 1 .. Len(s) /\ s[back(i)] = t[i]
    BY <1>5, <1>8
  <2> QED
    BY <1>2, <1>8, <2>1, SMTT(40) DEF AnsDone
<1>9. ASSUME NEW x \in ids, NEW r \in {1, 2}
      PROVE  \E i \in 1 .. Len(t) : t[i].msg.kind # "notice" /\ t[i].msg.no = x /\ t[i].part = r
  <2>0. \A y \in ids, w \in {1, 2} :
          \E k \in 1 .. Len(s) : s[k].msg.kind # "notice" /\ s[k].msg.no = y /\ s[k].part = w
    BY <1>2, Zenon DEF AnsDone
  <2>1. PICK k \in 1 .. Len(s) : s[k].msg.kind # "notice" /\ s[k].msg.no = x /\ s[k].part = r
    BY <2>0, Zenon
  <2>2. PICK i \in 1 .. Len(t) : t[i] = s[k]
    BY <1>6
  <2>3. t[i].msg.kind # "notice" /\ t[i].msg.no = x /\ t[i].part = r
    BY <2>1, <2>2
  <2> QED
    BY <2>3
<1>10. AnsDone(t, ids)
  BY <1>7, <1>8, <1>9 DEF AnsDone
<1> QED
  BY <1>10 DEF t
-----------------------------------------------------------------------------
(* Nothing the server sends is lost *)

\* All of the server's stream in this session.
Sent == toClient \o server_buf \o sNet

\* The server's stream in its three places.
LEMMA AnsPieces ==
  ASSUME NEW n, NEW a \in Seq(Ans(n)), NEW b \in Seq(Ans(n)), NEW c \in Seq(Ans(n))
  PROVE  a \o b \o c \in Seq(Ans(n)) /\ a \o b \o c = a \o (b \o c)
<1>1. a \o b \in Seq(Ans(n))
  BY Joined
<1>2. (a \o b) \o c \in Seq(Ans(n))
  BY <1>1, Joined
<1>3. (a \o b) \o c = a \o (b \o c)
  BY JoinThree
<1> QED
  BY <1>2, <1>3

\* A notice counts as no answer.
LEMMA NoticeKind == \A i \in {1, 2} : Notice[i].msg.kind = "notice"
  BY DEF Notice, Parts

\* The message the slow loop takes is the next one of the server.
LEMMA FirstAnswer ==
  ASSUME Types, Framed(Arriving), Whole(server_buf)
  PROVE  LET h == Parts(server_buf[1].msg)
             y == From(server_buf, 2) IN
         h \in Seq(Ans(sends)) /\ y \in Seq(Ans(sends)) /\ h \o y = server_buf
<1> DEFINE S == Ans(sends)
           m == server_buf[1].msg
           h == Parts(m)
           g == SubSeq(server_buf, 1, 2)
           y == From(server_buf, 2)
<1>1. /\ server_buf \in Seq(S) /\ sNet \in Seq(S)
      /\ Len(server_buf) \in Nat /\ Len(server_buf) >= 2 /\ server_buf[1].part = 1
  BY DEF Types, Whole
<1>2. /\ g \in Seq(S) /\ Len(g) = 2 /\ g[1] = server_buf[1] /\ g[2] = server_buf[2]
      /\ y \in Seq(S)
  <2>1. 2 \in 0 .. Len(server_buf) /\ 1 \in 1 .. 2 /\ 2 \in 1 .. 2
    BY <1>1
  <2> QED
    BY <1>1, <2>1, Taken DEF From
<1>3. /\ Len(Arriving) = Len(server_buf) + Len(sNet) /\ Len(sNet) \in Nat
      /\ \A k \in 1 .. Len(server_buf) : Arriving[k] = server_buf[k]
  BY <1>1, Joined DEF Arriving
<1>4. /\ Arriving[1] = server_buf[1] /\ Arriving[2] = server_buf[2]
      /\ 1 \in 1 .. Len(Arriving) /\ 2 \in 1 .. Len(Arriving)
  BY <1>1, <1>3
<1>5. (Len(Arriving) - 1) % 2 = 1 /\ Arriving[2].msg = Arriving[1].msg
  BY <1>1, <1>4 DEF Framed
<1>6. (Len(Arriving) - 2) % 2 # 1
  <2>1. Len(Arriving) \in Int
    BY <1>1, <1>3
  <2> QED
    BY <1>5, <2>1
<1>7. server_buf[2].part # 1
  BY <1>4, <1>6 DEF Framed
<1>8. server_buf[1] \in S /\ server_buf[2] \in S
  <2>1. 1 \in 1 .. Len(server_buf) /\ 2 \in 1 .. Len(server_buf)
    BY <1>1
  <2> QED
    BY <1>1, <2>1, Element
<1>9. server_buf[1] = [msg |-> m, part |-> 1] /\ server_buf[2] = [msg |-> m, part |-> 2]
  BY <1>1, <1>4, <1>5, <1>7, <1>8 DEF Ans
<1>10. /\ h \in Seq(S) /\ Len(h) = 2
       /\ h[1] = [msg |-> m, part |-> 1] /\ h[2] = [msg |-> m, part |-> 2]
  BY <1>8, <1>9, Halves
<1>11. g = h
  <2> HIDE DEF g, h
  <2>1. \A i \in 1 .. Len(g) : g[i] = h[i]
    <3>1. \A i \in 1 .. 2 : i = 1 \/ i = 2
      OBVIOUS
    <3> QED
      BY <1>2, <1>9, <1>10, <3>1
  <2> QED
    BY <1>2, <1>10, <2>1, Same
<1>12. g \o y = server_buf
  <2>1. 2 \in 0 .. Len(server_buf)
    BY <1>1
  <2> QED
    BY <1>1, <2>1, Split
<1> QED
  BY <1>2, <1>10, <1>11, <1>12, Zenon

\* More from the server.
LEMMA SentMore ==
  ASSUME Types, server_buf' = server_buf, toClient' = toClient, AnsDone(Sent, 1 .. no),
         NEW m \in AnsMsg(sends), m.no = no + 1, m.kind # "notice"
  PROVE  /\ sNet' = sNet \o Parts(m) /\ no' = no + 1 => AnsDone(Sent', 1 .. no')
         /\ \A z \in AnsMsg(sends) :
              sNet' = sNet \o Parts(m) \o Parts(z) /\ no' = no + 2 /\ z.no = no + 2 /\ z.kind # "notice"
                => AnsDone(Sent', 1 .. no')
<1> DEFINE S == Ans(sends)
           u == toClient \o server_buf
           g == Parts(m)
<1>0. no \in Nat
  BY DEF Types
<1>1. u \in Seq(S) /\ sNet \in Seq(S) /\ g \in Seq(S)
  BY Joined, AnsParts, Zenon DEF Types
<1>2. Sent \in Seq(S) /\ Sent = u \o sNet
  BY <1>1, Joined DEF Sent
<1>3. 1 .. no \in SUBSET (0 .. no) /\ 1 .. no + 1 = (1 .. no) \cup {no + 1}
  BY <1>0
<1> DEFINE ids == 1 .. no
<1> HIDE DEF ids, S, u, g
<1>4. AnsDone(Sent \o g, 1 .. no + 1)
  <2>1. ids \in SUBSET (0 .. no) /\ 1 .. no + 1 = ids \cup {no + 1} /\ AnsDone(Sent, ids)
    BY <1>3 DEF ids
  <2>2. AnsDone(Sent \o Parts(m), ids \cup {no + 1})
    BY <1>0, <1>2, <2>1, AnsDoneAppend, Zenon DEF S
  <2> QED
    BY <2>1, <2>2, Zenon DEF g
<1>5. u \o (sNet \o g) = Sent \o g
  <2>1. u \in Seq(S) /\ sNet \in Seq(S) /\ g \in Seq(S)
    BY <1>1
  <2>2. (u \o sNet) \o g = u \o (sNet \o g)
    BY <2>1, JoinThree
  <2> QED
    BY <1>2, <2>2
<1>6. ASSUME sNet' = sNet \o Parts(m), no' = no + 1 PROVE AnsDone(Sent', 1 .. no')
  <2>1. Sent' = u \o (sNet \o g)
    BY <1>6 DEF Sent, u, g
  <2> QED
    BY <1>4, <1>5, <1>6, <2>1
<1>7. ASSUME NEW z \in AnsMsg(sends), sNet' = sNet \o Parts(m) \o Parts(z), no' = no + 2,
             z.no = no + 2, z.kind # "notice"
      PROVE  AnsDone(Sent', 1 .. no')
  <2> DEFINE f == Parts(z)
             x == sNet \o g
             w == Sent \o g
  <2>1. f \in Seq(S) /\ x \in Seq(S) /\ w \in Seq(S)
    BY <1>1, <1>2, AnsParts, Joined, Zenon DEF S
  <2>2. 1 .. no + 1 \in SUBSET (0 .. no + 1) /\ 1 .. no + 2 = (1 .. no + 1) \cup {no + 2}
        /\ no + 1 \in Nat /\ (no + 1) + 1 = no + 2
    BY <1>0
  <2> DEFINE more == 1 .. no + 1
             k == no + 1
  <2>3. AnsDone(w, more) /\ u \o x = w
    BY <1>4, <1>5
  <2>4. more \in SUBSET (0 .. k) /\ k \in Nat /\ k + 1 = no + 2 /\ 1 .. no + 2 = more \cup {k + 1}
    BY <2>2
  <2> HIDE DEF f, x, w, more, k
  <2>5. AnsDone(w \o Parts(z), more \cup {k + 1})
    <3>1. z.no = k + 1
      BY <1>7, <2>4
    <3> QED
      BY <1>7, <2>1, <2>3, <2>4, <3>1, AnsDoneAppend, Zenon DEF S
  <2>6. u \o (x \o f) = (u \o x) \o f
    <3>1. u \in Seq(S) /\ x \in Seq(S) /\ f \in Seq(S)
      BY <1>1, <2>1
    <3> QED
      BY <3>1, JoinThree, SMTT(30)
  <2>7. Sent' = u \o (x \o f)
    BY <1>7 DEF Sent, u, g, x, f
  <2> QED
    BY <1>7, <2>3, <2>4, <2>5, <2>6, <2>7, Zenon DEF f
<1> QED
  BY <1>6, <1>7, Zenon

\* The proxy's notice is added to what the client gets.
LEMMA SentNotice ==
  ASSUME Types, server_buf' = server_buf, sNet' = sNet, no' = no, AnsDone(Sent, 1 .. no),
         toClient' = toClient \/ toClient' = toClient \o Notice
  PROVE  AnsDone(Sent', 1 .. no')
<1>1. CASE toClient' = toClient
  BY <1>1 DEF Sent
<1>2. CASE toClient' = toClient \o Notice
  <2> DEFINE S == Ans(sends)
  <2>1. toClient \in Seq(S) /\ server_buf \in Seq(S) /\ sNet \in Seq(S) /\ sends \in Nat
    BY DEF Types
  <2>2. /\ Notice \in Seq(S) /\ Len(Notice) = 2
        /\ \A i \in {1, 2} : Notice[i].msg.kind = "notice"
    BY <2>1, NoticeType, NoticeKind
  <2>3. Arriving \in Seq(S)
    BY <2>1, Joined DEF Arriving
  <2>4. toClient \o Notice \in Seq(S)
    BY <2>1, <2>2, Joined
  <2>5. Sent = toClient \o Arriving
    BY <2>1, AnsPieces, SMTT(40) DEF Sent, Arriving
  <2>6. Sent' = (toClient \o Notice) \o Arriving
    <3> DEFINE t == toClient \o Notice
    <3> HIDE DEF t
    <3>1. t \in Seq(Ans(sends)) /\ server_buf \in Seq(Ans(sends)) /\ sNet \in Seq(Ans(sends))
      BY <2>1, <2>4 DEF t
    <3>2. (t \o server_buf) \o sNet = t \o (server_buf \o sNet)
      BY <3>1, JoinThree, SMTT(40)
    <3> QED
      BY <1>2, <3>2 DEF Sent, Arriving, t
  <2>a. (toClient \o Notice) \o Arriving = toClient \o (Notice \o Arriving)
    <3> HIDE DEF S
    <3>1. toClient \in Seq(S) /\ Notice \in Seq(S) /\ Arriving \in Seq(S)
      BY <2>1, <2>2, <2>3
    <3> QED
      BY <3>1, JoinThree, SMTT(40)
  <2>7. Sent' = toClient \o (Notice \o Arriving)
    BY <2>6, <2>a
  <2>8. AnsDone(toClient \o Arriving, 1 .. no)
    BY <2>5
  <2> DEFINE ids == 1 .. no
  <2> HIDE DEF ids, S
  <2>9. AnsDone(toClient \o (Notice \o Arriving), ids)
    BY <2>1, <2>2, <2>3, <2>8, AnsDoneNotice, Zenon DEF ids, S
  <2> QED
    BY <2>7, <2>9 DEF ids
<1> QED
  BY <1>1, <1>2

\* Every step keeps what the server has sent in the stream.
LEMMA SentStep ==
  ASSUME Types, Left, Framed(Arriving), Polite => Quiet,
         Handed /\ Talking => AnsDone(Sent, 1 .. no), [Next]_vars
  PROVE  (Handed /\ Talking)' => AnsDone(Sent', 1 .. no')
<1> SUFFICES ASSUME Handed', Talking' PROVE AnsDone(Sent', 1 .. no')
  OBVIOUS
<1>1. ASSUME NEW k \in Kinds, ClientSends(k) PROVE AnsDone(Sent', 1 .. no')
  <2>1. Sent' = Sent /\ no' = no /\ Handed /\ Talking
    BY <1>1 DEF ClientSends, clientVars, serverVars, gaugeVars, loopVars, Sent, Handed, Talking
  <2> QED
    BY <2>1
<1>2. ASSUME NEW n \in 0 .. Len(cNet), ClientCloses(n) PROVE AnsDone(Sent', 1 .. no')
  <2>1. Sent' = Sent /\ no' = no /\ Handed /\ Talking
    BY <1>2 DEF ClientCloses, clientVars, serverVars, gaugeVars, loopVars, Sent, Handed, Talking
  <2> QED
    BY <2>1
<1>3. CASE ServerAnswers
  <2>1. server_buf' = server_buf /\ toClient' = toClient /\ Handed /\ Talking
    BY <1>3, SMTT(40) DEF ServerAnswers, clientVars, serverVars, gaugeVars, loopVars, Handed,
       Talking
  <2>2. CASE \E m \in AnsMsg(sends) : /\ no' = no + 1 /\ m.no = no + 1 /\ m.kind # "notice"
                                       /\ sNet' = sNet \o Parts(m)
    <3>1. PICK m \in AnsMsg(sends) : /\ no' = no + 1 /\ m.no = no + 1 /\ m.kind # "notice"
                                      /\ sNet' = sNet \o Parts(m)
      BY <2>2
    <3> QED
      BY <2>1, <3>1, SentMore
  <2>3. CASE \E m, z \in AnsMsg(sends) :
               /\ no' = no + 2 /\ m.no = no + 1 /\ m.kind # "notice"
               /\ z.no = no + 2 /\ z.kind # "notice" /\ sNet' = sNet \o Parts(m) \o Parts(z)
    <3>1. PICK m \in AnsMsg(sends), z \in AnsMsg(sends) :
               /\ no' = no + 2 /\ m.no = no + 1 /\ m.kind # "notice"
               /\ z.no = no + 2 /\ z.kind # "notice" /\ sNet' = sNet \o Parts(m) \o Parts(z)
      BY <2>3, Zenon
    <3> QED
      BY <2>1, <3>1, SentMore, Zenon
  <2> QED
    BY <1>3, AnswerStep, <2>2, <2>3, Zenon DEF Result, ReadyFor
<1>4. CASE ServerCloses
  <2>1. Sent' = Sent /\ no' = no /\ Handed /\ Talking
    BY <1>4 DEF ServerCloses, clientVars, serverVars, gaugeVars, loopVars, Sent, Handed, Talking
  <2> QED
    BY <2>1
<1>5. CASE MonitorStep
  <2>1. Sent' = Sent /\ no' = no /\ Handed /\ Talking
    BY <1>5 DEF MonitorStep, clientVars, serverVars, gaugeVars, loopVars, Sent, Handed, Talking
  <2> QED
    BY <2>1
<1>6. ASSUME NEW n \in 1 .. Len(cNet), FastClientRead(n) PROVE AnsDone(Sent', 1 .. no')
  <2>1. Sent' = Sent /\ no' = no /\ Handed /\ Talking
    BY <1>6 DEF FastClientRead, clientVars, serverVars, gaugeVars, loopVars, Sent, Handed, Talking
  <2> QED
    BY <2>1
<1>7. ASSUME NEW n \in 1 .. Len(cNet), SlowClientRead(n) PROVE AnsDone(Sent', 1 .. no')
  <2>1. Sent' = Sent /\ no' = no /\ Handed /\ Talking
    BY <1>7 DEF SlowClientRead, clientVars, serverVars, gaugeVars, loopVars, Sent, Handed, Talking
  <2> QED
    BY <2>1
<1>8. ASSUME NEW n \in 1 .. Len(sNet), FastServerRead(n) PROVE AnsDone(Sent', 1 .. no')
  <2> DEFINE S == Ans(sends)
             x == SubSeq(sNet, 1, n)
             d == server_buf \o x
             z == From(sNet, n)
  <2>1. /\ toClient' = toClient \o d /\ server_buf' = <<>> /\ sNet' = z
        /\ no' = no /\ Handed /\ Talking
    BY <1>8 DEF FastServerRead, clientVars, serverVars, Handed, Talking
  <2>2. /\ toClient \in Seq(S) /\ server_buf \in Seq(S) /\ sNet \in Seq(S)
        /\ n \in 0 .. Len(sNet)
    BY DEF Types
  <2> HIDE DEF S
  <2>3. d \in Seq(S) /\ z \in Seq(S)
    BY <2>2, ReadStream, Zenon
  <2>4. d \o z = server_buf \o sNet
    BY <2>2, Moved, Zenon DEF From
  <2> HIDE DEF d, z
  <2>5. toClient \o d \in Seq(S)
    BY <2>2, <2>3, Joined
  <2>6. Sent' = (toClient \o d) \o z
    BY <2>1, <2>5, JoinEmpty DEF Sent
  <2>7. (toClient \o d) \o z = toClient \o (d \o z)
    <3>1. toClient \in Seq(S) /\ d \in Seq(S) /\ z \in Seq(S)
      BY <2>2, <2>3
    <3> QED
      BY <3>1, JoinThree, SMTT(40)
  <2>8. Sent = toClient \o (server_buf \o sNet)
    BY <2>2, AnsPieces, SMTT(30) DEF S, Sent
  <2> QED
    BY <2>1, <2>4, <2>6, <2>7, <2>8, SMTT(30)
<1>9. ASSUME NEW n \in 1 .. Len(sNet), ServerRead(n) PROVE AnsDone(Sent', 1 .. no')
  <2> DEFINE S == Ans(sends)
             d == server_buf \o SubSeq(sNet, 1, n)
             z == From(sNet, n)
  <2>1. /\ toClient' = toClient /\ server_buf' = d /\ sNet' = z
        /\ no' = no /\ Handed /\ Talking
    BY <1>9 DEF ServerRead, clientVars, serverVars, Handed, Talking
  <2>2. /\ toClient \in Seq(S) /\ server_buf \in Seq(S) /\ sNet \in Seq(S)
        /\ n \in 0 .. Len(sNet)
    BY DEF Types
  <2> HIDE DEF S
  <2>3. d \in Seq(S) /\ z \in Seq(S)
    BY <2>2, ReadStream, Zenon
  <2>4. d \o z = server_buf \o sNet
    BY <2>2, Moved, Zenon DEF From
  <2> HIDE DEF d, z
  <2>a. (toClient \o d) \o z = toClient \o (d \o z)
    <3>1. toClient \in Seq(S) /\ d \in Seq(S) /\ z \in Seq(S)
      BY <2>2, <2>3
    <3> QED
      BY <3>1, JoinThree
  <2>5. Sent' = toClient \o (d \o z)
    BY <2>1, <2>a DEF Sent
  <2>6. Sent = toClient \o (server_buf \o sNet)
    BY <2>2, AnsPieces DEF S, Sent
  <2> QED
    BY <2>1, <2>4, <2>5, <2>6
<1>10. CASE SlowClientMessage
  <2>1. /\ server_buf' = server_buf /\ sNet' = sNet /\ no' = no /\ Handed /\ Talking
    BY <1>10 DEF SlowClientMessage, clientVars, serverVars, gaugeVars, loopVars, Handed, Talking
  <2> QED
    BY <1>10, <2>1, NoticeStep, SentNotice, Zenon
<1>11. CASE SlowServerMessage
  <2> DEFINE S == Ans(sends)
             h == Parts(server_buf[1].msg)
             y == From(server_buf, 2)
  <2>1. /\ toClient' = toClient \o h /\ server_buf' = y /\ sNet' = sNet
        /\ no' = no /\ Handed /\ Talking
    BY <1>11 DEF SlowServerMessage, clientVars, serverVars, Handed, Talking
  <2>2. /\ toClient \in Seq(S) /\ server_buf \in Seq(S) /\ sNet \in Seq(S)
    BY SMTT(30) DEF Types
  <2>3. h \in Seq(S) /\ y \in Seq(S) /\ h \o y = server_buf
    BY <1>11, FirstAnswer, SMTT(40) DEF SlowServerMessage
  <2> HIDE DEF S, h, y
  <2> DEFINE t == toClient \o h
  <2>4. t \in Seq(S)
    BY <2>2, <2>3, Joined
  <2>5. t \o y = toClient \o (h \o y)
    <3>1. toClient \in Seq(S) /\ h \in Seq(S) /\ y \in Seq(S)
      BY <2>2, <2>3
    <3> QED
      BY <3>1, JoinThree, SMTT(40)
  <2>6. Sent' = (t \o y) \o sNet
    BY <2>1 DEF Sent
  <2>7. (t \o y) \o sNet = Sent
    BY <2>3, <2>5 DEF Sent
  <2> QED
    BY <2>1, <2>6, <2>7
<1>12. CASE ResetMessage
  BY <1>12 DEF ResetMessage, ResetVerdict, Talking
<1>13. CASE NoMessage
  <2>1. Sent' = Sent /\ no' = no /\ Handed /\ Talking
    BY <1>13 DEF NoMessage, clientVars, serverVars, gaugeVars, loopVars, Sent, Handed, Talking
  <2> QED
    BY <2>1
<1>14. CASE Misframe
  <2>1. Sent' = Sent /\ no' = no /\ Handed /\ Talking
    BY <1>14 DEF Misframe, clientVars, serverVars, gaugeVars, loopVars, Sent, Handed, Talking
  <2> QED
    BY <2>1
<1>20. ASSUME NEW n \in 0 .. Len(client_buf), MiscutClient(n) PROVE AnsDone(Sent', 1 .. no')
  <2>1. /\ server_buf' = server_buf /\ sNet' = sNet /\ no' = no /\ Handed /\ Talking
        /\ toClient' = toClient \/ toClient' = toClient \o Notice
    BY <1>20, MiscutToServer, Zenon DEF clientVars, serverVars, Handed, Talking
  <2> QED
    BY <2>1, SentNotice, Zenon
<1>21. ASSUME NEW n \in 0 .. Len(server_buf), MiscutServer(n) PROVE AnsDone(Sent', 1 .. no')
  <2> DEFINE S == Ans(sends)
             h == SubSeq(server_buf, 1, n)
             y == From(server_buf, n)
  <2>1. /\ toClient' = toClient \o h /\ server_buf' = y /\ sNet' = sNet
        /\ no' = no /\ Handed /\ Talking
    BY <1>21, MiscutToClient, Zenon DEF clientVars, serverVars, Handed, Talking
  <2>2. toClient \in Seq(S) /\ server_buf \in Seq(S) /\ sNet \in Seq(S)
    BY SMTT(30) DEF Types
  <2>3. h \in Seq(S) /\ y \in Seq(S) /\ h \o y = server_buf
    BY <2>2, Split, Rest, Zenon
  <2> HIDE DEF S, h, y
  <2>4. (toClient \o h) \o y = toClient \o (h \o y)
    <3>1. toClient \in Seq(S) /\ h \in Seq(S) /\ y \in Seq(S)
      BY <2>2, <2>3
    <3> QED
      BY <3>1, JoinThree, SMTT(40)
  <2>5. Sent' = Sent
    BY <2>1, <2>3, <2>4, Zenon DEF Sent
  <2> QED
    BY <2>1, <2>5
<1>22. ASSUME NEW n \in 0 .. Len(server_buf), MiscutReset(n) PROVE AnsDone(Sent', 1 .. no')
  BY <1>22, MiscutOfReset, SMTT(30) DEF Talking
<1>15. CASE EndSession
  BY <1>15 DEF EndSession, Talking
<1>16. CASE ResetEof
  BY <1>16 DEF ResetEof, Talking
<1>17. CASE Drop
  BY <1>17, SMTT(30) DEF Drop, Talking
<1>18. CASE Reuse
  <2>1. Polite
    BY <1>18 DEF Reuse, Handed, Types
  <2>2. /\ toClient' = <<>> /\ Arriving = <<>> /\ server_buf' = server_buf /\ sNet' = sNet /\ no' = 0
    BY <1>18, <2>1 DEF Reuse, Left, Quiet
  <2>3. server_buf \in Seq(Ans(sends)) /\ sNet \in Seq(Ans(sends)) /\ <<>> \in Seq(Ans(sends))
    BY DEF Types
  <2>4. Sent' = <<>> \o (server_buf \o sNet)
    BY <2>2, <2>3, AnsPieces DEF Sent
  <2>5. Sent' = <<>> /\ Len(Sent') = 0
    BY <2>2, <2>4 DEF Arriving
  <2>6. 1 .. 0 = {}
    OBVIOUS
  <2> QED
    BY <2>2, <2>5, <2>6 DEF AnsDone
<1>19. ASSUME UNCHANGED vars PROVE AnsDone(Sent', 1 .. no')
  <2>1. Sent' = Sent /\ no' = no /\ Handed /\ Talking
    BY <1>19 DEF vars, clientVars, serverVars, gaugeVars, loopVars, Sent, Handed, Talking
  <2> QED
    BY <2>1
<1> QED
  BY <1>1, <1>2, <1>3, <1>4, <1>5, <1>6, <1>7, <1>8, <1>9, <1>10, <1>11, <1>12, <1>13, <1>14,
     <1>15, <1>16, <1>17, <1>18, <1>19, <1>20, <1>21, <1>22 DEF Next, Loops
-----------------------------------------------------------------------------
(* The scanner stays aligned *)

\* Reading y of x halves, the rest is odd when one of the two is.
LEMMA Difference ==
  ASSUME NEW x \in Nat, NEW y \in Nat
  PROVE  /\ x % 2 = 1 => (y % 2 = 0 <=> (x - y) % 2 = 1)
         /\ x % 2 # 1 => (y % 2 = 1 <=> (x - y) % 2 = 1)
  OBVIOUS

\* One answer adds two halves, a result with its ReadyForQuery four.
LEMMA MoreLen ==
  ASSUME Types
  PROVE  /\ Arriving \in Seq(Ans(sends)) /\ Len(Arriving) \in Nat
         /\ \A m \in AnsMsg(sends) : Len(Arriving \o Parts(m)) = Len(Arriving) + 2
         /\ \A m, z \in AnsMsg(sends) : Len(Arriving \o Parts(m) \o Parts(z)) = Len(Arriving) + 4
<1> DEFINE S == Ans(sends)
<1>1. Arriving \in Seq(S) /\ Len(Arriving) \in Nat
  BY Joined DEF Arriving, Types
<1>2. \A m \in AnsMsg(sends) : Parts(m) \in Seq(S) /\ Len(Parts(m)) = 2
  BY AnsParts, Zenon
<1> HIDE DEF S
<1>3. ASSUME NEW m \in AnsMsg(sends)
      PROVE  Arriving \o Parts(m) \in Seq(S) /\ Len(Arriving \o Parts(m)) = Len(Arriving) + 2
  <2> DEFINE t == Parts(m)
  <2>1. t \in Seq(S) /\ Len(t) = 2
    BY <1>2
  <2> HIDE DEF t
  <2>2. Arriving \o t \in Seq(S) /\ Len(Arriving \o t) = Len(Arriving) + Len(t)
    BY <1>1, <2>1, Joined, Zenon
  <2> QED
    BY <1>1, <2>1, <2>2 DEF t
<1>4. ASSUME NEW m \in AnsMsg(sends), NEW z \in AnsMsg(sends)
      PROVE  Len(Arriving \o Parts(m) \o Parts(z)) = Len(Arriving) + 4
  <2> DEFINE x == Arriving \o Parts(m)
  <2>1. x \in Seq(S) /\ Len(x) = Len(Arriving) + 2 /\ Parts(z) \in Seq(S) /\ Len(Parts(z)) = 2
    BY <1>2, <1>3
  <2> HIDE DEF x
  <2>2. Len(x \o Parts(z)) = Len(x) + Len(Parts(z))
    BY <2>1, Joined, Zenon
  <2>3. Len(x \o Parts(z)) = Len(Arriving) + 4
    BY <1>1, <2>1, <2>2
  <2> QED
    BY <2>3 DEF x
<1> QED
  BY <1>1, <1>3, <1>4 DEF S

\* What the fast loop reads is the front of what arrives.
LEMMA ReadData ==
  ASSUME Types, NEW n \in 1 .. Len(sNet), FastServerRead(n)
  PROVE  LET data == server_buf \o SubSeq(sNet, 1, n) IN
         /\ Len(data) \in Nat /\ Len(data) >= 1 /\ data \in Seq(Ans(sends))
         /\ Len(Arriving) \in Nat /\ Len(Arriving') = Len(Arriving) - Len(data)
         /\ Len(Arriving') \in Nat /\ Arriving' \in Seq(Ans(sends))
         /\ Arriving = data \o Arriving'
<1> DEFINE S == Ans(sends)
           data == server_buf \o SubSeq(sNet, 1, n)
           z == From(sNet, n)
<1>1. n \in 0 .. Len(sNet) /\ sNet \in Seq(S) /\ server_buf \in Seq(S)
  BY DEF Types
<1>2. server_buf' = <<>> /\ sNet' = z
  BY DEF FastServerRead
<1>3. data \in Seq(S) /\ z \in Seq(S)
  BY <1>1, ReadStream, Zenon
<1>4. data \o z = Arriving
  BY <1>1, Moved, Zenon DEF From, Arriving
<1>5. Len(data) \in Nat /\ Len(data) >= 1
  <2>1. SubSeq(sNet, 1, n) \in Seq(S) /\ Len(SubSeq(sNet, 1, n)) = n
    BY <1>1, Taken
  <2> DEFINE x == SubSeq(sNet, 1, n)
  <2> HIDE DEF x, S
  <2>2. x \in Seq(S) /\ Len(x) = n /\ server_buf \in Seq(S)
    BY <1>1, <2>1 DEF x
  <2>3. Len(server_buf \o x) = Len(server_buf) + Len(x) /\ Len(server_buf) \in Nat
    BY <2>2, Joined, Zenon
  <2> QED
    BY <2>2, <2>3 DEF x
<1> HIDE DEF data, z, S
<1>6. Arriving' = z
  BY <1>2, <1>3, JoinEmpty DEF Arriving
<1>7. Len(z) \in Nat /\ Len(data \o z) = Len(data) + Len(z)
  BY <1>3, Joined
<1>8. Len(Arriving) \in Nat /\ Len(Arriving') = Len(Arriving) - Len(data) /\ Len(Arriving') \in Nat
  BY <1>4, <1>5, <1>6, <1>7
<1> QED
  BY <1>3, <1>4, <1>5, <1>6, <1>8, Zenon DEF data, S

\* The slow loop takes a message from what arrives.
LEMMA TakeData ==
  ASSUME Types, Framed(Arriving), SlowServerMessage
  PROVE  LET h == Parts(server_buf[1].msg) IN
         /\ server_buf[1].msg \in AnsMsg(sends) /\ h \in Seq(Ans(sends)) /\ Len(h) = 2
         /\ Len(Arriving') \in Nat /\ Len(Arriving) = Len(Arriving') + 2
         /\ Arriving' \in Seq(Ans(sends)) /\ Arriving = h \o Arriving'
<1> DEFINE S == Ans(sends)
           m == server_buf[1].msg
           h == Parts(m)
           y == From(server_buf, 2)
<1>1. /\ server_buf' = y /\ sNet' = sNet /\ Whole(server_buf)
  BY SMTT(40) DEF SlowServerMessage
<1>2. h \in Seq(S) /\ y \in Seq(S) /\ h \o y = server_buf
  BY <1>1, FirstAnswer
<1>3. m \in AnsMsg(sends)
  <2>1. 1 \in 1 .. Len(server_buf) /\ server_buf \in Seq(Ans(sends))
    BY <1>1 DEF Whole, Types
  <2> QED
    BY <2>1, AnsElement
<1>4. Len(h) = 2
  BY <1>3, AnsParts, Zenon
<1>5. sNet \in Seq(S)
  BY DEF Types
<1> HIDE DEF S, h, y
<1>6. y \o sNet \in Seq(S) /\ Len(y \o sNet) \in Nat
  BY <1>2, <1>5, Joined
<1>7. (h \o y) \o sNet = h \o (y \o sNet)
  <2>1. h \in Seq(S) /\ y \in Seq(S) /\ sNet \in Seq(S)
    BY <1>2, <1>5
  <2> QED
    BY <2>1, JoinThree, SMTT(30)
<1> DEFINE z == y \o sNet
<1>8. z \in Seq(S) /\ Len(z) \in Nat /\ Arriving' = z /\ Arriving = h \o z
  BY <1>1, <1>2, <1>6, <1>7 DEF Arriving
<1> HIDE DEF z
<1>9. Len(h \o z) = Len(h) + Len(z)
  BY <1>2, <1>8, Joined
<1>10. Len(Arriving) = Len(Arriving') + 2
  BY <1>4, <1>8, <1>9, SMTT(30)
<1> QED
  BY <1>2, <1>3, <1>4, <1>8, <1>10, Zenon DEF S, h

\* The next half is a payload exactly when an odd number of them is to come.
LEMMA NextHalf ==
  ASSUME NEW n, NEW s \in Seq(Ans(n)), Framed(s), s # <<>>
  PROVE  s[1].part = 2 <=> Len(s) % 2 = 1
<1>1. Len(s) \in Nat /\ 1 \in 1 .. Len(s)
  BY Empty
<1>2. s[1].part \in {1, 2}
  BY <1>1, AnsElement
<1>3. s[1].part = 1 <=> (Len(s) - 1) % 2 = 1
  BY <1>1 DEF Framed
<1>4. (Len(s) - 1) % 2 = 1 <=> Len(s) % 2 # 1
  BY <1>1
<1> QED
  BY <1>2, <1>3, <1>4

\* The scanner is right about what the fast loop reads.
LEMMA ReadAligned ==
  ASSUME Types, Framed(Arriving), "server" \notin misread, skip <=> Len(Arriving) % 2 = 1,
         NEW n \in 1 .. Len(sNet), FastServerRead(n)
  PROVE  Aligned(server_buf \o SubSeq(sNet, 1, n))
<1> DEFINE data == server_buf \o SubSeq(sNet, 1, n)
<1>1. /\ Len(data) \in Nat /\ Len(data) >= 1 /\ data \in Seq(Ans(sends))
      /\ Arriving' \in Seq(Ans(sends)) /\ Arriving = data \o Arriving'
  BY ReadData
<1> HIDE DEF data
<1>2. Arriving \in Seq(Ans(sends)) /\ Arriving[1] = data[1] /\ Arriving # <<>>
  <2>1. 1 \in 1 .. Len(data) /\ data \in Seq(Ans(sends)) /\ Arriving' \in Seq(Ans(sends))
    BY <1>1
  <2>2. /\ data \o Arriving' \in Seq(Ans(sends)) /\ (data \o Arriving')[1] = data[1]
        /\ Len(data \o Arriving') = Len(data) + Len(Arriving') /\ Len(Arriving') \in Nat
    BY <2>1, Joined
  <2>3. \A x, y, z \in Nat : x >= 1 /\ z = x + y => z # 0
    OBVIOUS
  <2>4. Len(data \o Arriving') # 0
    <3>1. Len(data \o Arriving') \in Nat
      BY <2>2, Joined, Zenon
    <3> QED
      BY <1>1, <2>2, <2>3, <3>1, Zenon
  <2> QED
    BY <1>1, <2>2, <2>4, Empty, Zenon
<1>3. data[1].part = 2 <=> Len(Arriving) % 2 = 1
  BY <1>2, NextHalf, Zenon
<1> QED
  BY <1>3 DEF Aligned, data

\* The server's answers are whole messages.
LEMMA AnswerParity ==
  ASSUME Types, Framed(Arriving), ServerAnswers
  PROVE  Len(Arriving') % 2 = Len(Arriving) % 2
<1>1. server_buf' = server_buf
  BY Zenon DEF ServerAnswers, loopVars
<1>2. \/ \E m \in AnsMsg(sends) : sNet' = sNet \o Parts(m)
      \/ \E m, z \in AnsMsg(sends) : sNet' = sNet \o Parts(m) \o Parts(z)
  BY AnswerStep, Zenon DEF Result, ReadyFor
<1>3. Len(Arriving') = Len(Arriving) + 2 \/ Len(Arriving') = Len(Arriving) + 4
  <2>1. ASSUME NEW m \in AnsMsg(sends), sNet' = sNet \o Parts(m)
        PROVE  Len(Arriving') = Len(Arriving) + 2
    <3>1. Arriving' = Arriving \o Parts(m)
      BY <1>1, <2>1, ArrivingMore
    <3> QED
      BY <3>1, MoreLen
  <2>2. ASSUME NEW m \in AnsMsg(sends), NEW z \in AnsMsg(sends),
               sNet' = sNet \o Parts(m) \o Parts(z)
        PROVE  Len(Arriving') = Len(Arriving) + 4
    <3>1. Arriving' = Arriving \o Parts(m) \o Parts(z)
      BY <1>1, <2>2, ArrivingMore, Zenon
    <3> QED
      BY <3>1, MoreLen
  <2> QED
    BY <1>2, <2>1, <2>2, Zenon
<1>4. Len(Arriving) \in Int
  BY MoreLen
<1>5. Len(Arriving') % 2 = Len(Arriving) % 2
  <2>1. (Len(Arriving) + 2) % 2 = Len(Arriving) % 2
    BY <1>4, Parity
  <2>2. (Len(Arriving) + 4) % 2 = Len(Arriving) % 2
    <3>1. Len(Arriving) + 2 \in Int /\ Len(Arriving) + 4 = (Len(Arriving) + 2) + 2
      BY <1>4
    <3> QED
      BY <2>1, <3>1, Parity
  <2> QED
    BY <1>3, <2>1, <2>2
<1> QED
  BY <1>5

\* Every step keeps the scanner aligned.
LEMMA ParityStep ==
  ASSUME Types, Left, Framed(Arriving), Polite => Quiet,
         Handed /\ Talking /\ "server" \notin misread => (skip <=> Len(Arriving) % 2 = 1), [Next]_vars
  PROVE  (Handed /\ Talking /\ "server" \notin misread)' => (skip' <=> Len(Arriving') % 2 = 1)
<1> SUFFICES ASSUME Handed', Talking', "server" \notin misread' PROVE skip' <=> Len(Arriving') % 2 = 1
  OBVIOUS
<1>1. ASSUME NEW k \in Kinds, ClientSends(k) PROVE skip' <=> Len(Arriving') % 2 = 1
  <2>1. Arriving' = Arriving /\ skip' = skip /\ Handed /\ Talking /\ "server" \notin misread
    BY <1>1 DEF ClientSends, clientVars, serverVars, gaugeVars, loopVars, Arriving, Handed, Talking
  <2> QED
    BY <2>1
<1>2. ASSUME NEW n \in 0 .. Len(cNet), ClientCloses(n) PROVE skip' <=> Len(Arriving') % 2 = 1
  <2>1. Arriving' = Arriving /\ skip' = skip /\ Handed /\ Talking /\ "server" \notin misread
    BY <1>2 DEF ClientCloses, clientVars, serverVars, gaugeVars, loopVars, Arriving, Handed, Talking
  <2> QED
    BY <2>1
<1>3. CASE ServerAnswers
  <2>1. server_buf' = server_buf /\ skip' = skip /\ Handed /\ Talking /\ "server" \notin misread
    BY <1>3, Zenon DEF ServerAnswers, clientVars, serverVars, gaugeVars, loopVars, Handed, Talking
  <2>2. Len(Arriving') % 2 = Len(Arriving) % 2
    BY <1>3, AnswerParity
  <2> QED
    BY <2>1, <2>2, Zenon
<1>4. CASE ServerCloses
  <2>1. Arriving' = Arriving /\ skip' = skip /\ Handed /\ Talking /\ "server" \notin misread
    BY <1>4 DEF ServerCloses, clientVars, serverVars, gaugeVars, loopVars, Arriving, Handed, Talking
  <2> QED
    BY <2>1
<1>5. CASE MonitorStep
  <2>1. Arriving' = Arriving /\ skip' = skip /\ Handed /\ Talking /\ "server" \notin misread
    BY <1>5 DEF MonitorStep, clientVars, serverVars, gaugeVars, loopVars, Arriving, Handed, Talking
  <2> QED
    BY <2>1
<1>6. ASSUME NEW n \in 1 .. Len(cNet), FastClientRead(n) PROVE skip' <=> Len(Arriving') % 2 = 1
  <2>1. Arriving' = Arriving /\ skip' = skip /\ Handed /\ Talking /\ "server" \notin misread
    BY <1>6 DEF FastClientRead, clientVars, serverVars, gaugeVars, loopVars, Arriving, Handed,
       Talking
  <2> QED
    BY <2>1
<1>7. ASSUME NEW n \in 1 .. Len(cNet), SlowClientRead(n) PROVE skip' <=> Len(Arriving') % 2 = 1
  <2>1. Arriving' = Arriving /\ skip' = skip /\ Handed /\ Talking /\ "server" \notin misread
    BY <1>7 DEF SlowClientRead, clientVars, serverVars, gaugeVars, loopVars, Arriving, Handed,
       Talking
  <2> QED
    BY <2>1
<1>8. ASSUME NEW n \in 1 .. Len(sNet), FastServerRead(n) PROVE skip' <=> Len(Arriving') % 2 = 1
  <2> DEFINE data == server_buf \o SubSeq(sNet, 1, n)
  <2>0. Handed /\ Talking /\ "server" \notin misread
    BY <1>8, Zenon DEF FastServerRead, clientVars, Handed, Talking
  <2>1. skip' = (Len(data) \in Headers(data))
    <3>1. Aligned(data)
      BY <1>8, <2>0, ReadAligned
    <3>2. skip' \in IF Aligned(data) THEN {Len(data) \in Headers(data)} ELSE BOOLEAN
      BY <1>8, Zenon DEF FastServerRead
    <3> QED
      BY <3>1, <3>2, Zenon
  <2>2. /\ Len(data) \in Nat /\ Len(data) >= 1 /\ data \in Seq(Ans(sends))
        /\ Len(Arriving) \in Nat /\ Len(Arriving') = Len(Arriving) - Len(data) /\ Len(Arriving') \in Nat
    BY <1>8, ReadData
  <2> HIDE DEF data
  <2>3. Len(data) \in Headers(data) <=> Len(data) % 2 = (IF skip THEN 0 ELSE 1)
    <3>1. Len(data) \in DOMAIN data
      BY <2>2
    <3> QED
      BY <3>1 DEF Headers
  <2>4. skip <=> Len(Arriving) % 2 = 1
    BY <2>0
  <2>5. CASE skip
    <3>1. Len(Arriving) % 2 = 1
      BY <2>4, <2>5
    <3>2. Len(data) % 2 = 0 <=> (Len(Arriving) - Len(data)) % 2 = 1
      BY <2>2, <3>1, Difference
    <3> QED
      BY <2>1, <2>2, <2>3, <2>5, <3>2, Zenon
  <2>6. CASE ~skip
    <3>1. Len(Arriving) % 2 # 1
      BY <2>4, <2>6
    <3>2. Len(data) % 2 = 1 <=> (Len(Arriving) - Len(data)) % 2 = 1
      BY <2>2, <3>1, Difference
    <3> QED
      BY <2>1, <2>2, <2>3, <2>6, <3>2, Zenon
  <2> QED
    BY <2>5, <2>6, Zenon
<1>9. ASSUME NEW n \in 1 .. Len(sNet), ServerRead(n) PROVE skip' <=> Len(Arriving') % 2 = 1
  <2>1. /\ n \in 0 .. Len(sNet) /\ sNet \in Seq(Ans(sends)) /\ server_buf \in Seq(Ans(sends))
        /\ Handed /\ Talking /\ "server" \notin misread /\ skip' = skip
    BY <1>9 DEF Types, ServerRead, clientVars, Handed, Talking
  <2>2. server_buf' = server_buf \o SubSeq(sNet, 1, n) /\ sNet' = From(sNet, n)
    BY <1>9 DEF ServerRead
  <2>3. Arriving' = Arriving
    BY <2>1, <2>2, Moved, Zenon DEF Arriving, From
  <2> QED
    BY <2>1, <2>3
<1>10. CASE SlowClientMessage
  <2>1. Arriving' = Arriving /\ skip' = skip /\ Handed /\ Talking /\ "server" \notin misread
    BY <1>10 DEF SlowClientMessage, clientVars, serverVars, gaugeVars, loopVars, Arriving,
       Handed, Talking
  <2> QED
    BY <2>1
<1>11. CASE SlowServerMessage
  <2>1. skip' = skip /\ Handed /\ Talking /\ "server" \notin misread
    BY <1>11, SMTT(40) DEF SlowServerMessage, clientVars, Handed, Talking
  <2>2. Len(Arriving') \in Nat /\ Len(Arriving) = Len(Arriving') + 2
    BY <1>11, TakeData
  <2>3. Len(Arriving) % 2 = Len(Arriving') % 2
    BY <2>2, Parity
  <2> QED
    BY <2>1, <2>3, Zenon
<1>12. CASE ResetMessage
  BY <1>12 DEF ResetMessage, ResetVerdict, Talking
<1>13. CASE NoMessage
  <2>1. Arriving' = Arriving /\ skip' = skip /\ Handed /\ Talking /\ "server" \notin misread
    BY <1>13 DEF NoMessage, clientVars, serverVars, gaugeVars, loopVars, Arriving, Handed, Talking
  <2> QED
    BY <2>1
<1>14. CASE Misframe
  <2>1. Arriving' = Arriving /\ skip' = skip /\ Handed /\ Talking /\ "server" \notin misread
    BY <1>14 DEF Misframe, clientVars, serverVars, gaugeVars, loopVars, Arriving, Handed, Talking
  <2> QED
    BY <2>1
<1>20. ASSUME NEW n \in 0 .. Len(client_buf), MiscutClient(n) PROVE skip' <=> Len(Arriving') % 2 = 1
  <2>1. Arriving' = Arriving /\ skip' = skip /\ Handed /\ Talking /\ "server" \notin misread
    BY <1>20, MiscutToServer, Zenon DEF clientVars, Arriving, Handed, Talking
  <2> QED
    BY <2>1
<1>21. ASSUME NEW n \in 0 .. Len(server_buf), MiscutServer(n) PROVE skip' <=> Len(Arriving') % 2 = 1
  BY <1>21, MiscutToClient, Zenon
<1>22. ASSUME NEW n \in 0 .. Len(server_buf), MiscutReset(n) PROVE skip' <=> Len(Arriving') % 2 = 1
  BY <1>22, MiscutOfReset, Zenon
<1>15. CASE EndSession
  BY <1>15 DEF EndSession, Talking
<1>16. CASE ResetEof
  BY <1>16 DEF ResetEof, Talking
<1>17. CASE Drop
  BY <1>17 DEF Drop, Talking
<1>18. CASE Reuse
  <2>1. Polite
    BY <1>18 DEF Reuse, Handed, Types
  <2>2. Arriving = <<>> /\ server_buf' = server_buf /\ sNet' = sNet /\ ~skip'
    BY <1>18, <2>1 DEF Reuse, Left, Quiet
  <2>3. Arriving' = <<>> /\ Len(Arriving') = 0
    BY <2>2 DEF Arriving
  <2> QED
    BY <2>2, <2>3, Parity
<1>19. ASSUME UNCHANGED vars PROVE skip' <=> Len(Arriving') % 2 = 1
  <2>1. Arriving' = Arriving /\ skip' = skip /\ Handed /\ Talking /\ "server" \notin misread
    BY <1>19, Zenon DEF vars, clientVars, serverVars, gaugeVars, loopVars, Arriving, Handed, Talking
  <2> QED
    BY <2>1
<1> QED
  BY <1>1, <1>2, <1>3, <1>4, <1>5, <1>6, <1>7, <1>8, <1>9, <1>10, <1>11, <1>12, <1>13, <1>14,
     <1>15, <1>16, <1>17, <1>18, <1>19, <1>20, <1>21, <1>22, Zenon DEF Next, Loops

-----------------------------------------------------------------------------
(* A polite client *)

\* A request joins those that are open, if there are none or it belongs to the same
\* extended query.
LEMMA GroupSend ==
  ASSUME NEW n \in Nat, NEW b \in 0 .. n, NEW l, NEW S, NEW r \in Seq(S), Group(r, b, n, l),
         NEW m, m.id = n + 1, [msg |-> m, part |-> 1] \in S, [msg |-> m, part |-> 2] \in S,
         r = <<>> \/ (l = "parse" /\ m.kind \in {"parse", "sync"})
  PROVE  Group(r \o Parts(m), b, n + 1, m.kind) /\ Len(r \o Parts(m)) = Len(r) + 2 /\ Len(r) \in Nat
<1> DEFINE g == Parts(m)
           c == r \o g
<1>1. /\ g \in Seq(S) /\ Len(g) = 2
      /\ g[1] = [msg |-> m, part |-> 1] /\ g[2] = [msg |-> m, part |-> 2]
  BY Halves
<1> HIDE DEF g
<1>2. /\ Len(r) \in Nat /\ Len(c) = Len(r) + Len(g)
      /\ \A k \in 1 .. Len(r) : c[k] = r[k]
      /\ \A k \in 1 .. Len(g) : c[Len(r) + k] = g[k]
  <2>1. g \in Seq(S)
    BY <1>1
  <2> QED
    BY <2>1, Joined
<1>3. Len(c) = Len(r) + 2 /\ c[Len(r) + 1].msg = m /\ c[Len(r) + 2].msg = m
  <2>1. 1 \in 1 .. Len(g) /\ 2 \in 1 .. Len(g)
    BY <1>1, SMTT(30)
  <2> QED
    BY <1>1, <1>2, <2>1
<1> HIDE DEF c
<1>4. ASSUME NEW i \in 1 .. Len(c)
      PROVE  /\ c[i].msg.id > b
             /\ i + 2 <= Len(c) => c[i].msg.kind = "parse"
             /\ i + 2 > Len(c) => c[i].msg.id = n + 1 /\ c[i].msg.kind = m.kind
  <2>1. CASE i \in 1 .. Len(r)
    <3>1. c[i] = r[i] /\ l = "parse" /\ ~(i + 2 > Len(c))
      BY <1>2, <1>3, <2>1, SMTT(30)
    <3>2. r[i].msg.id > b /\ (r[i].msg.kind = "parse" \/ r[i].msg.kind = l)
      BY <1>2, <2>1, SMTT(30) DEF Group
    <3> QED
      BY <3>1, <3>2, SMTT(30)
  <2>2. CASE i \in {Len(r) + 1, Len(r) + 2}
    <3>1. c[i].msg = m /\ ~(i + 2 <= Len(c)) /\ m.id > b
      BY <1>2, <1>3, <2>2, SMTT(30)
    <3> QED
      BY <3>1
  <2> QED
    BY <1>2, <1>3, <2>1, <2>2, SMTT(30)
<1>5. Len(c) > 2 => m.kind \in {"parse", "sync"}
  BY <1>2, <1>3
<1> QED
  BY <1>2, <1>3, <1>4, <1>5, Zenon DEF Group, c, g

\* While a request is open, or the group is not complete, no ReadyForQuery arrives.
LEMMA NoReady ==
  ASSUME NEW d, NEW r, NEW b, NEW n, NEW l, NEW t, ReadyLast(d, r, b, n, l, t),
         r # <<>> \/ l = "parse" \/ d = <<>>
  PROVE  Plain(d, b)
  BY DEF ReadyLast, Plain

\* Without a ReadyForQuery there is none that could be early.
LEMMA PlainReady ==
  ASSUME NEW d, NEW r, NEW b, NEW n, NEW l, NEW t, Plain(d, b)
  PROVE  ReadyLast(d, r, b, n, l, t)
  BY Zenon DEF ReadyLast, Plain

\* A result arrives.
LEMMA PlainAppend ==
  ASSUME NEW b, NEW S, NEW d \in Seq(S), Plain(d, b), NEW m, m.kind \in {"ok", "error"}, m.ans > b,
         [msg |-> m, part |-> 1] \in S, [msg |-> m, part |-> 2] \in S
  PROVE  Plain(d \o Parts(m), b)
<1> DEFINE g == Parts(m)
           c == d \o g
<1>1. /\ g \in Seq(S) /\ Len(g) = 2
      /\ g[1] = [msg |-> m, part |-> 1] /\ g[2] = [msg |-> m, part |-> 2]
  BY Halves, SMTT(30)
<1> HIDE DEF g
<1>2. /\ Len(d) \in Nat /\ Len(c) = Len(d) + Len(g)
      /\ \A k \in 1 .. Len(d) : c[k] = d[k]
      /\ \A k \in 1 .. Len(g) : c[Len(d) + k] = g[k]
  <2>1. g \in Seq(S)
    BY <1>1, SMTT(30)
  <2> QED
    BY <2>1, Joined, SMTT(30)
<1>3. Len(c) = Len(d) + 2 /\ c[Len(d) + 1].msg = m /\ c[Len(d) + 2].msg = m
  <2>1. 1 \in 1 .. Len(g) /\ 2 \in 1 .. Len(g)
    BY <1>1, SMTT(30)
  <2> QED
    BY <1>1, <1>2, <2>1, SMTT(30)
<1> HIDE DEF c
<1>4. ASSUME NEW i \in 1 .. Len(c)
      PROVE  c[i].msg.kind \notin {"notice", "ready"} /\ c[i].msg.ans > b
  <2>1. CASE i \in 1 .. Len(d)
    BY <1>2, <2>1, Zenon DEF Plain
  <2>2. CASE i \in {Len(d) + 1, Len(d) + 2}
    BY <1>3, <2>2
  <2> QED
    BY <1>2, <1>3, <2>1, <2>2, SMTT(30)
<1> QED
  BY <1>4 DEF Plain, c, g

\* ReadyForQuery arrives.
LEMMA ReadyAppend ==
  ASSUME NEW b \in Int, NEW n \in Nat, NEW l, NEW t, NEW S, NEW d \in Seq(S), Plain(d, b),
         NEW m, m.kind = "ready", m.ans = n, n > b, m.idle <=> t = "idle", l # "parse",
         [msg |-> m, part |-> 1] \in S, [msg |-> m, part |-> 2] \in S
  PROVE  ReadyLast(d \o Parts(m), <<>>, b, n, l, t)
<1> DEFINE g == Parts(m)
           c == d \o g
<1>1. /\ g \in Seq(S) /\ Len(g) = 2
      /\ g[1] = [msg |-> m, part |-> 1] /\ g[2] = [msg |-> m, part |-> 2]
  BY Halves, SMTT(30)
<1> HIDE DEF g
<1>2. /\ Len(d) \in Nat /\ Len(c) = Len(d) + Len(g)
      /\ \A k \in 1 .. Len(d) : c[k] = d[k]
      /\ \A k \in 1 .. Len(g) : c[Len(d) + k] = g[k]
  <2>1. g \in Seq(S)
    BY <1>1, Zenon
  <2> QED
    BY <2>1, Joined, SMTT(30)
<1>3. Len(c) = Len(d) + 2 /\ c[Len(d) + 1].msg = m /\ c[Len(d) + 2].msg = m
  <2>1. 1 \in 1 .. Len(g) /\ 2 \in 1 .. Len(g)
    BY <1>1, SMTT(30)
  <2> QED
    BY <1>1, <1>2, <2>1, SMTT(30)
<1> HIDE DEF c
<1>4. ASSUME NEW i \in 1 .. Len(c)
      PROVE  /\ c[i].msg.kind # "notice" /\ c[i].msg.ans > b
             /\ c[i].msg.kind = "ready" =>
                  /\ i + 2 > Len(c)
                  /\ c[i].msg.ans = n
                  /\ c[i].msg.idle <=> t = "idle"
  <2>1. CASE i \in 1 .. Len(d)
    BY <1>2, <2>1, Zenon DEF Plain
  <2>2. CASE i \in {Len(d) + 1, Len(d) + 2}
    <3>1. c[i].msg = m /\ i + 2 > Len(c)
      BY <1>2, <1>3, <2>2, SMTT(30)
    <3> QED
      BY <3>1, Zenon
  <2> QED
    BY <1>2, <1>3, <2>1, <2>2, SMTT(40)
<1>5. ReadyLast(c, <<>>, b, n, l, t)
  BY <1>4, Zenon DEF ReadyLast
<1> QED
  BY <1>5, Zenon DEF c, g

\* The rest of what arrives.
LEMMA ReadyTail ==
  ASSUME NEW S, NEW h \in Seq(S), NEW z \in Seq(S), NEW r, NEW b, NEW n, NEW l, NEW t,
         ReadyLast(h \o z, r, b, n, l, t)
  PROVE  ReadyLast(z, r, b, n, l, t)
<1> DEFINE c == h \o z
<1>1. /\ Len(h) \in Nat /\ Len(z) \in Nat /\ Len(c) = Len(h) + Len(z)
      /\ \A k \in 1 .. Len(z) : c[Len(h) + k] = z[k]
  BY Joined
<1>2. ReadyLast(c, r, b, n, l, t)
  BY Zenon
<1> HIDE DEF c
<1>3. ASSUME NEW i \in 1 .. Len(z)
      PROVE  /\ z[i].msg.kind # "notice" /\ z[i].msg.ans > b
             /\ z[i].msg.kind = "ready" =>
                  /\ r = <<>> /\ i + 2 > Len(z) /\ l # "parse"
                  /\ z[i].msg.ans = n
                  /\ z[i].msg.idle <=> t = "idle"
  <2> DEFINE j == Len(h) + i
  <2>1. j \in 1 .. Len(c) /\ c[j] = z[i] /\ (j + 2 > Len(c) <=> i + 2 > Len(z))
    BY <1>1, SMTT(30)
  <2> HIDE DEF j
  <2> QED
    BY <1>2, <2>1 DEF ReadyLast
<1> QED
  BY <1>3 DEF ReadyLast

\* The status of ReadyForQuery is the last half that arrives.
LEMMA ReadyEnd ==
  ASSUME NEW S, NEW d \in Seq(S), Framed(d), NEW r, NEW b, NEW n, NEW l, NEW t,
         ReadyLast(d, r, b, n, l, t),
         NEW i \in 1 .. Len(d), d[i].msg.kind = "ready", d[i].part = 2
  PROVE  /\ i = Len(d) /\ r = <<>> /\ d[i].msg.ans = n
         /\ d[i].msg.idle <=> t = "idle"
<1>1. /\ r = <<>> /\ i + 2 > Len(d) /\ d[i].msg.ans = n
      /\ d[i].msg.idle <=> t = "idle"
  BY DEF ReadyLast
<1>2. (Len(d) - i) % 2 # 1
  BY SMTT(30) DEF Framed
<1>3. Len(d) \in Nat
  BY SMTT(30)
<1>4. i # Len(d) - 1
  <2>1. i = Len(d) - 1 => Len(d) - i = 1
    BY <1>3, SMTT(30)
  <2> QED
    BY <1>2, <2>1, Parity, Zenon
<1>5. i = Len(d)
  BY <1>1, <1>3, <1>4
<1> QED
  BY <1>1, <1>5, Zenon
-----------------------------------------------------------------------------
(* What the client has received *)

\* What is in a longer stream.
LEMMA RangeMore ==
  ASSUME NEW S, NEW s \in Seq(S), NEW g \in Seq(S)
  PROVE  /\ \A u \in Range(s \o g) : u \in Range(s) \/ \E i \in 1 .. Len(g) : u = g[i]
         /\ Range(s) \subseteq Range(s \o g)
<1> DEFINE c == s \o g
<1>1. /\ c \in Seq(S) /\ Len(s) \in Nat /\ Len(g) \in Nat /\ Len(c) = Len(s) + Len(g)
      /\ \A k \in 1 .. Len(s) : c[k] = s[k]
      /\ \A k \in 1 .. Len(g) : c[Len(s) + k] = g[k]
  BY Joined
<1> HIDE DEF c
<1>2. DOMAIN c = 1 .. Len(c) /\ DOMAIN s = 1 .. Len(s)
  BY <1>1
<1>3. ASSUME NEW k \in 1 .. Len(c)
      PROVE  c[k] \in Range(s) \/ \E i \in 1 .. Len(g) : c[k] = g[i]
  <2>1. CASE k <= Len(s)
    <3>1. k \in 1 .. Len(s) /\ c[k] = s[k]
      BY <1>1, <2>1
    <3> QED
      BY <1>2, <3>1 DEF Range
  <2>2. CASE ~(k <= Len(s))
    <3>1. k - Len(s) \in 1 .. Len(g) /\ k = Len(s) + (k - Len(s))
      BY <1>1, <2>2
    <3>2. c[k] = g[k - Len(s)]
      BY <1>1, <3>1
    <3> QED
      BY <3>1, <3>2
  <2> QED
    BY <2>1, <2>2, Zenon
<1>4. \A u \in Range(c) : u \in Range(s) \/ \E i \in 1 .. Len(g) : u = g[i]
  BY <1>2, <1>3, Zenon DEF Range
<1>5. ASSUME NEW u \in Range(s) PROVE u \in Range(c)
  <2>1. PICK k \in 1 .. Len(s) : u = s[k]
    BY <1>2 DEF Range
  <2>2. k \in 1 .. Len(c) /\ c[k] = u
    BY <1>1, <2>1
  <2> QED
    BY <1>2, <2>2, Zenon DEF Range
<1> QED
  BY <1>4, <1>5 DEF c

\* No answer is to a later request than the last.
LEMMA AnswersSent ==
  ASSUME Types
  PROVE  \A a \in Answers : a \in 0 .. sends
<1>1. ASSUME NEW u \in Range(toClient) PROVE u.msg.ans \in 0 .. sends
  <2>1. PICK i \in 1 .. Len(toClient) : u = toClient[i]
    BY DEF Types, Range
  <2>2. toClient \in Seq(Ans(sends))
    BY DEF Types
  <2>3. toClient[i].msg \in AnsMsg(sends)
    BY <2>2, AnsElement
  <2> QED
    BY <2>1, <2>3 DEF AnsMsg
<1>2. base \in 0 .. sends
  BY DEF Types
<1> QED
  BY <1>1, <1>2, SMTT(30) DEF Answers

\* A client that sends waits.
LEMMA WaitingSend ==
  ASSUME Types, sends' = sends + 1, base' = base, toClient' = toClient
  PROVE  Waiting'
<1>1. Answers' = Answers
  BY DEF Answers
<1>2. sends \in Nat /\ base \in 0 .. sends
  BY DEF Types
<1> QED
  BY <1>1, <1>2, AnswersSent DEF Waiting

\* What ends the wait is a ReadyForQuery.
LEMMA WaitingOver ==
  ASSUME Types, NEW g \in Seq(Ans(sends)), toClient' = toClient \o g, sends' = sends, base' = base,
         Waiting, ~Waiting'
  PROVE  \E i \in 1 .. Len(g) : g[i].msg.kind = "ready" /\ g[i].part = 2
<1>1. sends \in Answers' /\ sends \notin Answers
  BY Zenon DEF Waiting
<1>2. PICK u \in Range(toClient') : u.msg.kind = "ready" /\ u.part = 2 /\ u.msg.ans = sends
  BY <1>1, Zenon DEF Answers
<1>3. u \notin Range(toClient)
  BY <1>1, <1>2 DEF Answers
<1>4. toClient \in Seq(Ans(sends))
  BY DEF Types
<1>5. \E i \in 1 .. Len(g) : u = g[i]
  BY <1>2, <1>3, <1>4, RangeMore, SMTT(30)
<1> QED
  BY <1>2, <1>5

\* The client receives more of its own answers.
LEMMA OwnMore ==
  ASSUME Types, OwnAnswers, NEW g \in Seq(Ans(sends)), toClient' = toClient \o g, base' = base,
         \A i \in 1 .. Len(g) : g[i].msg.kind # "notice" => g[i].msg.ans > base
  PROVE  OwnAnswers'
<1>1. toClient \in Seq(Ans(sends))
  BY DEF Types
<1>2. \A u \in Range(toClient') : u \in Range(toClient) \/ \E i \in 1 .. Len(g) : u = g[i]
  BY <1>1, RangeMore
<1> QED
  BY <1>2 DEF OwnAnswers
-----------------------------------------------------------------------------
(* What the server has not processed yet *)

\* What is open and what arrives are streams of requests and of answers.
LEMMA OpenType ==
  ASSUME Types
  PROVE  /\ From(toServer, served) \in Seq(Req(sends)) /\ Coming \in Seq(Req(sends))
         /\ Open \in Seq(Req(sends)) /\ Arriving \in Seq(Ans(sends))
         /\ Len(Open) \in Nat /\ Len(Arriving) \in Nat
         /\ Len(Open) = Len(From(toServer, served)) + Len(client_buf) + Len(cNet)
         /\ Len(Arriving) = Len(server_buf) + Len(sNet)
<1> DEFINE S == Req(sends)
           a == From(toServer, served)
<1>1. a \in Seq(S) /\ client_buf \in Seq(S) /\ cNet \in Seq(S)
  BY Rest DEF Types
<1>2. Arriving \in Seq(Ans(sends)) /\ Len(Arriving) \in Nat
      /\ Len(Arriving) = Len(server_buf) + Len(sNet)
  BY Joined DEF Types, Arriving
<1> HIDE DEF S, a
<1>3. /\ Coming \in Seq(S) /\ Len(Coming) = Len(client_buf) + Len(cNet)
      /\ Len(client_buf) \in Nat /\ Len(cNet) \in Nat
  BY <1>1, Joined DEF Coming
<1>4. a \o Coming \in Seq(S) /\ Len(a) \in Nat /\ Len(a \o Coming) = Len(a) + Len(Coming)
  BY <1>1, <1>3, Joined, Zenon
<1>5. Open = a \o Coming
  BY DEF Open, a
<1>6. Len(Open) \in Nat /\ Len(Open) = Len(a) + Len(client_buf) + Len(cNet)
  BY <1>3, <1>4, <1>5
<1> QED
  BY <1>1, <1>2, <1>3, <1>4, <1>5, <1>6, Zenon DEF S, a

\* Nothing is open.
LEMMA OpenEmpty ==
  ASSUME Types, Open = <<>>
  PROVE  From(toServer, served) = <<>> /\ client_buf = <<>> /\ cNet = <<>>
<1> DEFINE S == Req(sends)
           a == From(toServer, served)
<1>1. a \in Seq(S) /\ client_buf \in Seq(S) /\ cNet \in Seq(S)
  BY Rest DEF Types
<1>2. Len(Open) = Len(a) + Len(client_buf) + Len(cNet) /\ Len(Open) = 0
  BY OpenType
<1> HIDE DEF a, S
<1>3. Len(a) \in Nat /\ Len(client_buf) \in Nat /\ Len(cNet) \in Nat
  BY <1>1
<1>4. Len(a) = 0 /\ Len(client_buf) = 0 /\ Len(cNet) = 0
  BY <1>2, <1>3
<1> QED
  BY <1>1, <1>4, Empty DEF a

\* What is written to the server joins what it has not processed yet.
LEMMA OpenWritten ==
  ASSUME Types, NEW g \in Seq(Req(sends))
  PROVE  From(toServer \o g, served) = From(toServer, served) \o g
<1>1. toServer \in Seq(Req(sends)) /\ served \in 0 .. Len(toServer)
  BY DEF Types
<1> QED
  BY <1>1, Dropped, Zenon DEF From

\* Reading from the client only moves requests on.
LEMMA OpenRead ==
  ASSUME Types, NEW n \in 1 .. Len(cNet), FastClientRead(n) \/ SlowClientRead(n)
  PROVE  Open' = Open
<1> DEFINE S == Req(sends)
           a == From(toServer, served)
           x == SubSeq(cNet, 1, n)
           z == From(cNet, n)
           y == client_buf \o x
<1>1. /\ a \in Seq(S) /\ client_buf \in Seq(S) /\ cNet \in Seq(S) /\ toServer \in Seq(S)
      /\ n \in 0 .. Len(cNet)
  BY OpenType DEF Types
<1>2. y \in Seq(S) /\ z \in Seq(S) /\ x \in Seq(S)
  BY <1>1, ReadStream, Taken, Zenon
<1>3. y \o z = Coming
  BY <1>1, Moved, Zenon DEF From, Coming
<1>4. CASE SlowClientRead(n)
  <2>1. toServer' = toServer /\ served' = served /\ client_buf' = y /\ cNet' = z
    BY <1>4 DEF SlowClientRead, serverVars
  <2> QED
    BY <1>3, <2>1, Zenon DEF Open, Coming
<1>5. CASE FastClientRead(n)
  <2>1. toServer' = (toServer \o client_buf) \o x /\ served' = served /\ client_buf' = <<>> /\ cNet' = z
    BY <1>5 DEF FastClientRead, serverVars
  <2> HIDE DEF x, z, a, S
  <2>2. (toServer \o client_buf) \o x = toServer \o (client_buf \o x)
    <3> HIDE DEF y
    <3>1. toServer \in Seq(Req(sends)) /\ client_buf \in Seq(Req(sends)) /\ x \in Seq(Req(sends))
      BY <1>1, <1>2 DEF S
    <3> QED
      BY <3>1, PiecesType, SMTT(40)
  <2>3. toServer' = toServer \o y
    BY <2>1, <2>2
  <2>4. From(toServer \o y, served) = a \o y
    BY <1>2, OpenWritten, Zenon DEF a, S
  <2>5. Open' = (a \o y) \o (<<>> \o z)
    BY <2>1, <2>3, <2>4 DEF Open, Coming
  <2> HIDE DEF y
  <2>6. <<>> \o z = z
    BY <1>2, JoinEmpty
  <2>7. (a \o y) \o z = a \o (y \o z)
    <3>1. a \in Seq(S) /\ y \in Seq(S) /\ z \in Seq(S)
      BY <1>1, <1>2
    <3> QED
      BY <3>1, JoinThree, SMTT(40)
  <2> QED
    BY <1>3, <2>5, <2>6, <2>7, Zenon DEF Open, a
<1> QED
  BY <1>4, <1>5

\* The client sends a request.
LEMMA OpenSend ==
  ASSUME Types, NEW k \in Kinds, ClientSends(k)
  PROVE  LET m == [id |-> sends + 1, kind |-> k, via |-> "client"] IN
         /\ [msg |-> m, part |-> 1] \in Req(sends + 1) /\ [msg |-> m, part |-> 2] \in Req(sends + 1)
         /\ Open \in Seq(Req(sends + 1)) /\ Open' = Open \o Parts(m)
<1> DEFINE S == Req(sends + 1)
           m == [id |-> sends + 1, kind |-> k, via |-> "client"]
           g == Parts(m)
           a == From(toServer, served)
<1>1. /\ a \in Seq(S) /\ client_buf \in Seq(S) /\ cNet \in Seq(S) /\ Open \in Seq(S)
  BY OpenType, Grows, Zenon DEF Types
<1>2. m \in ReqMsg(sends + 1)
  BY ProxyAssumption, SMTT(30) DEF ReqMsg, ReqKinds, Vias, Types
<1>3. /\ [msg |-> m, part |-> 1] \in S /\ [msg |-> m, part |-> 2] \in S
      /\ g \in Seq(S)
  BY <1>2, ReqParts, SMTT(30)
<1>4. cNet' = cNet \o g /\ client_buf' = client_buf /\ toServer' = toServer /\ served' = served
  BY DEF ClientSends, serverVars, loopVars
<1> HIDE DEF S, g, a, m
<1>5. (client_buf \o cNet) \o g = client_buf \o (cNet \o g)
  <2>1. client_buf \in Seq(S) /\ cNet \in Seq(S) /\ g \in Seq(S)
    BY <1>1, <1>3
  <2> QED
    BY <2>1, JoinThree, SMTT(40)
<1>6. Coming \in Seq(S) /\ Coming' = Coming \o g
  BY <1>1, <1>4, <1>5, Joined DEF Coming
<1>7. (a \o Coming) \o g = a \o (Coming \o g)
  <2>1. a \in Seq(S) /\ Coming \in Seq(S) /\ g \in Seq(S)
    BY <1>1, <1>3, <1>6
  <2> QED
    BY <2>1, JoinThree
<1>8. Open' = Open \o g
  BY <1>4, <1>6, <1>7 DEF Open, a
<1> QED
  BY <1>1, <1>3, <1>8, SMTT(30) DEF S, g, m

\* The server takes a request.
LEMMA OpenServed ==
  ASSUME Types, served + 2 <= Len(toServer), served' = served + 2, toServer' = toServer,
         client_buf' = client_buf, cNet' = cNet
  PROVE  LET h == SubSeq(From(toServer, served), 1, 2) IN
         /\ h \in Seq(Req(sends)) /\ Len(h) = 2 /\ h[1].msg = Request
         /\ Open' \in Seq(Req(sends)) /\ Open = h \o Open'
<1> DEFINE S == Req(sends)
           a == From(toServer, served)
           b == From(toServer, served + 2)
           h == SubSeq(a, 1, 2)
<1>0. served \in Nat /\ Len(toServer) \in Nat /\ toServer \in Seq(S)
  BY DEF Types
<1>1. /\ a \in Seq(S) /\ Len(a) = Len(toServer) - served
      /\ \A k \in 1 .. Len(toServer) - served : a[k] = toServer[served + k]
  <2>1. served \in 0 .. Len(toServer) /\ toServer \in Seq(S)
    BY DEF Types
  <2> QED
    BY <2>1, Rest, Zenon
<1>2. /\ b \in Seq(S) /\ Len(b) = Len(toServer) - (served + 2)
      /\ \A k \in 1 .. Len(toServer) - (served + 2) : b[k] = toServer[(served + 2) + k]
  <2>1. served + 2 \in 0 .. Len(toServer) /\ toServer \in Seq(S)
    BY <1>0
  <2> QED
    BY <2>1, Rest, Zenon
<1> HIDE DEF a, b, S
<1>3. 2 \in 0 .. Len(a)
  BY <1>0, <1>1
<1> DEFINE x == From(a, 2)
<1>4. /\ x \in Seq(S) /\ Len(x) = Len(a) - 2
      /\ \A k \in 1 .. Len(a) - 2 : x[k] = a[2 + k]
  <2>1. a \in Seq(S)
    BY <1>1
  <2> QED
    BY <1>3, <2>1, Rest, SMTT(30)
<1>5. From(a, 2) = b
  <2> HIDE DEF x
  <2>1. Len(x) = Len(b)
    BY <1>0, <1>1, <1>2, <1>4, SMTT(30)
  <2>2. \A k \in 1 .. Len(x) : x[k] = b[k]
    <3> SUFFICES ASSUME NEW k \in 1 .. Len(x) PROVE x[k] = b[k]
      OBVIOUS
    <3>1. /\ k \in 1 .. Len(a) - 2 /\ 2 + k \in 1 .. Len(toServer) - served
          /\ served + (2 + k) = (served + 2) + k /\ k \in 1 .. Len(toServer) - (served + 2)
      BY <1>0, <1>1, <1>4, SMTT(30)
    <3> QED
      BY <1>1, <1>2, <1>4, <3>1, Zenon
  <2>3. x = b
    BY <1>2, <1>4, <2>1, <2>2, Same, SMTT(40)
  <2> QED
    BY <2>3 DEF x
<1>6. h \in Seq(S) /\ h \o From(a, 2) = a
  BY <1>1, <1>3, Split
<1>7. Len(h) = 2 /\ h[1] = a[1]
  <2>1. Len(SubSeq(a, 1, 2)) = 2 /\ \A k \in 1 .. 2 : SubSeq(a, 1, 2)[k] = a[k]
    BY <1>1, <1>3, Taken
  <2> QED
    BY <2>1
<1>8. h[1].msg = Request
  <2>1. 1 \in 1 .. Len(toServer) - served
    BY <1>0
  <2> QED
    BY <1>1, <1>7, <2>1 DEF Request
<1> HIDE DEF h, x
<1>9. Coming \in Seq(S) /\ Coming' = Coming
  BY OpenType DEF S, Coming
<1>10. (h \o b) \o Coming = h \o (b \o Coming)
  <2>1. h \in Seq(Req(sends)) /\ b \in Seq(Req(sends)) /\ Coming \in Seq(Req(sends))
    BY <1>2, <1>6, <1>9 DEF S
  <2> QED
    BY <2>1, PiecesType, SMTT(40)
<1>11. Open = (h \o b) \o Coming
  BY <1>5, <1>6, Zenon DEF Open, a
<1>12. Open' = b \o Coming
  BY <1>9 DEF Open, b
<1>13. Open' \in Seq(S)
  BY <1>2, <1>9, <1>12, Joined, Zenon
<1> QED
  BY <1>6, <1>7, <1>8, <1>10, <1>11, <1>12, <1>13, Zenon DEF S, h, a
\* The group without its first request.
LEMMA GroupTail ==
  ASSUME NEW S, NEW h \in Seq(S), NEW z \in Seq(S), NEW b, NEW n, NEW l, Group(h \o z, b, n, l)
  PROVE  Group(z, b, n, l)
<1> DEFINE c == h \o z
<1>1. /\ Len(h) \in Nat /\ Len(z) \in Nat /\ Len(c) = Len(h) + Len(z)
      /\ \A k \in 1 .. Len(z) : c[Len(h) + k] = z[k]
  BY Joined
<1>2. Group(c, b, n, l)
  BY Zenon
<1> HIDE DEF c
<1>3. ASSUME NEW i \in 1 .. Len(z)
      PROVE  /\ z[i].msg.id > b
             /\ i + 2 <= Len(z) => z[i].msg.kind = "parse"
             /\ i + 2 > Len(z) => z[i].msg.id = n /\ z[i].msg.kind = l
  <2> DEFINE j == Len(h) + i
  <2>1. /\ j \in 1 .. Len(c) /\ c[j] = z[i]
        /\ (j + 2 > Len(c) <=> i + 2 > Len(z)) /\ (j + 2 <= Len(c) <=> i + 2 <= Len(z))
    BY <1>1, SMTT(30)
  <2> HIDE DEF j
  <2> QED
    BY <1>2, <2>1 DEF Group
<1>4. Len(z) > 2 => l \in {"parse", "sync"}
  BY <1>1, <1>2, SMTT(30) DEF Group
<1> QED
  BY <1>3, <1>4 DEF Group

\* A request is replaced by one with the same number and kind.
LEMMA GroupReplace ==
  ASSUME NEW S, NEW a \in Seq(S), NEW h \in Seq(S), NEW g \in Seq(S), NEW z \in Seq(S),
         Len(h) = 2, Len(g) = 2,
         \A i \in {1, 2} : g[i].msg.id = h[i].msg.id /\ g[i].msg.kind = h[i].msg.kind,
         NEW b, NEW n, NEW l, Group(a \o (h \o z), b, n, l)
  PROVE  Group(a \o (g \o z), b, n, l) /\ Len(a \o (g \o z)) = Len(a \o (h \o z))
<1> DEFINE s == a \o (h \o z)
           t == a \o (g \o z)
<1>1. Pieces(s, a, h, z)
  BY Three, Zenon
<1>2. Pieces(t, a, g, z)
  BY Three, Zenon
<1>3. Group(s, b, n, l)
  BY Zenon
<1> HIDE DEF s, t
<1>4. Len(s) = Len(t) /\ Len(t) = Len(a) + 2 + Len(z) /\ Len(a) \in Nat /\ Len(z) \in Nat
  BY <1>1, <1>2, Zenon DEF Pieces
<1>5. ASSUME NEW i \in 1 .. Len(t)
      PROVE  t[i].msg.id = s[i].msg.id /\ t[i].msg.kind = s[i].msg.kind
  <2>1. CASE i \in 1 .. Len(a)
    <3>1. t[i] = a[i] /\ s[i] = a[i]
      BY <1>1, <1>2, <2>1, Zenon DEF Pieces
    <3> QED
      BY <3>1, Zenon
  <2>2. CASE i \in {Len(a) + 1, Len(a) + 2}
    <3>1. PICK k \in {1, 2} : i = Len(a) + k
      BY <2>2
    <3>2. k \in 1 .. Len(h) /\ k \in 1 .. Len(g)
      BY SMTT(30)
    <3>3. t[Len(a) + k] = g[k] /\ s[Len(a) + k] = h[k]
      BY <1>1, <1>2, <3>2, Zenon DEF Pieces
    <3> QED
      BY <3>1, <3>3, Zenon
  <2>3. CASE i > Len(a) + 2
    <3> DEFINE k == i - Len(a) - 2
    <3>1. k \in 1 .. Len(z) /\ i = Len(a) + 2 + k
      <4>1. \A p, q \in Nat : \A x \in 1 .. p + 2 + q :
              x > p + 2 => x - p - 2 \in 1 .. q /\ x = p + 2 + (x - p - 2)
        OBVIOUS
      <4>2. i \in 1 .. Len(a) + 2 + Len(z) /\ Len(a) \in Nat /\ Len(z) \in Nat
        BY <1>4, Zenon
      <4> QED
        BY <2>3, <4>1, <4>2, Zenon
    <3>2. t[Len(a) + 2 + k] = z[k] /\ s[Len(a) + 2 + k] = z[k]
      <4> HIDE DEF k
      <4>1. \A x \in 1 .. Len(z) : t[Len(a) + Len(g) + x] = z[x] /\ s[Len(a) + Len(h) + x] = z[x]
        BY <1>1, <1>2, SMTT(30) DEF Pieces
      <4>2. t[Len(a) + Len(g) + k] = z[k] /\ s[Len(a) + Len(h) + k] = z[k]
        BY <3>1, <4>1
      <4> QED
        BY <4>2, SMTT(30)
    <3> QED
      BY <3>1, <3>2, Zenon
  <2> QED
    BY <1>4, <2>1, <2>2, <2>3, SMTT(30)
<1>6. ASSUME NEW i \in 1 .. Len(t)
      PROVE  /\ t[i].msg.id > b
             /\ i + 2 <= Len(t) => t[i].msg.kind = "parse"
             /\ i + 2 > Len(t) => t[i].msg.id = n /\ t[i].msg.kind = l
  BY <1>3, <1>4, <1>5, Zenon DEF Group
<1>7. Len(t) > 2 => l \in {"parse", "sync"}
  BY <1>3, <1>4, SMTT(40) DEF Group
<1> QED
  BY <1>4, <1>6, <1>7, Zenon DEF Group, s, t

\* A query that the slow loop cannot read is all there is.
LEMMA GroupDrop ==
  ASSUME NEW S, NEW a \in Seq(S), NEW h \in Seq(S), NEW z \in Seq(S), Len(h) = 2,
         h[1].msg.kind = "latin", NEW b, NEW n, NEW l, Group(a \o (h \o z), b, n, l)
  PROVE  a = <<>> /\ z = <<>> /\ l = "latin"
<1> DEFINE s == a \o (h \o z)
<1>1. Pieces(s, a, h, z)
  BY Three
<1>2. Group(s, b, n, l)
  OBVIOUS
<1> HIDE DEF s
<1>3. /\ Len(s) = Len(a) + 2 + Len(z) /\ Len(a) \in Nat /\ Len(z) \in Nat
  BY <1>1 DEF Pieces
<1>4. s[Len(a) + 1] = h[1]
  <2>1. 1 \in 1 .. Len(h)
    OBVIOUS
  <2> QED
    BY <1>1, <2>1 DEF Pieces
<1> DEFINE k == Len(a) + 1
<1>5. k \in 1 .. Len(s) /\ s[k].msg.kind = "latin"
  BY <1>3, <1>4, SMTT(30)
<1>6. /\ k + 2 <= Len(s) => s[k].msg.kind = "parse"
      /\ k + 2 > Len(s) => s[k].msg.kind = l
      /\ Len(s) > 2 => l \in {"parse", "sync"}
  BY <1>2, <1>5 DEF Group
<1>7. ~(k + 2 <= Len(s)) /\ k + 2 > Len(s)
  <2>1. ~(k + 2 <= Len(s))
    BY <1>5, <1>6
  <2> QED
    BY <1>3, <2>1, SMTT(30)
<1>8. l = "latin"
  BY <1>5, <1>6, <1>7
<1>9. Len(a) = 0 /\ Len(z) = 0
  <2>1. ~(Len(s) > 2)
    BY <1>6, <1>8
  <2> QED
    BY <1>3, <2>1
<1> QED
  BY <1>8, <1>9, Empty, SMTT(30)
\* The slow loop forwards a request, or drops it.
LEMMA OpenMessage ==
  ASSUME Types, SlowClientMessage, ~cClosed => Framed(Coming), cClosed => Len(Open) <= 2,
         Group(Open, base, sends, last)
  PROVE  /\ Group(Open', base, sends, last) /\ Open # <<>>
         /\ last = "terminate" => Len(Open') = Len(Open)
<1> DEFINE S == Req(sends)
           a == From(toServer, served)
           h == SubSeq(client_buf, 1, 2)
           y == From(client_buf, 2)
           z == y \o cNet
           m == client_buf[1].msg
           v == Verdict(m)
           w == [m EXCEPT !.via = v]
           g == Parts(w)
<1>1. /\ client_buf' = y /\ cNet' = cNet /\ served' = served /\ Whole(client_buf)
      /\ toServer' = IF v = "dropped" THEN toServer ELSE toServer \o g
  BY Zenon DEF SlowClientMessage, clientVars, serverVars
<1>2. 2 \in 0 .. Len(client_buf) /\ client_buf \in Seq(S) /\ cNet \in Seq(S) /\ a \in Seq(S)
  BY <1>1, OpenType DEF Whole, Types
<1>3. /\ h \in Seq(S) /\ Len(h) = 2 /\ h[1] = client_buf[1]
      /\ y \in Seq(S) /\ z \in Seq(S) /\ h \o z = Coming
  <2>1. h \in Seq(S) /\ Len(h) = 2 /\ \A k \in 1 .. 2 : h[k] = client_buf[k]
    BY <1>2, Taken
  <2>2. y \in Seq(S) /\ z \in Seq(S) /\ h \o z = client_buf \o cNet
    BY <1>2, TakeStream, SMTT(60)
  <2> QED
    BY <2>1, <2>2, SMTT(40) DEF Coming
<1>4. /\ m \in ReqMsg(sends)
      /\ v # "dropped" => w \in ReqMsg(sends)
      /\ v = "dropped" => m.kind = "latin"
  BY ClientMessage
<1>5. ~cClosed => h[2].msg = m
  BY <1>1, FirstMessage
<1>6. h[1].msg = m
  BY <1>3
<1>7. v # "dropped" => w.id = m.id /\ w.kind = m.kind
  BY <1>4, Zenon DEF ReqMsg
<1>8. v # "dropped" => /\ g \in Seq(S) /\ Len(g) = 2
                       /\ g[1] = [msg |-> w, part |-> 1] /\ g[2] = [msg |-> w, part |-> 2]
  <2> HIDE DEF w
  <2> QED
    BY <1>4, ReqParts, Halves, Zenon
<1> HIDE DEF S, a, h, y, z, m, v, w, g
<1>9. Open = a \o (h \o z)
  BY <1>3 DEF Open, a
<1>10. Group(a \o (h \o z), base, sends, last)
  BY <1>9
<1>11. Pieces(a \o (h \o z), a, h, z)
  BY <1>2, <1>3, Three, Zenon
<1> DEFINE s == a \o (h \o z)
<1> HIDE DEF s
<1>12. /\ Len(s) = Len(a) + 2 + Len(z) /\ Len(a) \in Nat /\ Len(z) \in Nat
       /\ s[Len(a) + 1] = h[1] /\ s[Len(a) + 2] = h[2]
  <2>1. 1 \in 1 .. Len(h) /\ 2 \in 1 .. Len(h)
    BY <1>3
  <2>2. Pieces(s, a, h, z)
    BY <1>11, SMTT(30) DEF s
  <2> QED
    BY <1>3, <2>1, <2>2, SMTT(30) DEF Pieces
<1>13. h[2].msg.id = m.id /\ h[2].msg.kind = m.kind
  <2>1. CASE ~cClosed
    BY <1>5, <2>1, SMTT(30)
  <2>2. CASE cClosed
    <3>1. Len(s) <= 2 /\ Group(s, base, sends, last)
      BY <1>9, <1>10, <2>2 DEF s
    <3>2. Len(a) = 0 /\ Len(s) = 2
      BY <1>12, <3>1
    <3>3. s[1] = h[1] /\ s[2] = h[2]
      BY <1>12, <3>2
    <3>4. 1 \in 1 .. Len(s) /\ 2 \in 1 .. Len(s) /\ 1 + 2 > Len(s) /\ 2 + 2 > Len(s)
      BY <3>2, SMTT(30)
    <3>5. /\ s[1].msg.id = sends /\ s[1].msg.kind = last
          /\ s[2].msg.id = sends /\ s[2].msg.kind = last
      BY <3>1, <3>4 DEF Group
    <3> QED
      BY <1>6, <3>3, <3>5
  <2> QED
    BY <2>1, <2>2
<1>14. Open # <<>>
  <2>1. Len(Open) > 0
    BY <1>9, <1>12 DEF s
  <2> QED
    BY <2>1
<1>15. CASE v = "dropped"
  <2>1. h[1].msg.kind = "latin"
    BY <1>4, <1>6, <1>15
  <2>2. a = <<>> /\ z = <<>> /\ last = "latin"
    BY <1>2, <1>3, <1>10, <2>1, GroupDrop, Zenon
  <2>3. Open' = a \o z
    BY <1>1, <1>15 DEF Open, Coming, a, z
  <2>4. Open' = <<>> /\ Len(Open') = 0
    BY <2>2, <2>3
  <2>5. Group(Open', base, sends, last)
    BY <2>4 DEF Group
  <2> QED
    BY <1>14, <2>2, <2>5, Zenon
<1>16. CASE v # "dropped"
  <2>1. g \in Seq(S) /\ Len(g) = 2
    BY <1>8, <1>16
  <2>2. \A i \in {1, 2} : g[i].msg.id = h[i].msg.id /\ g[i].msg.kind = h[i].msg.kind
    <3>1. g[1].msg = w /\ g[2].msg = w
      BY <1>8, <1>16, SMTT(30)
    <3>2. w.id = h[1].msg.id /\ w.kind = h[1].msg.kind /\ w.id = h[2].msg.id /\ w.kind = h[2].msg.kind
      BY <1>6, <1>7, <1>13, <1>16
    <3> QED
      BY <3>1, <3>2, Zenon
  <2>3. Open' = a \o (g \o z)
    <3>1. From(toServer \o g, served) = a \o g
      BY <2>1, OpenWritten, Zenon DEF a, S
    <3>2. Open' = (a \o g) \o z
      BY <1>1, <1>16, <3>1, Zenon DEF Open, Coming, z
    <3>3. a \in Seq(Req(sends)) /\ g \in Seq(Req(sends)) /\ z \in Seq(Req(sends))
      BY <1>2, <1>3, <2>1 DEF S
    <3>4. (a \o g) \o z = a \o (g \o z)
      BY <3>3, PiecesType, SMTT(30)
    <3> QED
      BY <3>2, <3>4
  <2>4. Group(a \o (g \o z), base, sends, last) /\ Len(a \o (g \o z)) = Len(a \o (h \o z))
    <3>1. /\ a \in Seq(S) /\ h \in Seq(S) /\ g \in Seq(S) /\ z \in Seq(S)
          /\ Len(h) = 2 /\ Len(g) = 2
      BY <1>2, <1>3, <2>1
    <3> QED
      BY <1>10, <2>2, <3>1, GroupReplace, SMTT(30)
  <2> QED
    BY <1>9, <1>14, <2>3, <2>4, Zenon
<1> QED
  BY <1>15, <1>16
=============================================================================
