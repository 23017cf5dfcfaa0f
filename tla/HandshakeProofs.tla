-------------------------- MODULE HandshakeProofs --------------------------
(***************************************************************************)
(* connect_backend hands over a quiet connection, and a session honours    *)
(* the limit its client asked for, for every set of startup messages and   *)
(* however the messages of both sides are cut into reads.                  *)
(*                                                                         *)
(* The handover rests on the conversation with the server (Talk): at most  *)
(* one message awaits its answer, and while one does there is nothing to   *)
(* read; in what there is to read, only the last message may be one that   *)
(* ends connect_backend or that it answers.                                *)
(***************************************************************************)
EXTENDS Handshake, TLAPS

-----------------------------------------------------------------------------
(* Streams *)

\* The elements of a concatenation.
LEMMA Joined ==
  ASSUME NEW S, NEW s \in Seq(S), NEW t \in Seq(S)
  PROVE  /\ s \o t \in Seq(S)
         /\ Len(s) \in Nat /\ Len(t) \in Nat /\ Len(s \o t) = Len(s) + Len(t)
         /\ \A k \in 1 .. Len(s) : (s \o t)[k] = s[k]
         /\ \A k \in 1 .. Len(t) : (s \o t)[Len(s) + k] = t[k]
  OBVIOUS

\* The first n elements and the others.
LEMMA Taken ==
  ASSUME NEW S, NEW s \in Seq(S), NEW n \in 0 .. Len(s)
  PROVE  /\ SubSeq(s, 1, n) \in Seq(S) /\ Len(SubSeq(s, 1, n)) = n
         /\ \A k \in 1 .. n : SubSeq(s, 1, n)[k] = s[k]
         /\ SubSeq(s, n + 1, Len(s)) \in Seq(S) /\ Len(SubSeq(s, n + 1, Len(s))) = Len(s) - n
         /\ \A k \in 1 .. Len(s) - n : SubSeq(s, n + 1, Len(s))[k] = s[n + k]
  OBVIOUS

\* A sequence that begins as a and goes on as b is their concatenation.
LEMMA JoinedIs ==
  ASSUME NEW S, NEW a \in Seq(S), NEW b \in Seq(S), NEW t \in Seq(S), Len(t) = Len(a) + Len(b),
         \A k \in 1 .. Len(a) : t[k] = a[k], \A k \in 1 .. Len(b) : t[Len(a) + k] = b[k]
  PROVE  a \o b = t
<1> DEFINE c == a \o b
<1>1. c \in Seq(S) /\ Len(c) = Len(t)
  OBVIOUS
<1>2. ASSUME NEW k \in 1 .. Len(t) PROVE c[k] = t[k]
  <2>1. CASE k \in 1 .. Len(a)
    BY <2>1
  <2>2. CASE k - Len(a) \in 1 .. Len(b)
    BY <2>2, Len(a) + (k - Len(a)) = k
  <2> QED
    BY <2>1, <2>2
<1> HIDE DEF c
<1>3. c = t
  BY <1>1, <1>2
<1> QED
  BY <1>3 DEF c

\* A read moves a piece from the front of one stream to the end of another.
LEMMA Moved ==
  ASSUME NEW S, NEW s \in Seq(S), NEW t \in Seq(S), NEW n \in 0 .. Len(t)
  PROVE  (s \o SubSeq(t, 1, n)) \o SubSeq(t, n + 1, Len(t)) = s \o t
<1> DEFINE a == SubSeq(t, 1, n)
           b == SubSeq(t, n + 1, Len(t))
<1>1. /\ a \in Seq(S) /\ Len(a) = n /\ \A k \in 1 .. n : a[k] = t[k]
      /\ b \in Seq(S) /\ Len(b) = Len(t) - n /\ \A k \in 1 .. Len(t) - n : b[k] = t[n + k]
  BY Taken
<1> HIDE DEF a, b
<1>2. /\ Len(t) = Len(a) + Len(b)
      /\ \A k \in 1 .. Len(a) : t[k] = a[k]
      /\ \A k \in 1 .. Len(b) : t[Len(a) + k] = b[k]
  BY <1>1
<1>3. a \o b = t
  BY <1>1, <1>2, JoinedIs, Zenon
<1>4. (s \o a) \o b = s \o (a \o b)
  BY <1>1
<1> QED
  BY <1>3, <1>4, Zenon DEF a, b

\* Taking from the front of a stream takes from the front of what it is followed by.
LEMMA Dropped ==
  ASSUME NEW S, NEW s \in Seq(S), NEW t \in Seq(S), NEW n \in 0 .. Len(s)
  PROVE  SubSeq(s, n + 1, Len(s)) \o t = SubSeq(s \o t, n + 1, Len(s \o t))
<1> DEFINE b == SubSeq(s, n + 1, Len(s))
           c == s \o t
           d == SubSeq(c, n + 1, Len(c))
<1>1. b \in Seq(S) /\ Len(b) = Len(s) - n /\ \A k \in 1 .. Len(s) - n : b[k] = s[n + k]
  BY Taken
<1> HIDE DEF b
<1>2. n \in 0 .. Len(c) /\ c \in Seq(S) /\ Len(c) = Len(s) + Len(t)
  OBVIOUS
<1>3. /\ \A k \in 1 .. Len(s) : c[k] = s[k]
      /\ \A k \in 1 .. Len(t) : c[Len(s) + k] = t[k]
  OBVIOUS
<1> HIDE DEF c
<1>4. d \in Seq(S) /\ Len(d) = Len(c) - n /\ \A k \in 1 .. Len(c) - n : d[k] = c[n + k]
  BY <1>2, Taken
<1> HIDE DEF d
<1>5. Len(d) = Len(b) + Len(t)
  BY <1>1, <1>2, <1>4
<1>6. ASSUME NEW k \in 1 .. Len(b) PROVE d[k] = b[k]
  <2>1. k \in 1 .. Len(c) - n /\ k \in 1 .. Len(s) - n /\ n + k \in 1 .. Len(s)
    BY <1>1, <1>2
  <2> QED
    BY <1>1, <1>3, <1>4, <2>1
<1>7. ASSUME NEW k \in 1 .. Len(t) PROVE d[Len(b) + k] = t[k]
  <2>1. Len(b) + k \in 1 .. Len(c) - n /\ n + (Len(b) + k) = Len(s) + k
    BY <1>1, <1>2
  <2> QED
    BY <1>3, <1>4, <2>1, Zenon
<1>8. b \o t = d
  BY <1>1, <1>4, <1>5, <1>6, <1>7, JoinedIs, Zenon
<1> QED
  BY <1>8, Zenon DEF b, c, d

-----------------------------------------------------------------------------
(* The limit *)

\* What has been registered is what the startup message says.
LimitKept ==
  phase = "proxy" => registered = max_db_size(request) /\ limit = effective_limit(request)

\* A product in a u64.
LEMMA Wrapped ==
  ASSUME NEW x \in Nat, NEW w \in Nat \ {0}
  PROVE  x % w \in Nat /\ x % w <= x /\ (x < w => x % w = x)
<1>1. x % w \in 0 .. w - 1
  OBVIOUS
<1>2. x < w => x % w = x
  OBVIOUS
<1> QED
  BY <1>1, <1>2

\* Every suffix stands for a number.
LEMMA Multiplier == \A u : multiplier(u) \in Nat
  BY HandshakeAssumption DEF multiplier

\* What parse_size_limit makes of a text: the number of bytes it stands for, if that
\* is one that fits.
LEMMA ParseSize ==
  ASSUME NEW t
  PROVE  IF Wanted(t) = None THEN parse_size_limit(t) = None
         ELSE /\ parse_size_limit(t) # None
              /\ Wanted(t) < Word => parse_size_limit(t) = Wanted(t)
<1>1. CASE t = Zero \/ t.num \notin 0 .. Word - 1
  BY <1>1 DEF parse_size_limit, Wanted
<1>2. CASE ~(t = Zero \/ t.num \notin 0 .. Word - 1)
  <2> DEFINE x == t.num * multiplier(t.unit)
  <2>1. parse_size_limit(t) = x % Word
    BY <1>2 DEF parse_size_limit
  <2>2. x \in Nat
    BY <1>2, Multiplier
  <2>3. UnitBytes(t.unit) = multiplier(t.unit)
    BY DEF UnitBytes, multiplier
  <2>4. Wanted(t) = x
    BY <1>2, <2>3 DEF Wanted
  <2> HIDE DEF x
  <2>5. x % Word \in Nat /\ (x < Word => x % Word = x)
    BY <2>2, Wrapped, HandshakeAssumption
  <2> QED
    BY <2>1, <2>2, <2>4, <2>5, HandshakeAssumption
<1> QED
  BY <1>1, <1>2

\* The first setting of the options decides if it has the form that is looked for.
LEMMA FirstSetting ==
  ASSUME NEW o \in Seq(Settings), o # <<>>, o[1].form = "--"
  PROVE  OptionSize(o) = o[1].size
<1> DEFINE found == {i \in DOMAIN o : o[i].form = "--"}
<1>1. 1 \in found /\ \A i \in found : i \in Nat /\ 1 <= i
  OBVIOUS
<1> HIDE DEF found
<1>2. \A i \in found : (\A j \in found : i <= j) <=> i = 1
  BY <1>1
<1>3. (CHOOSE i \in found : \A j \in found : i <= j) = 1
  BY <1>1, <1>2
<1>4. OptionSize(o) = IF found = {} THEN NoSize
                      ELSE o[CHOOSE i \in found : \A j \in found : i <= j].size
  BY Zenon DEF OptionSize, found
<1> QED
  BY <1>1, <1>3, <1>4

-----------------------------------------------------------------------------
(* The client's messages *)

ClientHalf == [msg : Messages, part : {1, 2}]

\* A session that is past its startup phase has a startup message of its client.
Received ==
  /\ cNet \in Seq(ClientHalf) /\ buf \in Seq(ClientHalf)
  /\ phase \notin {"startup", "closed"} => request \in Startups

\* Streams stay streams, and the request is set when the startup phase ends.
LEMMA ReceivedStep ==
  ASSUME Received, [Next]_vars
  PROVE  Received'
<1>0. cNet \in Seq(ClientHalf) /\ buf \in Seq(ClientHalf)
  BY DEF Received
<1>1. ASSUME NEW m \in Messages, ClientSends(m) PROVE Received'
  <2>1. Parts(m) \in Seq(ClientHalf)
    BY DEF Parts, ClientHalf
  <2>2. cNet \o Parts(m) \in Seq(ClientHalf)
    BY <1>0, <2>1, Joined
  <2> QED
    BY <1>1, <2>2 DEF ClientSends, Received
<1>2. ASSUME NEW n \in 0 .. Len(cNet), ClientCloses(n) PROVE Received'
  <2>1. SubSeq(cNet, 1, n) \in Seq(ClientHalf)
    BY <1>0, Taken
  <2> QED
    BY <1>2, <2>1 DEF ClientCloses, Received
<1>3. ASSUME NEW n \in 1 .. Len(cNet), ClientRead(n) PROVE Received'
  <2>1. n \in 0 .. Len(cNet)
    BY <1>0
  <2>2. SubSeq(cNet, 1, n) \in Seq(ClientHalf) /\ SubSeq(cNet, n + 1, Len(cNet)) \in Seq(ClientHalf)
    BY <1>0, <2>1, Taken
  <2>3. buf \o SubSeq(cNet, 1, n) \in Seq(ClientHalf)
    BY <1>0, <2>2, Joined
  <2> QED
    BY <1>3, <2>2, <2>3 DEF ClientRead, From, Received
<1>4. ASSUME Whole(buf) PROVE From(buf, 2) \in Seq(ClientHalf) /\ buf[1].msg \in Messages
  <2>1. 2 \in 0 .. Len(buf) /\ 1 \in 1 .. Len(buf)
    BY <1>0, <1>4 DEF Whole
  <2>2. SubSeq(buf, 2 + 1, Len(buf)) \in Seq(ClientHalf)
    BY <1>0, <2>1, Taken
  <2>3. buf[1] \in ClientHalf
    BY <1>0, <2>1
  <2> QED
    BY <2>2, <2>3 DEF From, ClientHalf
<1>5. ASSUME NEW reply \in {"N", "S"}, SslRequest(reply) PROVE Received'
  BY <1>4, <1>5 DEF SslRequest, Arrived, clientVars, Received
<1>6. ASSUME Startup PROVE Received'
  <2>1. buf[1].msg \in Startups
    BY <1>4, <1>6 DEF Startup, Arrived, Messages
  <2> QED
    BY <1>4, <1>6, <2>1 DEF Startup, Arrived, clientVars, Received
<1>7. ASSUME UnreadableStartup \/ Password PROVE Received'
  BY <1>4, <1>7 DEF UnreadableStartup, Password, Arrived, clientVars, Received
<1>8. ASSUME \/ ServerAnswers \/ ServerCloses
             \/ ClientEof \/ NotArrived \/ CancelRequest
             \/ AcquirePooled \/ AcquireErr \/ Connect
             \/ \E n \in 1 .. Len(sNet) : BackendRead(n)
             \/ BackendEof \/ BackendMessage \/ BackendNoMessage \/ Greet \/ GreetFails
             \/ UNCHANGED vars
      PROVE  Received'
  <2>1. /\ UNCHANGED <<cNet, buf, request>>
        /\ phase' \notin {"startup", "closed"} => phase \notin {"startup", "closed"}
    BY <1>8, SMTT(30)
       DEF ServerAnswers, ServerCloses, ClientEof, NotArrived, CancelRequest, AcquirePooled,
           AcquireErr, Connect, BackendRead, BackendEof, BackendMessage, BackendNoMessage, Greet,
           GreetFails, clientVars, vars
  <2> QED
    BY <2>1 DEF Received
<1> QED
  BY <1>1, <1>2, <1>3, <1>5, <1>6, <1>7, <1>8 DEF Next, Session

\* The startup message of a session never changes once the session has begun.
LEMMA LimitStep ==
  ASSUME LimitKept, [Next]_vars
  PROVE  LimitKept'
<1>1. CASE Greet
  BY <1>1 DEF Greet, LimitKept, max_db_size, effective_limit
<1>2. ASSUME ~Greet PROVE phase' = "proxy" => phase = "proxy" /\ UNCHANGED <<request, limitVars>>
  BY <1>2 DEF Next, Session, ClientSends, ClientCloses, ServerAnswers, ServerCloses, ClientRead,
              ClientEof, NotArrived, SslRequest, CancelRequest, Startup, UnreadableStartup, Password,
              AcquirePooled, AcquireErr, Connect, BackendRead, BackendEof, BackendMessage, BackendNoMessage,
              GreetFails, vars, limitVars
<1> QED
  BY <1>1, <1>2 DEF LimitKept, limitVars, max_db_size, effective_limit

\* A session is restricted by the number of bytes its client asked for, by the parameter
\* or by the first setting in the options, or by the default if it asked for nothing,
\* unless the setting has the form "-c" or the number does not fit into a u64.
THEOREM LimitsAreHonoured == Spec => []LimitHonoured
<1>1. Init => LimitKept /\ Received
  BY DEF Init, LimitKept, Received
<1>2. LimitKept /\ Received => LimitHonoured
  <2> SUFFICES ASSUME LimitKept, Received, phase = "proxy",
                      ByParameter \/ request.options[1].form = "--"
               PROVE  IF Asked = None THEN registered = None /\ limit = DefaultLimit
                      ELSE Asked < Word => registered = Asked /\ limit = Asked
    BY DEF LimitHonoured
  <2>1. /\ registered = max_db_size(request)
        /\ limit = IF registered # None THEN registered ELSE DefaultLimit
    BY DEF LimitKept, effective_limit
  <2> DEFINE t == IF ByParameter THEN request.size ELSE request.options[1].size
  <2>2. request.options \in Seq(Settings)
    BY HandshakeAssumption DEF Received, Startups
  <2>3. max_db_size(request) = parse_size_limit(t)
    <3>1. CASE Wanted(request.size) # None
      BY <3>1, ParseSize DEF max_db_size, ByParameter
    <3>2. CASE Wanted(request.size) = None /\ request.options = <<>>
      <4>1. parse_size_limit(request.size) = None
        BY <3>2, ParseSize
      <4>2. OptionSize(request.options) = NoSize
        BY <3>2 DEF OptionSize
      <4>3. NoSize.num \notin 0 .. Word - 1
        BY HandshakeAssumption DEF NoSize
      <4>4. parse_size_limit(NoSize) = None
        BY <4>3, Zenon DEF parse_size_limit
      <4> QED
        BY <3>2, <4>1, <4>2, <4>4 DEF max_db_size, ByParameter
    <3>3. CASE ~ByParameter
      <4>1. parse_size_limit(request.size) = None
        BY <3>3, ParseSize DEF ByParameter
      <4>2. OptionSize(request.options) = request.options[1].size
        BY <2>2, <3>3, FirstSetting DEF ByParameter
      <4> QED
        BY <3>3, <4>1, <4>2 DEF max_db_size
    <3> QED
      BY <3>1, <3>2, <3>3 DEF ByParameter
  <2>4. Asked = Wanted(t)
    BY DEF Asked
  <2> HIDE DEF t
  <2> QED
    BY <2>1, <2>3, <2>4, ParseSize
<1> QED
  BY <1>1, <1>2, LimitStep, ReceivedStep, PTL DEF Spec

-----------------------------------------------------------------------------
(* The conversation with the server *)

Asks  == {"startup", "password", "sasl_initial", "sasl_response"}
Steps == {"auth", "after", "scram_first", "scram_final"}

\* What ends connect_backend, or is answered.
Final == {"ready", "cleartext", "md5", "sasl", "sasl_continue"}

Kinds == Final \cup {"auth_ok", "status", "key", "notice", "error", "sasl_final", "auth_bad"}
Half  == [msg : [kind : Kinds], part : {1, 2}]

\* What the server has said and nobody has taken: the end of a reply.
Unread == sbuf \o sNet
Reply  == \A i \in 1 .. Len(Unread) :
            IF i <= Len(Unread) - 2 THEN Unread[i].msg.kind \notin Final
                                    ELSE Unread[i].msg.kind = srv

Talk ==
  /\ sbuf \in Seq(Half) /\ sNet \in Seq(Half)
  /\ toServer = <<>> \/ \E x \in Asks : toServer = <<x>>
  /\ toServer # <<>> => sbuf = <<>> /\ sNet = <<>>
  /\ Reply

Quiet == sbuf = <<>> /\ sNet = <<>> /\ toServer = <<>>

HInv ==
  /\ phase \in {"startup", "password", "acquire"} => Quiet /\ step = "none"
  /\ phase = "connect" => Talk /\ step \in Steps
  /\ HandoverClean

\* Before the last message of a reply there is none that is answered.
LEMMA RepliesEnd ==
  ASSUME NEW a \in Asks, NEW ks \in Replies(a)
  PROVE  /\ ks \in Seq(Kinds) /\ Len(ks) \in Nat \ {0}
         /\ \A j \in 1 .. Len(ks) - 1 : ks[j] \notin Final
<1> DEFINE P(w) == /\ w \in Seq(Kinds) /\ Len(w) \in Nat \ {0}
                   /\ \A j \in 1 .. Len(w) - 1 : w[j] \notin Final
<1>1. ASSUME NEW k \in Kinds PROVE P(<<k>>)
  OBVIOUS
<1>2. ASSUME NEW w \in Welcomes PROVE P(w)
  <2>1. P(<<"auth_ok", "status", "key", "ready">>)
    BY DEF Kinds, Final
  <2>2. P(<<"auth_ok", "notice", "key", "ready">>)
    BY DEF Kinds, Final
  <2>3. P(<<"auth_ok", "error">>)
    BY DEF Kinds, Final
  <2> QED
    BY <2>1, <2>2, <2>3, Zenon DEF Welcomes
<1>3. ASSUME NEW w, P(w), NEW k \in Kinds \ Final PROVE P(<<k>> \o w)
  <2> DEFINE f == <<k>>
             c == f \o w
  <2>1. f \in Seq(Kinds) /\ Len(f) = 1 /\ f[1] \notin Final
    OBVIOUS
  <2>2. P(w)
    BY <1>3
  <2> HIDE DEF f
  <2>3. /\ c \in Seq(Kinds) /\ Len(c) = Len(f) + Len(w)
        /\ \A i \in 1 .. Len(f) : c[i] = f[i]
        /\ \A i \in 1 .. Len(w) : c[Len(f) + i] = w[i]
    <3>1. f \in Seq(Kinds) /\ w \in Seq(Kinds)
      BY <2>1, <2>2
    <3> QED
      BY <3>1, Joined
  <2> HIDE DEF c
  <2>4. ASSUME NEW j \in 1 .. Len(c) - 1 PROVE c[j] \notin Final
    <3>1. CASE j = 1
      BY <2>1, <2>3, <3>1
    <3>2. CASE j # 1
      <4>1. j - 1 \in 1 .. Len(w) - 1 /\ j - 1 \in 1 .. Len(w) /\ Len(f) + (j - 1) = j
        BY <2>1, <2>2, <2>3, <3>2
      <4>2. c[Len(f) + (j - 1)] = w[j - 1]
        BY <2>3, <4>1
      <4> QED
        BY <2>2, <4>1, <4>2
    <3> QED
      BY <3>1, <3>2
  <2>5. Len(c) \in Nat \ {0}
    BY <2>1, <2>2, <2>3
  <2> QED
    BY <2>3, <2>4, <2>5 DEF c, f
<1>4. "notice" \in Kinds \ Final /\ "sasl_final" \in Kinds \ Final
  BY DEF Kinds, Final
<1>5. ASSUME NEW r \in Answers(a) PROVE P(r)
  <2>1. \/ r \in Welcomes
        \/ \E k \in Kinds : r = <<k>>
        \/ \E w \in Welcomes : r = <<"sasl_final">> \o w
    BY DEF Answers, Asks, Kinds, Final
  <2> QED
    BY <1>1, <1>2, <1>3, <1>4, <2>1, Zenon
<1>6. ks \in Answers(a) \/ \E r \in Answers(a) : ks = <<"notice">> \o r
  BY DEF Replies
<1> QED
  BY <1>3, <1>4, <1>5, <1>6, Zenon

\* The halves of a reply.
LEMMA ReplyHalves ==
  ASSUME NEW ks \in Seq(Kinds), Len(ks) \in Nat \ {0},
         \A j \in 1 .. Len(ks) - 1 : ks[j] \notin Final
  PROVE  /\ Halves(ks) \in Seq(Half) /\ Len(Halves(ks)) = 2 * Len(ks)
         /\ \A i \in 1 .. 2 * Len(ks) :
              IF i <= 2 * Len(ks) - 2 THEN Halves(ks)[i].msg.kind \notin Final
                                      ELSE Halves(ks)[i].msg.kind = ks[Len(ks)]
<1> DEFINE L == Len(ks)
           hs == Halves(ks)
<1>1. ASSUME NEW i \in 1 .. 2 * L
      PROVE  /\ (i + 1) \div 2 \in 1 .. L
             /\ i <= 2 * L - 2 => (i + 1) \div 2 \in 1 .. L - 1
             /\ ~(i <= 2 * L - 2) => (i + 1) \div 2 = L
             /\ 2 - (i % 2) \in {1, 2}
  OBVIOUS
<1>2. ASSUME NEW i \in 1 .. 2 * L
      PROVE  /\ hs[i] \in Half
             /\ IF i <= 2 * L - 2 THEN hs[i].msg.kind \notin Final ELSE hs[i].msg.kind = ks[L]
  <2>1. hs[i] = [msg |-> [kind |-> ks[(i + 1) \div 2]], part |-> 2 - (i % 2)]
    BY DEF Halves
  <2>2. ks[(i + 1) \div 2] \in Kinds
    BY <1>1
  <2>3. hs[i].msg.kind = ks[(i + 1) \div 2]
    BY <2>1
  <2>4. hs[i] \in Half
    BY <1>1, <2>1, <2>2 DEF Half
  <2> QED
    BY <1>1, <2>3, <2>4
<1>3. hs \in [1 .. 2 * L -> Half]
  BY <1>2 DEF Halves
<1>4. hs \in Seq(Half) /\ Len(hs) = 2 * L
  <2>1. 2 * L \in Nat
    OBVIOUS
  <2> HIDE DEF hs
  <2> QED
    BY <1>3, <2>1
<1> QED
  BY <1>2, <1>4

\* connect_backend ends well only at a ReadyForQuery, and answers only what ends a reply.
LEMMA StepFacts ==
  ASSUME NEW st \in Steps, NEW k
  PROVE  /\ NextStep(st, k) \in Steps \cup {"done", "failed"}
         /\ NextStep(st, k) = "done" => k = "ready"
         /\ \/ Answer(st, k) = <<>>
            \/ k \in Final /\ \E x \in Asks : Answer(st, k) = <<x>>
<1>1. /\ NextStep(st, k) \in Steps \cup {"done", "failed"}
      /\ NextStep(st, k) = "done" => k = "ready"
  BY DEF NextStep, Steps, Auth
<1>2. \/ Answer(st, k) = <<>>
      \/ k \in Final /\ \E x \in Asks : Answer(st, k) = <<x>>
  BY DEF Answer, Final, Asks
<1> QED
  BY <1>1, <1>2

-----------------------------------------------------------------------------
(* The steps *)

\* The server's reply to the one message it has been sent is all there is to read.
LEMMA AnswerTalk ==
  ASSUME Talk, ServerAnswers
  PROVE  Talk'
<1>1. PICK a \in Asks : toServer = <<a>>
  BY DEF Talk, ServerAnswers
<1>2. toServer' = <<>> /\ sbuf' = sbuf /\ Head(toServer) = a
  BY <1>1 DEF ServerAnswers, backendVars
<1>3. PICK ks \in Replies(a) : sNet' = sNet \o Halves(ks) /\ srv' = ks[Len(ks)]
  BY <1>2 DEF ServerAnswers
<1>4. sbuf = <<>> /\ sNet = <<>>
  BY <1>1 DEF Talk
<1> DEFINE hs == Halves(ks)
<1>5. /\ hs \in Seq(Half) /\ Len(hs) = 2 * Len(ks) /\ Len(ks) \in Nat
      /\ \A i \in 1 .. 2 * Len(ks) :
           IF i <= 2 * Len(ks) - 2 THEN hs[i].msg.kind \notin Final ELSE hs[i].msg.kind = ks[Len(ks)]
  BY RepliesEnd, ReplyHalves, SMTT(30)
<1> HIDE DEF hs
<1>6. <<>> \o hs = hs
  BY <1>5
<1>7. sNet' = hs /\ sbuf' = <<>> /\ Unread' = hs
  BY <1>2, <1>3, <1>4, <1>6 DEF hs, Unread
<1>8. Reply'
  BY <1>3, <1>5, <1>7 DEF Reply
<1> QED
  BY <1>2, <1>5, <1>7, <1>8 DEF Talk

\* A read changes where the bytes are, not what there is to read.
LEMMA ReadTalk ==
  ASSUME Talk, NEW n \in 1 .. Len(sNet), BackendRead(n)
  PROVE  Talk'
<1>1. /\ sbuf' = sbuf \o SubSeq(sNet, 1, n) /\ sNet' = SubSeq(sNet, n + 1, Len(sNet))
      /\ UNCHANGED <<srv, toServer>>
  BY DEF BackendRead, From
<1>2. sbuf \in Seq(Half) /\ sNet \in Seq(Half) /\ n \in 0 .. Len(sNet)
  BY DEF Talk
<1>3. SubSeq(sNet, 1, n) \in Seq(Half) /\ SubSeq(sNet, n + 1, Len(sNet)) \in Seq(Half)
  BY <1>2, Taken
<1>4. sbuf' \in Seq(Half) /\ sNet' \in Seq(Half)
  <2>1. sbuf \o SubSeq(sNet, 1, n) \in Seq(Half)
    BY <1>2, <1>3, Joined
  <2> QED
    BY <1>1, <1>3, <2>1
<1>5. Unread' = Unread
  BY <1>1, <1>2, Moved, Zenon DEF Unread
<1>6. toServer = <<>>
  <2>1. Len(sNet) # 0
    BY <1>2
  <2>2. sNet # <<>>
    BY <2>1
  <2> QED
    BY <2>2 DEF Talk
<1>7. Reply'
  BY <1>1, <1>5 DEF Reply, Talk
<1> QED
  BY <1>1, <1>4, <1>6, <1>7 DEF Talk

\* The message that is taken comes off the front of what there is to read; if it
\* ends connect_backend or is answered, nothing is left.
LEMMA MessageTalk ==
  ASSUME Talk, step \in Steps, BackendMessage
  PROVE  /\ Talk' /\ step' \in Steps \cup {"done", "failed"}
         /\ step' = "done" => Quiet' /\ srv' = "ready"
<1> DEFINE k == sbuf[1].msg.kind
<1>1. /\ Whole(sbuf) /\ sbuf' = SubSeq(sbuf, 2 + 1, Len(sbuf)) /\ step' = NextStep(step, k)
      /\ toServer' = toServer \o Answer(step, k) /\ UNCHANGED <<sNet, srv>>
  BY DEF BackendMessage, From, serverVars
<1>2. sbuf \in Seq(Half) /\ sNet \in Seq(Half) /\ Len(sbuf) \in Nat /\ 2 \in 0 .. Len(sbuf)
  BY <1>1 DEF Talk, Whole
<1> DEFINE u == Unread
<1>3. /\ u \in Seq(Half) /\ Len(sNet) \in Nat /\ Len(u) = Len(sbuf) + Len(sNet)
      /\ \A i \in 1 .. Len(sbuf) : u[i] = sbuf[i]
  BY <1>2, Joined DEF Unread
<1>4. Unread' = SubSeq(u, 2 + 1, Len(u))
  BY <1>1, <1>2, Dropped, Zenon DEF Unread
<1>5. 2 \in 0 .. Len(u)
  BY <1>2, <1>3
<1>6. /\ Unread' \in Seq(Half) /\ Len(Unread') = Len(u) - 2
      /\ \A i \in 1 .. Len(u) - 2 : Unread'[i] = u[2 + i]
  <2>1. u \in Seq(Half)
    BY <1>3
  <2> HIDE DEF u
  <2> QED
    BY <1>4, <1>5, <2>1, Taken, ZenonT(30)
<1>7. toServer = <<>>
  <2>1. sbuf # <<>>
    BY <1>2
  <2> QED
    BY <2>1 DEF Talk
<1>8. sbuf' \in Seq(Half) /\ sNet' \in Seq(Half)
  BY <1>1, <1>2, Taken
<1>9. u[1].msg.kind = k
  BY <1>2, <1>3
<1>10. \A i \in 1 .. Len(u) :
         IF i <= Len(u) - 2 THEN u[i].msg.kind \notin Final ELSE u[i].msg.kind = srv
  BY DEF Talk, Reply
<1> HIDE DEF u, k
<1>11. Reply'
  <2> SUFFICES ASSUME NEW i \in 1 .. Len(Unread')
               PROVE  IF i <= Len(Unread') - 2 THEN Unread'[i].msg.kind \notin Final
                                               ELSE Unread'[i].msg.kind = srv'
    BY DEF Reply
  <2>1. Len(u) \in Nat /\ 2 + i \in 1 .. Len(u) /\ i \in 1 .. Len(u) - 2
        /\ (i <= Len(Unread') - 2 <=> 2 + i <= Len(u) - 2)
    BY <1>3, <1>6
  <2>2. Unread'[i] = u[2 + i]
    BY <1>6, <2>1
  <2> QED
    BY <1>1, <1>10, <2>1, <2>2
<1>12. ASSUME k \in Final PROVE Len(u) = 2 /\ k = srv /\ sbuf' = <<>> /\ sNet' = <<>>
  <2>1. Len(u) \in Nat /\ Len(u) >= 2 /\ 1 \in 1 .. Len(u)
    BY <1>2, <1>3
  <2>2. ~(1 <= Len(u) - 2)
    BY <1>9, <1>10, <1>12, <2>1
  <2>3. Len(u) = 2
    <3>1. \A l \in Nat : l >= 2 /\ ~(1 <= l - 2) => l = 2
      OBVIOUS
    <3> QED
      BY <2>1, <2>2, <3>1, Zenon
  <2>4. Len(sbuf) = 2 /\ Len(sNet) = 0
    BY <1>2, <1>3, <2>3
  <2>5. sbuf' = <<>>
    BY <1>1, <2>4
  <2>6. sNet' = <<>>
    BY <1>1, <1>2, <2>4
  <2>7. u[1].msg.kind = srv
    BY <1>10, <2>1, <2>2
  <2> QED
    BY <1>9, <2>3, <2>5, <2>6, <2>7
<1>13. /\ step' \in Steps \cup {"done", "failed"} /\ (step' = "done" => k = "ready")
       /\ \/ Answer(step, k) = <<>>
          \/ k \in Final /\ \E x \in Asks : Answer(step, k) = <<x>>
  BY <1>1, StepFacts
<1>14. Answer(step, k) \in Seq(Asks)
  <2>1. <<>> \in Seq(Asks) /\ \A x \in Asks : <<x>> \in Seq(Asks)
    OBVIOUS
  <2> QED
    BY <1>13, <2>1, Zenon
<1>15. toServer' = Answer(step, k)
  BY <1>1, <1>7, <1>14
<1>16. Talk'
  BY <1>8, <1>11, <1>12, <1>13, <1>15 DEF Talk
<1>17. step' = "done" => Quiet' /\ srv' = "ready"
  <2> HAVE step' = "done"
  <2>1. k = "ready" /\ k \in Final
    BY <1>13 DEF Final
  <2>2. Answer(step, k) = <<>>
    BY <2>1 DEF Answer
  <2> QED
    BY <1>1, <1>12, <1>15, <2>1, <2>2 DEF Quiet
<1> QED
  BY <1>13, <1>16, <1>17

\* Everything else of connect_backend leaves the conversation alone.
LEMMA TalkSame ==
  ASSUME Talk, UNCHANGED <<sbuf, sNet, toServer, srv>>
  PROVE  Talk'
  BY DEF Talk, Reply, Unread

\* HInv is kept.
LEMMA HandoverStep ==
  ASSUME HInv, [Next]_vars
  PROVE  HInv'
<1>1. ASSUME ServerAnswers PROVE HInv'
  <2>1. toServer # <<>> /\ phase' = phase /\ step' = step
    BY <1>1 DEF ServerAnswers, backendVars
  <2>2. /\ phase \notin {"startup", "password", "acquire"}
        /\ ~(phase \in {"greet", "proxy"} /\ step = "done")
    BY <2>1 DEF HInv, Quiet, HandoverClean
  <2>3. phase = "connect" => Talk' /\ step \in Steps
    BY <1>1, AnswerTalk DEF HInv
  <2> QED
    BY <2>1, <2>2, <2>3 DEF HInv, HandoverClean
<1>2. ASSUME NEW n \in 1 .. Len(sNet), BackendRead(n) PROVE HInv'
  <2>1. phase = "connect" /\ phase' = "connect" /\ step' = step
    BY <1>2 DEF BackendRead
  <2>2. Talk' /\ step \in Steps
    BY <1>2, <2>1, ReadTalk DEF HInv
  <2> QED
    BY <2>1, <2>2 DEF HInv, HandoverClean
<1>3. ASSUME BackendMessage PROVE HInv'
  <2>1. /\ phase = "connect"
        /\ phase' = CASE step' = "done" -> "greet" [] step' = "failed" -> "closed" [] OTHER -> phase
    BY <1>3 DEF BackendMessage
  <2>2. /\ Talk' /\ step' \in Steps \cup {"done", "failed"}
        /\ step' = "done" => Quiet' /\ srv' = "ready"
    BY <1>3, <2>1, MessageTalk DEF HInv
  <2>3. CASE step' = "done"
    BY <2>1, <2>2, <2>3 DEF HInv, HandoverClean, Quiet
  <2>4. CASE step' = "failed"
    BY <2>1, <2>4 DEF HInv, HandoverClean
  <2>5. CASE step' \in Steps
    BY <2>1, <2>2, <2>5 DEF HInv, HandoverClean, Steps
  <2> QED
    BY <2>2, <2>3, <2>4, <2>5
<1>4. ASSUME Connect PROVE HInv'
  <2>1. /\ phase = "acquire" /\ phase' = "connect" /\ step' = "auth" /\ toServer' = <<"startup">>
        /\ UNCHANGED <<sbuf, sNet, srv>>
    BY <1>4 DEF Connect, serverVars
  <2>2. sbuf' = <<>> /\ sNet' = <<>>
    BY <2>1 DEF HInv, Quiet
  <2>3. Unread' = <<>> /\ <<>> \in Seq(Half)
    BY <2>2 DEF Unread
  <2>4. Reply'
    BY <2>3 DEF Reply
  <2> QED
    BY <2>1, <2>2, <2>3, <2>4 DEF HInv, HandoverClean, Talk, Asks, Steps
<1>5. ASSUME AcquirePooled PROVE HInv'
  <2>1. phase = "acquire" /\ phase' = "greet" /\ step' = step
    BY <1>5 DEF AcquirePooled, backendVars
  <2> QED
    BY <2>1 DEF HInv, HandoverClean
<1>6. ASSUME BackendNoMessage PROVE HInv'
  <2>1. /\ phase = "connect" /\ phase' = "connect" /\ step' \in {"after", step}
        /\ UNCHANGED <<sbuf, sNet, toServer, srv>>
    BY <1>6 DEF BackendNoMessage, serverVars
  <2> QED
    BY <2>1, TalkSame DEF HInv, HandoverClean, Steps
<1>7. ASSUME Greet \/ GreetFails PROVE HInv'
  BY <1>7 DEF Greet, GreetFails, serverVars, backendVars, HInv, HandoverClean
<1>8. ASSUME UNCHANGED <<sbuf, sNet, toServer, srv, step>>,
             \/ phase' = phase
             \/ phase' = "closed"
             \/ phase \in {"startup", "password"} /\ phase' \in {"password", "acquire"}
      PROVE  HInv'
  <2>1. phase = "connect" => Talk'
    BY <1>8, TalkSame DEF HInv
  <2> QED
    BY <1>8, <2>1 DEF HInv, HandoverClean, Quiet
<1>9. ASSUME \/ \E m \in Messages : ClientSends(m)
             \/ \E n \in 0 .. Len(cNet) : ClientCloses(n)
             \/ ServerCloses
             \/ \E n \in 1 .. Len(cNet) : ClientRead(n)
             \/ ClientEof \/ NotArrived \/ BackendEof \/ CancelRequest \/ AcquireErr
             \/ \E reply \in {"N", "S"} : SslRequest(reply)
             \/ UNCHANGED vars
      PROVE  HInv'
  <2>1. UNCHANGED <<sbuf, sNet, toServer, srv, step>> /\ (phase' = phase \/ phase' = "closed")
    BY <1>9 DEF ClientSends, ClientCloses, ServerCloses, ClientRead, ClientEof, NotArrived,
                BackendEof, CancelRequest, AcquireErr, SslRequest, vars, serverVars, backendVars
  <2> QED
    BY <1>8, <2>1, SMTT(30)
<1>10. ASSUME Startup \/ UnreadableStartup \/ Password PROVE HInv'
  <2>1. /\ UNCHANGED <<sbuf, sNet, toServer, srv, step>>
        /\ phase \in {"startup", "password"} /\ phase' \in {"password", "acquire", "closed"}
    BY <1>10 DEF Startup, UnreadableStartup, Password, serverVars, backendVars
  <2> QED
    BY <1>8, <2>1
<1> QED
  BY <1>1, <1>2, <1>3, <1>4, <1>5, <1>6, <1>7, <1>9, <1>10 DEF Next, Session

\* Whatever authentication the server asks for and however its messages are cut into
\* reads, a new connection is handed to the proxy loops with its server ready and with
\* nothing of the handshake left to read.
THEOREM HandoverIsClean == Spec => []HandoverClean
<1>1. Init => HInv
  BY DEF Init, HInv, Quiet, HandoverClean
<1>2. HInv => HandoverClean
  BY DEF HInv
<1> QED
  BY <1>1, <1>2, HandoverStep, PTL DEF Spec
=============================================================================
