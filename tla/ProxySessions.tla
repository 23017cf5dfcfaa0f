---------------------------- MODULE ProxySessions ----------------------------
(***************************************************************************)
(* What the proxy loops promise a client that keeps to the protocol, for   *)
(* every number of messages and of sessions and however the streams are    *)
(* cut into reads.                                                         *)
(*                                                                         *)
(* A polite client sends the next request only once the last one is        *)
(* answered, and leaves only when it is owed nothing or has sent           *)
(* Terminate.  It and the server take turns (Lockstep): what is open is    *)
(* one request or one extended query, and the ReadyForQuery that ends it   *)
(* is the last thing on its way.  So a session ends with at most a         *)
(* Terminate in the stream, the reset reads the answer to its own DISCARD  *)
(* ALL (Resetting), and the pooled connection owes nothing (Quiet).  That  *)
(* closes the circle: the next session starts as the first one did, its    *)
(* scanner is aligned, its answers are its own, and the loop may only      *)
(* change between transactions, so that the slow loop starts between two   *)
(* messages and stays there (InFrame).                                     *)
(*                                                                         *)
(* None of this holds of a connection that an impolite client has left     *)
(* with unread answers: the theorems name the case they are about.         *)
(***************************************************************************)
EXTENDS ProxyAnswers

-----------------------------------------------------------------------------
(* The invariant *)

\* While the client and the server talk, they take turns.
InStep ==
  /\ Group(Open, base, sends, last) /\ ReadyLast(Arriving, Open, base, sends, last, tx)
  /\ ~Waiting => Open = <<>> /\ Arriving = <<>>
  /\ last = "terminate" => Len(Open) = 2 /\ Arriving = <<>>
  /\ cClosed => ~Waiting \/ last = "terminate"
  /\ mode = "slow" => ~pending
Lockstep == Talking => InStep

\* The reset: DISCARD ALL is all there is, or it will not be answered.
OneReady(d) == \A i \in 1 .. Len(d) : d[i].msg.kind = "ready" => i + 2 > Len(d)
Resetting ==
  mode = "reset" =>
    \/ Arriving = <<>> /\ (sClosed \/ (Open # <<>> /\ Open[1].msg.kind = "terminate"))
    \/ Arriving = <<>> /\ Open = DiscardAll
    \/ Open = <<>> /\ OneReady(Arriving)

\* The slow loop and the reset start between two messages, and stay there.
InFrame ==
  /\ misread = {}
  /\ mode \in {"slow", "reset"} => Len(Coming) % 2 = 0 /\ Len(Arriving) % 2 = 0

LInv == Lockstep /\ Resetting /\ Quiet /\ Enforced /\ OwnAnswers /\ InFrame
PInv == RInv /\ AInv /\ (Polite => LInv)

-----------------------------------------------------------------------------
(* Clients and server take turns *)

\* Nothing moves between the client and the server.
LEMMA InStepKept ==
  ASSUME InStep, Open' = Open, Arriving' = Arriving,
         UNCHANGED <<sends, base, last, tx, toClient, cClosed>>, mode' = "slow" => ~pending'
  PROVE  InStep' /\ Waiting' = Waiting
<1>1. Waiting' = Waiting
  BY DEF Waiting, Answers
<1> QED
  BY <1>1 DEF InStep

\* The client receives the front of what arrives: if that is what it waited for,
\* it is all there is.
LEMMA InStepReceive ==
  ASSUME Types, Framed(Arriving), InStep, OwnAnswers,
         NEW data \in Seq(Ans(sends)), NEW z \in Seq(Ans(sends)), Len(data) >= 1,
         Arriving = data \o z, Arriving' = z, Open' = Open, toClient' = toClient \o data,
         UNCHANGED <<sends, base, last, tx, cClosed>>, mode' = "slow" => ~pending'
  PROVE  /\ InStep' /\ OwnAnswers' /\ Waiting
         /\ ~Waiting' => /\ z = <<>> /\ Open = <<>> /\ data = Arriving
                         /\ data[Len(data)].msg.kind = "ready" /\ data[Len(data)].part = 2
                         /\ data[Len(data)].msg.ans = sends
                         /\ data[Len(data)].msg.idle <=> tx = "idle"
<1> DEFINE d == Arriving
<1>1. /\ Len(data) \in Nat /\ Len(z) \in Nat /\ Len(d) = Len(data) + Len(z)
      /\ \A k \in 1 .. Len(data) : d[k] = data[k]
  BY Joined
<1>2. d \in Seq(Ans(sends))
  BY OpenType
<1>3. d # <<>>
  <2>1. Len(d) > 0
    BY <1>1
  <2> QED
    BY <2>1
<1>4. /\ Waiting /\ last # "terminate" /\ ~cClosed
      /\ Group(Open, base, sends, last) /\ ReadyLast(d, Open, base, sends, last, tx)
  BY <1>3 DEF InStep
<1>5. ReadyLast(z, Open, base, sends, last, tx)
  <2>1. ReadyLast(data \o z, Open, base, sends, last, tx)
    BY <1>4
  <2> QED
    BY <2>1, ReadyTail
<1>6. ASSUME ~Waiting'
      PROVE  /\ z = <<>> /\ Open = <<>> /\ data = d
             /\ data[Len(data)].msg.kind = "ready" /\ data[Len(data)].part = 2
             /\ data[Len(data)].msg.ans = sends
             /\ data[Len(data)].msg.idle <=> tx = "idle"
  <2>1. PICK i \in 1 .. Len(data) : data[i].msg.kind = "ready" /\ data[i].part = 2
    BY <1>4, <1>6, WaitingOver, Zenon
  <2>2. i \in 1 .. Len(d) /\ d[i] = data[i]
    BY <1>1
  <2>3. /\ i = Len(d) /\ Open = <<>> /\ d[i].msg.ans = sends
        /\ d[i].msg.idle <=> tx = "idle"
    <3> HIDE DEF d
    <3>1. /\ d \in Seq(Ans(sends)) /\ Framed(d) /\ ReadyLast(d, Open, base, sends, last, tx)
          /\ i \in 1 .. Len(d) /\ d[i].msg.kind = "ready" /\ d[i].part = 2
      BY <1>2, <1>4, <2>1, <2>2 DEF d
    <3> QED
      BY <3>1, ReadyEnd, SMTT(30)
  <2>4. Len(z) = 0 /\ i = Len(data)
    BY <1>1, <2>3
  <2>5. z = <<>>
    BY <2>4, Empty
  <2>6. data = d
    <3>1. data \o <<>> = data
      BY JoinEmpty
    <3> QED
      BY <2>5, <3>1
  <2> QED
    BY <2>1, <2>2, <2>3, <2>4, <2>5, <2>6
<1>7. OwnAnswers'
  <2>1. \A i \in 1 .. Len(data) : data[i].msg.kind # "notice" => data[i].msg.ans > base
    <3> SUFFICES ASSUME NEW i \in 1 .. Len(data) PROVE data[i].msg.ans > base
      OBVIOUS
    <3>1. i \in 1 .. Len(d) /\ d[i] = data[i]
      BY <1>1
    <3>2. d[i].msg.ans > base
      BY <1>4, <3>1 DEF ReadyLast
    <3> QED
      BY <3>1, <3>2
  <2> QED
    BY <2>1, OwnMore, Zenon
<1>8. InStep'
  BY <1>4, <1>5, <1>6 DEF InStep
<1> QED
  BY <1>4, <1>6, <1>7, <1>8

\* The client sends.
LEMMA InStepSend ==
  ASSUME Types, InStep, Polite, NEW k \in Kinds, ClientSends(k)
  PROVE  InStep' /\ Waiting'
<1> DEFINE m == [id |-> sends + 1, kind |-> k, via |-> "client"]
<1>1. /\ sends' = sends + 1 /\ last' = k /\ base' = base /\ toClient' = toClient /\ tx' = tx
      /\ cClosed' = cClosed /\ ~cClosed /\ mode' = mode /\ pending' = pending
      /\ server_buf' = server_buf /\ sNet' = sNet
      /\ ~Waiting \/ (last = "parse" /\ k \in {"parse", "sync"})
  BY DEF ClientSends, serverVars, loopVars
<1>2. Arriving' = Arriving
  BY <1>1 DEF Arriving
<1>3. Waiting'
  BY <1>1, WaitingSend
<1>4. /\ [msg |-> m, part |-> 1] \in Req(sends + 1) /\ [msg |-> m, part |-> 2] \in Req(sends + 1)
      /\ Open \in Seq(Req(sends + 1)) /\ Open' = Open \o Parts(m)
  BY OpenSend
<1>5. Open = <<>> \/ (last = "parse" /\ k \in {"parse", "sync"})
  BY <1>1 DEF InStep
<1>6. Group(Open', base, sends + 1, k) /\ Len(Open') = Len(Open) + 2 /\ Len(Open) \in Nat
  <2>1. sends \in Nat /\ base \in 0 .. sends /\ Group(Open, base, sends, last)
    BY DEF Types, InStep
  <2>2. m.id = sends + 1 /\ m.kind = k
    OBVIOUS
  <2> HIDE DEF m
  <2>3. /\ Group(Open \o Parts(m), base, sends + 1, m.kind)
        /\ Len(Open \o Parts(m)) = Len(Open) + 2 /\ Len(Open) \in Nat
    BY <1>4, <1>5, <2>1, <2>2, GroupSend
  <2> QED
    BY <1>4, <2>2, <2>3
<1>7. ReadyLast(Arriving, Open', base, sends + 1, k, tx)
  <2>1. last = "parse" \/ Arriving = <<>>
    BY <1>1 DEF InStep
  <2>2. Plain(Arriving, base)
    BY <2>1, NoReady DEF InStep
  <2> QED
    BY <2>2, PlainReady
<1>8. k = "terminate" => Len(Open') = 2 /\ Arriving = <<>>
  <2>1. k = "terminate" => Open = <<>> /\ Arriving = <<>>
    BY <1>1 DEF InStep
  <2> QED
    BY <1>6, <2>1
<1>9. mode' = "slow" => ~pending'
  BY <1>1 DEF InStep
<1> QED
  BY <1>1, <1>2, <1>3, <1>6, <1>7, <1>8, <1>9 DEF InStep
\* The server answers: results, and last the ReadyForQuery unless the group goes on.
LEMMA AnswerArrives ==
  ASSUME Types, Framed(Arriving), ServerAnswers, NEW b \in Int, Plain(Arriving, b), Request.id > b
  PROVE  /\ Request.kind = "parse" => Plain(Arriving', b)
         /\ Request.kind # "parse" =>
              \A l : l # "parse" => ReadyLast(Arriving', <<>>, b, Request.id, l, tx')
<1> DEFINE S == Ans(sends)
           q == Request
<1>1. server_buf' = server_buf /\ q \in ReqMsg(sends) /\ Arriving \in Seq(S)
  BY AnswerStep, OpenType, Zenon DEF ServerAnswers, loopVars
<1>2. q.id \in Nat
  BY <1>1 DEF ReqMsg, Types
<1>3. ASSUME NEW m, sNet' = sNet \o Parts(m), Result(m, q)
      PROVE  Plain(Arriving', b)
  <2>1. m \in AnsMsg(sends) /\ m.kind \in {"ok", "error"} /\ m.ans = q.id
    BY <1>3 DEF Result
  <2>2. Arriving' = Arriving \o Parts(m)
    BY <1>1, <1>3, <2>1, ArrivingMore, Zenon
  <2>3. [msg |-> m, part |-> 1] \in S /\ [msg |-> m, part |-> 2] \in S
    BY <2>1, AnsParts
  <2>4. Plain(Arriving \o Parts(m), b)
    BY <1>1, <2>1, <2>3, PlainAppend
  <2> QED
    BY <2>2, <2>4
<1>4. ASSUME NEW m, sNet' = sNet \o Parts(m), ReadyFor(m, q), NEW l, l # "parse"
      PROVE  ReadyLast(Arriving', <<>>, b, q.id, l, tx')
  <2>1. m \in AnsMsg(sends) /\ m.kind = "ready" /\ m.ans = q.id /\ (m.idle <=> tx' = "idle")
    BY <1>4 DEF ReadyFor
  <2>2. Arriving' = Arriving \o Parts(m)
    BY <1>1, <1>4, <2>1, ArrivingMore, Zenon
  <2>3. [msg |-> m, part |-> 1] \in S /\ [msg |-> m, part |-> 2] \in S
    BY <2>1, AnsParts
  <2> DEFINE t == tx'
             n == q.id
  <2> HIDE DEF t, n, S
  <2>4. /\ n \in Nat /\ n > b /\ Arriving \in Seq(S) /\ m.kind = "ready" /\ m.ans = n
        /\ m.idle <=> t = "idle"
    BY <1>1, <1>2, <2>1 DEF t, n
  <2>5. ReadyLast(Arriving \o Parts(m), <<>>, b, n, l, t)
    BY <1>4, <2>3, <2>4, ReadyAppend
  <2> QED
    BY <2>2, <2>5 DEF n, t
<1>5. ASSUME NEW m, NEW z, sNet' = sNet \o Parts(m) \o Parts(z), Result(m, q), ReadyFor(z, q),
             NEW l, l # "parse"
      PROVE  ReadyLast(Arriving', <<>>, b, q.id, l, tx')
  <2>1. /\ m \in AnsMsg(sends) /\ m.kind \in {"ok", "error"} /\ m.ans = q.id
        /\ z \in AnsMsg(sends) /\ z.kind = "ready" /\ z.ans = q.id
        /\ z.idle <=> tx' = "idle"
    BY <1>5 DEF Result, ReadyFor
  <2> DEFINE c == Arriving \o Parts(m)
             t == tx'
             n == q.id
  <2>2. Arriving' = c \o Parts(z)
    BY <1>1, <1>5, <2>1, ArrivingMore, Zenon
  <2>3. /\ [msg |-> m, part |-> 1] \in S /\ [msg |-> m, part |-> 2] \in S
        /\ [msg |-> z, part |-> 1] \in S /\ [msg |-> z, part |-> 2] \in S
        /\ Parts(m) \in Seq(S)
    BY <2>1, AnsParts, Zenon
  <2>4. Plain(c, b)
    BY <1>1, <2>1, <2>3, PlainAppend
  <2> HIDE DEF S
  <2>5. c \in Seq(S)
    BY <1>1, <2>3, Joined
  <2> HIDE DEF c, t, n
  <2>6. /\ n \in Nat /\ n > b /\ c \in Seq(S) /\ z.kind = "ready" /\ z.ans = n
        /\ z.idle <=> t = "idle"
    BY <1>2, <2>1, <2>5 DEF t, n
  <2>7. ReadyLast(c \o Parts(z), <<>>, b, n, l, t)
    BY <1>5, <2>3, <2>4, <2>6, ReadyAppend, Zenon
  <2> QED
    BY <2>2, <2>7 DEF n, t
<1>6. \/ \E m : /\ sNet' = sNet \o Parts(m)
                /\ \/ q.kind = "sync" /\ ReadyFor(m, q)
                   \/ q.kind = "parse" /\ Result(m, q)
      \/ \E m, z : /\ q.kind \notin {"sync", "parse"}
                   /\ Result(m, q) /\ ReadyFor(z, q) /\ sNet' = sNet \o Parts(m) \o Parts(z)
  BY AnswerStep
<1> HIDE DEF q
<1>7. q.kind = "parse" => Plain(Arriving', b)
  BY <1>3, <1>6
<1>8. ASSUME q.kind # "parse", NEW l, l # "parse"
      PROVE  ReadyLast(Arriving', <<>>, b, q.id, l, tx')
  BY <1>4, <1>5, <1>6, <1>8, Zenon
<1> QED
  BY <1>7, <1>8 DEF q

\* The request that the server takes is the first that is open.
LEMMA RequestFirst ==
  ASSUME Types, ServerAnswers
  PROVE  /\ Open # <<>> /\ Open[1].msg = Request /\ Request.kind # "terminate"
         /\ Open' \in Seq(Req(sends)) /\ Len(Open') \in Nat /\ Len(Open) = Len(Open') + 2
         /\ \A n, l : Group(Open, base, n, l) => Group(Open', base, n, l)
<1> DEFINE S == Req(sends)
           h == SubSeq(From(toServer, served), 1, 2)
           z == Open'
<1>1. /\ served + 2 <= Len(toServer) /\ Request.kind # "terminate"
      /\ served' = served + 2 /\ toServer' = toServer /\ client_buf' = client_buf /\ cNet' = cNet
  BY AnswerStep, Zenon DEF ServerAnswers, clientVars, loopVars
<1>2. h \in Seq(S) /\ Len(h) = 2 /\ h[1].msg = Request /\ z \in Seq(S) /\ Open = h \o z
  BY <1>1, OpenServed
<1> HIDE DEF S, h, z
<1>3. /\ Len(z) \in Nat /\ Len(h \o z) = Len(h) + Len(z)
      /\ \A k \in 1 .. Len(h) : (h \o z)[k] = h[k]
  BY <1>2, Joined, ZenonT(40)
<1>4. 1 \in 1 .. Len(h)
  BY <1>2
<1>5. Open[1] = h[1]
  BY <1>2, <1>3, <1>4
<1>6. Len(Open) = Len(z) + 2
  BY <1>2, <1>3
<1>7. Open # <<>>
  <2>1. Len(Open) > 0
    BY <1>3, <1>6
  <2> QED
    BY <2>1
<1>8. ASSUME NEW n, NEW l, Group(Open, base, n, l) PROVE Group(z, base, n, l)
  <2>1. Group(h \o z, base, n, l)
    BY <1>2, <1>8
  <2> QED
    BY <1>2, <2>1, GroupTail
<1> QED
  BY <1>1, <1>2, <1>3, <1>5, <1>6, <1>7, <1>8 DEF z, S

\* The server answers the first open request: ReadyForQuery only when it was the last.
LEMMA InStepAnswer ==
  ASSUME Types, Framed(Arriving), InStep, ServerAnswers
  PROVE  InStep' /\ Waiting'
<1> DEFINE q == Request
<1>1. /\ UNCHANGED <<sends, base, last, toClient, cClosed, mode, pending>>
  BY SMTT(40) DEF ServerAnswers, clientVars, loopVars
<1>2. /\ Open # <<>> /\ Open[1].msg = q /\ q.kind # "terminate"
      /\ Len(Open') \in Nat /\ Len(Open) = Len(Open') + 2 /\ Open' \in Seq(Req(sends))
      /\ Group(Open, base, sends, last) => Group(Open', base, sends, last)
  BY RequestFirst
<1>3. /\ Group(Open, base, sends, last) /\ ReadyLast(Arriving, Open, base, sends, last, tx)
      /\ cClosed => last = "terminate"
      /\ mode = "slow" => ~pending
  BY <1>2 DEF InStep
<1>4. Waiting
  BY <1>2 DEF InStep
<1>5. Waiting'
  BY <1>1, <1>4 DEF Waiting, Answers
<1>6. /\ q.id > base
      /\ 1 + 2 <= Len(Open) => q.kind = "parse"
      /\ 1 + 2 > Len(Open) => q.id = sends /\ q.kind = last
  <2>1. 1 \in 1 .. Len(Open)
    BY <1>2
  <2> QED
    BY <1>2, <1>3, <2>1 DEF Group
<1>7. last # "terminate"
  <2>1. last = "terminate" => Len(Open) = 2
    BY DEF InStep
  <2>2. Len(Open) = 2 => q.kind = last
    BY <1>6
  <2> QED
    BY <1>2, <2>1, <2>2
<1>8. Plain(Arriving, base)
  BY <1>2, <1>3, NoReady
<1>9. base \in Int
  BY DEF Types
<1>10. /\ q.kind = "parse" => Plain(Arriving', base)
       /\ q.kind # "parse" => \A l : l # "parse" => ReadyLast(Arriving', <<>>, base, q.id, l, tx')
  BY <1>6, <1>8, <1>9, AnswerArrives
<1> HIDE DEF q
<1>11. ReadyLast(Arriving', Open', base, sends, last, tx')
  <2>1. CASE q.kind = "parse"
    <3>1. Plain(Arriving', base)
      BY <1>10, <2>1
    <3> DEFINE d == Arriving'
               r == Open'
               t == tx'
    <3> HIDE DEF d, r, t
    <3>2. Plain(d, base)
      BY <3>1 DEF d
    <3>3. ReadyLast(d, r, base, sends, last, t)
      BY <3>2, PlainReady
    <3> QED
      BY <3>3 DEF d, r, t
  <2>2. CASE q.kind # "parse"
    <3>1. Len(Open') = 0
      BY <1>2, <1>6, <2>2
    <3>2. Open' = <<>>
      BY <1>2, <3>1, Empty
    <3>3. q.id = sends /\ q.kind = last
      <4>1. 1 + 2 > Len(Open)
        BY <1>2, <3>1
      <4> QED
        BY <1>6, <4>1
    <3>4. ReadyLast(Arriving', <<>>, base, q.id, last, tx')
      BY <1>10, <2>2, <3>3
    <3> QED
      BY <3>2, <3>3, <3>4
  <2> QED
    BY <2>1, <2>2
<1> QED
  BY <1>1, <1>2, <1>3, <1>5, <1>7, <1>11, Zenon DEF InStep

\* The slow loop forwards a message, wraps it or drops it, and what is open stays one group.
LEMMA InStepMessage ==
  ASSUME Types, InStep, OwnAnswers, SlowClientMessage, ~cClosed => Framed(Coming)
  PROVE  InStep' /\ OwnAnswers'
<1>1. /\ UNCHANGED <<sends, base, last, tx, cClosed, mode, pending, server_buf, sNet>>
  BY DEF SlowClientMessage, clientVars, serverVars
<1>2. Arriving' = Arriving
  BY <1>1 DEF Arriving
<1>3. cClosed => Len(Open) <= 2
  <2>1. cClosed => Open = <<>> \/ Len(Open) = 2
    BY DEF InStep
  <2>2. Open = <<>> => Len(Open) = 0
    OBVIOUS
  <2>3. \A x \in {0, 2} : x <= 2
    OBVIOUS
  <2> QED
    BY <2>1, <2>2, <2>3, Zenon
<1>4. /\ Group(Open', base, sends, last) /\ Open # <<>>
      /\ last = "terminate" => Len(Open') = Len(Open)
  BY <1>3, OpenMessage DEF InStep
<1>5. Waiting
  BY <1>4 DEF InStep
<1>6. toClient' = toClient \/ toClient' = toClient \o Notice
  BY NoticeStep
<1>7. Notice \in Seq(Ans(sends)) /\ Len(Notice) = 2 /\ \A i \in 1 .. Len(Notice) : Notice[i].msg.kind = "notice"
  <2>1. Notice \in Seq(Ans(sends)) /\ Len(Notice) = 2
    BY NoticeType DEF Types
  <2>2. \A i \in 1 .. 2 : Notice[i].msg.kind = "notice"
    BY NoticeKind
  <2> QED
    BY <2>1, <2>2
<1>8. Waiting'
  <2>1. CASE toClient' = toClient
    BY <1>1, <1>5, <2>1 DEF Waiting, Answers
  <2>2. CASE toClient' = toClient \o Notice
    BY <1>1, <1>5, <1>7, <2>2, WaitingOver, Zenon
  <2> QED
    BY <1>6, <2>1, <2>2
<1>9. OwnAnswers'
  <2>1. CASE toClient' = toClient
    BY <1>1, <2>1 DEF OwnAnswers
  <2>2. CASE toClient' = toClient \o Notice
    BY <1>1, <1>7, <2>2, OwnMore, Zenon
  <2> QED
    BY <1>6, <2>1, <2>2
<1>10. ReadyLast(Arriving, Open', base, sends, last, tx)
  <2>1. Plain(Arriving, base)
    BY <1>4, NoReady, Zenon DEF InStep
  <2> QED
    BY <2>1, PlainReady
<1> QED
  BY <1>1, <1>2, <1>4, <1>8, <1>9, <1>10, SMTT(30) DEF InStep


\* The streams of a polite client stay in step.
LEMMA LockstepStep ==
  ASSUME Polite, Types, Left, WholeMessages, Lockstep, Quiet, OwnAnswers, ~Misread, [Next]_vars
  PROVE  Lockstep' /\ OwnAnswers'
<1> USE DEF WholeMessages
<1> SUFFICES (Talking' => InStep') /\ OwnAnswers'
  BY DEF Lockstep
<1>1. ASSUME NEW k \in Kinds, ClientSends(k) PROVE (Talking' => InStep') /\ OwnAnswers'
  <2>1. Talking /\ toClient' = toClient /\ base' = base
    BY <1>1 DEF ClientSends
  <2>2. InStep
    BY <2>1 DEF Lockstep
  <2>3. InStep'
    BY <1>1, <2>2, InStepSend, Zenon
  <2> QED
    BY <2>1, <2>3 DEF OwnAnswers
<1>2. ASSUME NEW n \in 0 .. Len(cNet), ClientCloses(n) PROVE (Talking' => InStep') /\ OwnAnswers'
  <2>1. /\ Talking /\ ~cClosed /\ (~Waiting \/ last = "terminate") /\ n = Len(cNet)
        /\ cNet' = SubSeq(cNet, 1, n)
        /\ UNCHANGED <<sends, base, last, tx, toClient, pending, mode>>
        /\ UNCHANGED <<toServer, served, client_buf, server_buf, sNet>>
    BY <1>2 DEF ClientCloses, clientVars, serverVars, gaugeVars, loopVars
  <2>2. cNet' = cNet
    <3>1. cNet \in Seq(Req(sends))
      BY DEF Types
    <3> QED
      BY <2>1, <3>1
  <2>3. Open' = Open /\ Arriving' = Arriving /\ Waiting' = Waiting
    BY <2>1, <2>2, Zenon DEF Open, Coming, Arriving, Waiting, Answers
  <2>4. InStep'
    BY <2>1, <2>3 DEF Lockstep, InStep
  <2> QED
    BY <2>1, <2>4, SMTT(40) DEF OwnAnswers
<1>3. CASE ServerAnswers
  <2>1. Talking' => Talking
    BY <1>3, Zenon DEF ServerAnswers, loopVars, Talking
  <2>2. OwnAnswers'
    BY <1>3, SMTT(40) DEF ServerAnswers, clientVars, OwnAnswers
  <2> QED
    BY <1>3, <2>1, <2>2, InStepAnswer, Zenon DEF Lockstep
<1>4. CASE ServerCloses
  <2>1. /\ UNCHANGED <<sends, base, last, tx, toClient, cClosed, pending>>
        /\ UNCHANGED <<toServer, served, client_buf, cNet, server_buf, sNet>>
        /\ Talking' => Talking
        /\ mode' = "slow" => mode = "slow"
    BY <1>4 DEF ServerCloses, clientVars, serverVars, gaugeVars, loopVars, Talking
  <2>2. Open' = Open /\ Arriving' = Arriving
    BY <2>1 DEF Open, Coming, Arriving
  <2>3. OwnAnswers'
    BY <2>1 DEF OwnAnswers
  <2>4. Talking' => InStep'
    BY <2>1, <2>2, InStepKept DEF Lockstep, InStep
  <2> QED
    BY <2>3, <2>4
<1>5. CASE MonitorStep
  <2>1. /\ UNCHANGED <<sends, base, last, tx, toClient, cClosed, pending>>
        /\ UNCHANGED <<toServer, served, client_buf, cNet, server_buf, sNet>>
        /\ Talking' => Talking
        /\ mode' = "slow" => mode = "slow"
    BY <1>5, Zenon DEF MonitorStep, clientVars, serverVars, gaugeVars, loopVars, Talking
  <2>2. Open' = Open /\ Arriving' = Arriving
    BY <2>1 DEF Open, Coming, Arriving
  <2>3. OwnAnswers'
    BY <2>1 DEF OwnAnswers
  <2>4. Talking' => InStep'
    BY <2>1, <2>2, InStepKept DEF Lockstep, InStep
  <2> QED
    BY <2>3, <2>4
<1>6. ASSUME NEW n \in 1 .. Len(cNet), FastClientRead(n) PROVE (Talking' => InStep') /\ OwnAnswers'
  <2>1. /\ UNCHANGED <<sends, base, last, tx, toClient, cClosed, server_buf, sNet, mode>>
        /\ mode = "slow" => pending' = pending
        /\ Talking
    BY <1>6 DEF FastClientRead, clientVars, serverVars, gaugeVars, loopVars, Talking
  <2>2. Open' = Open
    BY <1>6, OpenRead
  <2>3. Arriving' = Arriving
    BY <2>1 DEF Arriving
  <2>4. InStep
    BY <2>1 DEF Lockstep
  <2>5. InStep'
    BY <2>1, <2>2, <2>3, <2>4, InStepKept, SMTT(30) DEF InStep
  <2> QED
    BY <2>1, <2>5 DEF OwnAnswers
<1>7. ASSUME NEW n \in 1 .. Len(cNet), SlowClientRead(n) PROVE (Talking' => InStep') /\ OwnAnswers'
  <2>1. /\ UNCHANGED <<sends, base, last, tx, toClient, cClosed, server_buf, sNet, mode>>
        /\ mode = "slow" => pending' = pending
        /\ Talking
    BY <1>7 DEF SlowClientRead, clientVars, serverVars, gaugeVars, loopVars, Talking
  <2>2. Open' = Open
    BY <1>7, OpenRead, Zenon
  <2>3. Arriving' = Arriving
    BY <2>1 DEF Arriving
  <2>4. InStep
    BY <2>1 DEF Lockstep
  <2>5. InStep'
    BY <2>1, <2>2, <2>3, <2>4, InStepKept DEF InStep
  <2> QED
    BY <2>1, <2>5 DEF OwnAnswers
<1>8. ASSUME NEW n \in 1 .. Len(sNet), FastServerRead(n) PROVE (Talking' => InStep') /\ OwnAnswers'
  <2> DEFINE data == server_buf \o SubSeq(sNet, 1, n)
             z == Arriving'
  <2>1. /\ UNCHANGED <<sends, base, last, tx, cClosed>>
        /\ UNCHANGED <<toServer, served, client_buf, cNet>>
        /\ toClient' = toClient \o data /\ Talking
        /\ mode' = "slow" => ~pending'
    BY <1>8, SMTT(40) DEF FastServerRead, clientVars, serverVars, Talking
  <2>2. /\ Len(data) >= 1 /\ data \in Seq(Ans(sends)) /\ z \in Seq(Ans(sends))
        /\ Arriving = data \o z
    BY <1>8, ReadData, SMTT(40)
  <2>3. Open' = Open /\ InStep
    BY <2>1 DEF Open, Coming, Lockstep
  <2> HIDE DEF data, z
  <2>4. Arriving' = z
    BY DEF z
  <2> QED
    BY <2>1, <2>2, <2>3, <2>4, InStepReceive, Zenon
<1>9. ASSUME NEW n \in 1 .. Len(sNet), ServerRead(n) PROVE (Talking' => InStep') /\ OwnAnswers'
  <2>1. /\ UNCHANGED <<sends, base, last, tx, toClient, cClosed, pending, mode>>
        /\ UNCHANGED <<toServer, served, client_buf, cNet>>
    BY <1>9 DEF ServerRead, clientVars, serverVars
  <2>2. /\ n \in 0 .. Len(sNet) /\ sNet \in Seq(Ans(sends)) /\ server_buf \in Seq(Ans(sends))
        /\ server_buf' = server_buf \o SubSeq(sNet, 1, n) /\ sNet' = From(sNet, n)
    BY <1>9 DEF ServerRead, Types
  <2>3. Arriving' = Arriving
    BY <2>2, Moved, Zenon DEF Arriving, From
  <2>4. Open' = Open
    BY <2>1 DEF Open, Coming
  <2>5. Talking' => InStep'
    BY <2>1, <2>3, <2>4, InStepKept, SMTT(40) DEF Lockstep, InStep, Talking
  <2> QED
    BY <2>1, <2>5 DEF OwnAnswers
<1>10. CASE SlowClientMessage
  <2>1. Talking
    BY <1>10 DEF SlowClientMessage, Talking
  <2> QED
    BY <1>10, <2>1, InStepMessage DEF Lockstep
<1>11. CASE SlowServerMessage
  <2> DEFINE data == Parts(server_buf[1].msg)
             z == Arriving'
  <2>1. /\ UNCHANGED <<sends, base, last, tx, cClosed, pending>>
        /\ UNCHANGED <<toServer, served, client_buf, cNet>>
        /\ toClient' = toClient \o data /\ Talking /\ mode = "slow"
    BY <1>11, SMTT(40) DEF SlowServerMessage, clientVars, serverVars, Talking
  <2>2. /\ data \in Seq(Ans(sends)) /\ Len(data) = 2
        /\ z \in Seq(Ans(sends)) /\ Arriving = data \o z
    BY <1>11, TakeData
  <2>3. Open' = Open /\ InStep
    BY <2>1 DEF Open, Coming, Lockstep
  <2> HIDE DEF data, z
  <2>4. Arriving' = z /\ Len(data) >= 1 /\ ~pending'
    BY <2>1, <2>2, <2>3 DEF z, InStep
  <2> QED
    BY <2>1, <2>2, <2>3, <2>4, InStepReceive, Zenon
<1>12. CASE ResetMessage
  <2>1. ~Talking' /\ toClient' = toClient /\ base' = base
    BY <1>12 DEF ResetMessage, ResetVerdict, clientVars, Talking
  <2> QED
    BY <2>1 DEF OwnAnswers
<1>13. CASE NoMessage
  <2>1. /\ UNCHANGED <<sends, base, last, tx, toClient, cClosed, pending>>
        /\ UNCHANGED <<toServer, served, client_buf, cNet, server_buf, sNet>>
        /\ Talking' => Talking
        /\ mode' = "slow" => mode = "slow"
    BY <1>13, Zenon DEF NoMessage, clientVars, serverVars, gaugeVars, loopVars, Talking
  <2>2. Open' = Open /\ Arriving' = Arriving
    BY <2>1 DEF Open, Coming, Arriving
  <2>3. OwnAnswers'
    BY <2>1 DEF OwnAnswers
  <2>4. Talking' => InStep'
    BY <2>1, <2>2, InStepKept DEF Lockstep, InStep
  <2> QED
    BY <2>3, <2>4
<1>14. CASE Misframe
  BY <1>14, Zenon DEF Misframe
<1>20. ASSUME NEW n \in 0 .. Len(client_buf), MiscutClient(n) PROVE (Talking' => InStep') /\ OwnAnswers'
  BY <1>20, Zenon DEF MiscutClient
<1>21. ASSUME NEW n \in 0 .. Len(server_buf), MiscutServer(n) PROVE (Talking' => InStep') /\ OwnAnswers'
  BY <1>21, Zenon DEF MiscutServer
<1>22. ASSUME NEW n \in 0 .. Len(server_buf), MiscutReset(n) PROVE (Talking' => InStep') /\ OwnAnswers'
  BY <1>22, Zenon DEF MiscutReset
<1>15. CASE EndSession
  <2>1. ~Talking' /\ toClient' = <<>>
    BY <1>15 DEF EndSession, LeaveLoops, Talking
  <2> QED
    BY <2>1 DEF OwnAnswers, Range
<1>16. CASE ResetEof
  <2>1. ~Talking' /\ toClient' = toClient /\ base' = base
    BY <1>16 DEF ResetEof, ResetVerdict, clientVars, Talking
  <2> QED
    BY <2>1 DEF OwnAnswers
<1>17. CASE Drop
  <2>1. ~Talking' /\ toClient' = <<>>
    BY <1>17 DEF Drop, LeaveLoops, Talking
  <2> QED
    BY <2>1 DEF OwnAnswers, Range
<1>18. CASE Reuse
  <2>1. /\ mode = "pooled" /\ mode' = "fast" /\ ~cClosed' /\ last' = "none" /\ base' = sends
        /\ toServer' = From(toServer, served) /\ served' = 0 /\ toClient' = toClient
        /\ UNCHANGED <<sends, cNet, client_buf, server_buf, sNet>>
    BY <1>18 DEF Reuse
  <2>2. Open = <<>> /\ Arriving = <<>> /\ toClient = <<>>
    BY <2>1 DEF Quiet, Left
  <2>3. toServer' = <<>> /\ client_buf = <<>> /\ cNet = <<>>
    BY <2>1, <2>2, OpenEmpty
  <2>4. Open' = <<>> /\ Arriving' = <<>>
    <3>1. From(<<>>, 0) = <<>>
      BY DEF From
    <3>2. Open' = <<>> \o (<<>> \o <<>>)
      BY <2>1, <2>3, <3>1 DEF Open, Coming
    <3>3. Arriving' = Arriving
      BY <2>1 DEF Arriving
    <3> QED
      BY <2>2, <3>2, <3>3, Empty, JoinEmpty, SMTT(30)
  <2>5. ~Waiting'
    BY <2>1 DEF Types, Waiting
  <2>6. Group(<<>>, base', sends', last') /\ ReadyLast(<<>>, <<>>, base', sends', last', tx')
    BY SMTT(40) DEF Group, ReadyLast
  <2>7. InStep'
    BY <2>1, <2>4, <2>5, <2>6, SMTT(30) DEF InStep
  <2>8. OwnAnswers'
    BY <2>1, <2>2, SMTT(40) DEF OwnAnswers, Range
  <2> QED
    BY <2>7, <2>8
<1>19. ASSUME UNCHANGED vars PROVE (Talking' => InStep') /\ OwnAnswers'
  <2>1. /\ UNCHANGED <<sends, base, last, tx, toClient, cClosed, pending>>
        /\ UNCHANGED <<toServer, served, client_buf, cNet, server_buf, sNet>>
        /\ Talking' => Talking
        /\ mode' = "slow" => mode = "slow"
    BY <1>19, Zenon DEF vars, clientVars, serverVars, gaugeVars, loopVars, Talking
  <2>2. Open' = Open /\ Arriving' = Arriving
    BY <2>1 DEF Open, Coming, Arriving
  <2>3. OwnAnswers'
    BY <2>1 DEF OwnAnswers
  <2>4. Talking' => InStep'
    BY <2>1, <2>2, InStepKept DEF Lockstep, InStep
  <2> QED
    BY <2>3, <2>4
<1> QED
  BY <1>1, <1>2, <1>3, <1>4, <1>5, <1>6, <1>7, <1>8, <1>9, <1>10, <1>11, <1>12, <1>13, <1>14,
     <1>15, <1>16, <1>17, <1>18, <1>19, <1>20, <1>21, <1>22, ZenonT(40) DEF Next, Loops

-----------------------------------------------------------------------------
(* The reset *)

\* DISCARD ALL, and what it looks like to the server.
LEMMA DiscardFirst == DiscardAll[1].msg = [id |-> 0, kind |-> "discard", via |-> "reset"]
  BY DEF DiscardAll, Parts

\* A session ends: what a polite client leaves is nothing, or Terminate.
LEMMA ResetBegins ==
  ASSUME Types, InStep, EndSession
  PROVE  /\ Arriving' = <<>>
         /\ \/ sClosed' \/ (Open' # <<>> /\ Open'[1].msg.kind = "terminate")
            \/ Open' = DiscardAll
<1> DEFINE S == Req(sends)
           a == From(toServer, served)
           g == DiscardAll
<1>1. /\ sNet' = sNet /\ server_buf' = <<>> /\ cNet' = <<>> /\ client_buf' = <<>>
      /\ served' = served /\ sClosed' = sClosed /\ toServer' = toServer \o g
      /\ (cClosed /\ cNet = <<>>) \/ (sClosed /\ sNet = <<>>)
  BY DEF EndSession, LeaveLoops, serverVars
<1>2. sNet \in Seq(Ans(sends)) /\ server_buf \in Seq(Ans(sends)) /\ sends \in Nat
  BY DEF Types
<1>3. sNet = <<>> => Arriving' = <<>>
  BY <1>1, JoinEmpty, Empty DEF Arriving
<1>4. Arriving = <<>> => sNet = <<>>
  <2>1. Len(Arriving) = Len(server_buf) + Len(sNet) /\ Len(server_buf) \in Nat /\ Len(sNet) \in Nat
    BY <1>2, OpenType
  <2>2. Arriving = <<>> => Len(Arriving) = 0
    OBVIOUS
  <2>3. Arriving = <<>> => Len(sNet) = 0
    BY <2>1, <2>2
  <2> QED
    BY <1>2, <2>3, Empty
<1>5. g \in Seq(S) /\ Len(g) = 2 /\ a \in Seq(S)
  BY <1>2, DiscardType, OpenType
<1>6. Open' = a \o g
  <2>1. From(toServer \o g, served) = a \o g
    BY <1>5, OpenWritten, Zenon
  <2> HIDE DEF g, a
  <2>2. Open' = (a \o g) \o (<<>> \o <<>>)
    BY <1>1, <2>1 DEF Open, Coming
  <2> HIDE DEF S
  <2>3. a \o g \in Seq(S) /\ <<>> \in Seq(S)
    BY <1>5, Joined, Empty
  <2> DEFINE x == a \o g
  <2> HIDE DEF x
  <2>4. x \in Seq(S) /\ <<>> \in Seq(S) /\ Open' = x \o (<<>> \o <<>>)
    BY <2>2, <2>3 DEF x
  <2>5. <<>> \o <<>> = <<>> /\ x \o <<>> = x
    BY <2>4, JoinEmpty
  <2> QED
    BY <2>4, <2>5 DEF x
<1>7. CASE sClosed /\ sNet = <<>>
  BY <1>1, <1>3, <1>7
<1>8. CASE cClosed /\ cNet = <<>>
  <2>1. Arriving = <<>>
    BY <1>8 DEF InStep
  <2>2. Arriving' = <<>>
    BY <1>3, <1>4, <2>1
  <2>3. CASE a = <<>>
    <3> HIDE DEF a, g
    <3>1. Open' = g
      BY <1>5, <1>6, <2>3, JoinEmpty
    <3> QED
      BY <2>2, <3>1 DEF g
  <2>4. CASE a # <<>>
    <3>1. Open # <<>>
      BY <2>4, OpenEmpty
    <3>2. last = "terminate" /\ Len(Open) = 2 /\ Group(Open, base, sends, last)
      BY <1>8, <3>1 DEF InStep
    <3>3. Open[1].msg.kind = "terminate"
      <4>1. 1 \in 1 .. Len(Open) /\ 1 + 2 > Len(Open)
        BY <3>2
      <4> QED
        BY <3>2, <4>1 DEF Group
    <3> HIDE DEF a, g, S
    <3>4. Len(a) \in Nat \ {0}
      BY <1>5, <2>4, Empty
    <3>5. 1 \in 1 .. Len(a)
      BY <3>4
    <3>6. Open[1] = a[1]
      <4>1. Coming \in Seq(S) /\ a \in Seq(S)
        BY <1>5, OpenType DEF S
      <4>2. \A k \in 1 .. Len(a) : (a \o Coming)[k] = a[k]
        BY <4>1, Joined
      <4> QED
        BY <3>5, <4>2 DEF Open, a
    <3>7. /\ (a \o g)[1] = a[1] /\ Len(a \o g) = Len(a) + Len(g)
      <4>1. a \in Seq(S) /\ g \in Seq(S)
        BY <1>5
      <4>2. /\ \A k \in 1 .. Len(a) : (a \o g)[k] = a[k]
            /\ Len(a \o g) = Len(a) + Len(g)
        BY <4>1, Joined
      <4> QED
        BY <3>5, <4>2
    <3>8. Open' # <<>>
      <4>1. Len(Open') > 0
        BY <1>5, <1>6, <3>4, <3>7
      <4> QED
        BY <4>1
    <3> QED
      BY <1>6, <2>2, <3>3, <3>6, <3>7, <3>8
  <2> QED
    BY <2>3, <2>4
<1> QED
  BY <1>1, <1>7, <1>8

\* DISCARD ALL is answered.
LEMMA ResetAnswered ==
  ASSUME Types, Framed(Arriving), Resetting, mode = "reset", ServerAnswers
  PROVE  Open' = <<>> /\ OneReady(Arriving')
<1>1. /\ Open # <<>> /\ Open[1].msg = Request /\ Request.kind # "terminate" /\ ~sClosed
      /\ Open' \in Seq(Req(sends)) /\ Len(Open') \in Nat /\ Len(Open) = Len(Open') + 2
  <2>1. /\ Open # <<>> /\ Open[1].msg = Request /\ Request.kind # "terminate"
        /\ Open' \in Seq(Req(sends)) /\ Len(Open') \in Nat /\ Len(Open) = Len(Open') + 2
    BY RequestFirst, Zenon
  <2>2. ~sClosed
    BY Zenon DEF ServerAnswers
  <2> QED
    BY <2>1, <2>2, Zenon
<1>2. Arriving = <<>> /\ Open = DiscardAll
  BY <1>1 DEF Resetting
<1>3. Len(Open) = 2 /\ Request = [id |-> 0, kind |-> "discard", via |-> "reset"]
  BY <1>1, <1>2, DiscardType, DiscardFirst, Zenon DEF Types
<1>4. Open' = <<>>
  <2>1. Len(Open') = 0
    <3>1. Len(Open) = 2
      BY <1>3
    <3>2. \A x \in Nat : 2 = x + 2 => x = 0
      OBVIOUS
    <3> QED
      BY <1>1, <3>1, <3>2, Zenon
  <2> QED
    BY <1>1, <2>1, Empty
<1>5. -1 \in Int /\ Plain(Arriving, -1) /\ Request.id > -1 /\ Request.kind # "parse"
  BY <1>2, <1>3 DEF Plain
<1>6. ReadyLast(Arriving', <<>>, -1, Request.id, "none", tx')
  <2> DEFINE b == -1
  <2>1. b \in Int /\ Plain(Arriving, b) /\ Request.id > b
    BY <1>5
  <2> HIDE DEF b
  <2>2. \A l : l # "parse" => ReadyLast(Arriving', <<>>, b, Request.id, l, tx')
    BY <1>5, <2>1, AnswerArrives
  <2> QED
    BY <2>2 DEF b
<1> QED
  BY <1>4, <1>6, Zenon DEF ReadyLast, OneReady

\* reset_connection takes a message: if it is ReadyForQuery, it is the last.
LEMMA ResetTakes ==
  ASSUME Types, Framed(Arriving), Resetting, ResetMessage
  PROVE  /\ Open' = <<>>
         /\ mode' = "reset" => OneReady(Arriving')
         /\ mode' = "pooled" => Arriving' = <<>>
<1> DEFINE S == Ans(sends)
           h == Parts(server_buf[1].msg)
           y == From(server_buf, 2)
           z == y \o sNet
<1>1. /\ mode = "reset" /\ Whole(server_buf) /\ sNet' = sNet
      /\ UNCHANGED <<toServer, served, client_buf, cNet>>
      /\ mode' = ResetVerdict(server_buf[1].msg.kind)
      /\ IF mode' = "reset" THEN server_buf' = y ELSE server_buf' = <<>>
  BY DEF ResetMessage, clientVars, serverVars
<1>2. sNet \in Seq(S) /\ server_buf \in Seq(S) /\ Len(server_buf) >= 2
  BY <1>1 DEF Types, Whole
<1>3. /\ Len(Arriving) = Len(server_buf) + Len(sNet) /\ Len(sNet) \in Nat /\ Len(server_buf) \in Nat
      /\ Arriving[1] = server_buf[1]
  <2>1. \A k \in 1 .. Len(server_buf) : (server_buf \o sNet)[k] = server_buf[k]
    BY <1>2, Joined
  <2>2. 1 \in 1 .. Len(server_buf)
    BY <1>2
  <2> QED
    BY <1>2, <2>1, <2>2, OpenType DEF Arriving
<1>4. Open = <<>> /\ OneReady(Arriving)
  <2>1. Arriving # <<>>
    <3>1. Len(Arriving) > 0
      BY <1>2, <1>3
    <3> QED
      BY <3>1
  <2> QED
    BY <1>1, <2>1 DEF Resetting
<1>5. Open' = <<>>
  BY <1>1, <1>4 DEF Open, Coming
<1>6. ASSUME mode' = "reset" PROVE OneReady(Arriving')
  <2>1. h \in Seq(S) /\ y \in Seq(S) /\ h \o y = server_buf
    BY <1>1, FirstAnswer
  <2> HIDE DEF S, h, y
  <2>2. (h \o y) \o sNet = h \o (y \o sNet)
    <3>1. h \in Seq(S) /\ y \in Seq(S) /\ sNet \in Seq(S)
      BY <1>2, <2>1
    <3> QED
      BY <3>1, JoinThree, SMTT(40)
  <2>3. z \in Seq(S)
    BY <1>2, <2>1, Joined
  <2>4. Arriving = h \o z /\ Arriving' = z
    BY <1>1, <1>6, <2>1, <2>2 DEF Arriving
  <2> HIDE DEF z
  <2>5. /\ Len(h) \in Nat /\ Len(z) \in Nat /\ Len(Arriving) = Len(h) + Len(z)
        /\ \A k \in 1 .. Len(z) : Arriving[Len(h) + k] = z[k]
    BY <2>1, <2>3, <2>4, Joined
  <2>6. ASSUME NEW i \in 1 .. Len(z), z[i].msg.kind = "ready" PROVE i + 2 > Len(z)
    <3> DEFINE j == Len(h) + i
    <3>1. j \in 1 .. Len(Arriving) /\ Arriving[j] = z[i]
      BY <2>5
    <3>2. j + 2 > Len(Arriving)
      BY <1>4, <2>6, <3>1 DEF OneReady
    <3> QED
      BY <2>5, <3>2
  <2> QED
    BY <2>4, <2>6 DEF OneReady
<1>7. ASSUME mode' = "pooled" PROVE Arriving' = <<>>
  <2>1. server_buf[1].msg.kind = "ready"
    BY <1>1, <1>7 DEF ResetVerdict
  <2>2. 1 \in 1 .. Len(Arriving)
    BY <1>2, <1>3
  <2>3. 1 + 2 > Len(Arriving)
    BY <1>3, <1>4, <2>1, <2>2 DEF OneReady
  <2>4. Len(sNet) = 0
    BY <1>2, <1>3, <2>3
  <2>5. sNet = <<>>
    BY <1>2, <2>4, Empty
  <2>6. Arriving' = <<>> \o <<>>
    BY <1>1, <1>7, <2>5, Zenon DEF Arriving
  <2> QED
    BY <2>6, Empty, JoinEmpty
<1> QED
  BY <1>5, <1>6, <1>7


\* A connection is pooled only when nothing is on its way in either direction.
LEMMA ResetStep ==
  ASSUME Types, Framed(Arriving), Lockstep, Resetting, Quiet, ~Misread, [Next]_vars
  PROVE  Resetting' /\ Quiet'
<1>1. ASSUME NEW k \in Kinds, ClientSends(k) PROVE Resetting' /\ Quiet'
  <2>1. mode' \in {"fast", "slow"}
    BY <1>1 DEF ClientSends, loopVars, Talking
  <2> QED
    BY <2>1 DEF Resetting, Quiet
<1>2. ASSUME NEW n \in 0 .. Len(cNet), ClientCloses(n) PROVE Resetting' /\ Quiet'
  <2>1. mode' \in {"fast", "slow"}
    BY <1>2 DEF ClientCloses, loopVars, Talking
  <2> QED
    BY <2>1 DEF Resetting, Quiet
<1>3. CASE ServerAnswers
  <2>1. mode' = mode /\ Open # <<>>
    <3>1. mode' = mode
      BY <1>3, Zenon DEF ServerAnswers, loopVars
    <3>2. Open # <<>>
      BY <1>3, RequestFirst, Zenon
    <3> QED
      BY <3>1, <3>2
  <2>2. mode # "pooled"
    BY <2>1 DEF Quiet
  <2>3. mode = "reset" => Open' = <<>> /\ OneReady(Arriving')
    BY <1>3, ResetAnswered, SMTT(30)
  <2> QED
    BY <2>1, <2>2, <2>3, Zenon DEF Resetting, Quiet
<1>4. CASE ServerCloses
  <2>1. /\ UNCHANGED <<toServer, served, client_buf, cNet, server_buf, sNet>>
        /\ sClosed => sClosed'
        /\ mode' = mode \/ mode' = "closed"
    BY <1>4 DEF ServerCloses, clientVars, serverVars, gaugeVars, loopVars
  <2>2. Open' = Open /\ Arriving' = Arriving
    BY <2>1 DEF Open, Coming, Arriving
  <2> QED
    BY <2>1, <2>2 DEF Resetting, Quiet
<1>5. CASE MonitorStep
  <2>1. /\ UNCHANGED <<toServer, served, client_buf, cNet, server_buf, sNet>>
        /\ sClosed => sClosed'
        /\ mode' = mode \/ mode' = "closed"
    BY <1>5, Zenon DEF MonitorStep, clientVars, serverVars, gaugeVars, loopVars
  <2>2. Open' = Open /\ Arriving' = Arriving
    BY <2>1 DEF Open, Coming, Arriving
  <2> QED
    BY <2>1, <2>2 DEF Resetting, Quiet
<1>6. ASSUME NEW n \in 1 .. Len(cNet), FastClientRead(n) PROVE Resetting' /\ Quiet'
  <2>1. mode' \in {"fast", "slow"}
    BY <1>6, SMTT(30) DEF FastClientRead, loopVars, Talking
  <2> QED
    BY <2>1 DEF Resetting, Quiet
<1>7. ASSUME NEW n \in 1 .. Len(cNet), SlowClientRead(n) PROVE Resetting' /\ Quiet'
  <2>1. mode' \in {"fast", "slow"}
    BY <1>7, Zenon DEF SlowClientRead, loopVars, Talking
  <2> QED
    BY <2>1 DEF Resetting, Quiet
<1>8. ASSUME NEW n \in 1 .. Len(sNet), FastServerRead(n) PROVE Resetting' /\ Quiet'
  <2>1. mode' \in {"fast", "slow"}
    BY <1>8, Zenon DEF FastServerRead, loopVars, Talking
  <2> QED
    BY <2>1 DEF Resetting, Quiet
<1>9. ASSUME NEW n \in 1 .. Len(sNet), ServerRead(n) PROVE Resetting' /\ Quiet'
  <2>1. /\ UNCHANGED <<toServer, served, client_buf, cNet, sClosed, mode>>
    BY <1>9, SMTT(30) DEF ServerRead, clientVars, serverVars
  <2>2. /\ n \in 0 .. Len(sNet) /\ sNet \in Seq(Ans(sends)) /\ server_buf \in Seq(Ans(sends))
        /\ server_buf' = server_buf \o SubSeq(sNet, 1, n) /\ sNet' = From(sNet, n)
    BY <1>9 DEF ServerRead, Types
  <2>3. Arriving' = Arriving
    BY <2>2, Moved, Zenon DEF Arriving, From
  <2>4. Open' = Open
    BY <2>1 DEF Open, Coming
  <2> QED
    BY <2>1, <2>3, <2>4 DEF Resetting, Quiet
<1>10. CASE SlowClientMessage
  <2>1. mode' \in {"fast", "slow"}
    BY <1>10, Zenon DEF SlowClientMessage, loopVars, Talking
  <2> QED
    BY <2>1 DEF Resetting, Quiet
<1>11. CASE SlowServerMessage
  <2>1. mode' \in {"fast", "slow"}
    BY <1>11 DEF SlowServerMessage, loopVars, Talking
  <2> QED
    BY <2>1 DEF Resetting, Quiet
<1>12. CASE ResetMessage
  BY <1>12, ResetTakes, Zenon DEF Resetting, Quiet
<1>13. CASE NoMessage
  <2>1. /\ UNCHANGED <<toServer, served, client_buf, cNet, server_buf, sNet>>
        /\ sClosed => sClosed'
        /\ mode' = mode \/ mode' = "closed"
    BY <1>13, Zenon DEF NoMessage, clientVars, serverVars, gaugeVars, loopVars
  <2>2. Open' = Open /\ Arriving' = Arriving
    BY <2>1 DEF Open, Coming, Arriving
  <2> QED
    BY <2>1, <2>2 DEF Resetting, Quiet
<1>14. CASE Misframe
  BY <1>14, Zenon DEF Misframe
<1>20. ASSUME NEW n \in 0 .. Len(client_buf), MiscutClient(n) PROVE Resetting' /\ Quiet'
  BY <1>20, Zenon DEF MiscutClient
<1>21. ASSUME NEW n \in 0 .. Len(server_buf), MiscutServer(n) PROVE Resetting' /\ Quiet'
  BY <1>21, Zenon DEF MiscutServer
<1>22. ASSUME NEW n \in 0 .. Len(server_buf), MiscutReset(n) PROVE Resetting' /\ Quiet'
  BY <1>22, Zenon DEF MiscutReset
<1>15. CASE EndSession
  <2>1. mode' = "reset" /\ InStep
    BY <1>15, SMTT(30) DEF EndSession, Lockstep
  <2> QED
    BY <1>15, <2>1, ResetBegins, Zenon DEF Resetting, Quiet
<1>16. CASE ResetEof
  <2>1. mode' = "closed"
    BY <1>16 DEF ResetEof
  <2> QED
    BY <2>1 DEF Resetting, Quiet
<1>17. CASE Drop
  <2>1. mode' = "closed"
    BY <1>17, Zenon DEF Drop
  <2> QED
    BY <2>1 DEF Resetting, Quiet
<1>18. CASE Reuse
  <2>1. mode' = "fast"
    BY <1>18, Zenon DEF Reuse
  <2> QED
    BY <2>1, SMTT(30) DEF Resetting, Quiet
<1>19. ASSUME UNCHANGED vars PROVE Resetting' /\ Quiet'
  <2>1. /\ UNCHANGED <<toServer, served, client_buf, cNet, server_buf, sNet>>
        /\ sClosed => sClosed'
        /\ mode' = mode \/ mode' = "closed"
    BY <1>19, Zenon DEF vars, clientVars, serverVars, gaugeVars, loopVars
  <2>2. Open' = Open /\ Arriving' = Arriving
    BY <2>1 DEF Open, Coming, Arriving
  <2> QED
    BY <2>1, <2>2 DEF Resetting, Quiet
<1> QED
  BY <1>1, <1>2, <1>3, <1>4, <1>5, <1>6, <1>7, <1>8, <1>9, <1>10, <1>11, <1>12, <1>13, <1>14,
     <1>15, <1>16, <1>17, <1>18, <1>19, <1>20, <1>21, <1>22, Zenon DEF Next, Loops

-----------------------------------------------------------------------------
(* The frames *)

\* What is read first comes first.
LEMMA JoinFirst ==
  ASSUME NEW S, NEW s \in Seq(S), NEW t \in Seq(S), s # <<>>
  PROVE  s \o t # <<>> /\ (s \o t)[1] = s[1]
<1>1. /\ Len(s) \in Nat \ {0} /\ Len(t) \in Nat /\ Len(s \o t) = Len(s) + Len(t)
      /\ \A k \in 1 .. Len(s) : (s \o t)[k] = s[k]
  BY Joined, Empty
<1> QED
  BY <1>1

\* A framed stream that holds whole messages starts with a header.
LEMMA HeaderFirst ==
  ASSUME NEW S, NEW s \in Seq(S), Framed(s), Len(s) % 2 = 0, s # <<>>
  PROVE  s[1].part = 1
<1>1. Len(s) \in Nat /\ 1 \in 1 .. Len(s)
  BY Empty
<1>2. s[1].part = 1 <=> (Len(s) - 1) % 2 = 1
  BY <1>1 DEF Framed
<1>3. \A x \in Nat : x % 2 = 0 => (x - 1) % 2 = 1
  OBVIOUS
<1> QED
  BY <1>1, <1>2, <1>3

\* A loop that is between two messages reads a header next.
LEMMA NotMisread ==
  ASSUME Polite, Types, Left, WholeMessages, InFrame
  PROVE  ~Misread
<1> SUFFICES ASSUME mode \in {"slow", "reset"}, Buffer # <<>>, Buffer[1].part = 2
             PROVE  FALSE
  BY DEF Misread, InFrame, Unframed
<1>1. Len(Coming) % 2 = 0 /\ Len(Arriving) % 2 = 0 /\ Framed(Arriving)
  BY DEF InFrame, WholeMessages
<1>2. /\ client_buf \in Seq(Req(sends)) /\ cNet \in Seq(Req(sends))
      /\ server_buf \in Seq(Ans(sends)) /\ sNet \in Seq(Ans(sends))
      /\ Coming \in Seq(Req(sends)) /\ Arriving \in Seq(Ans(sends))
  BY OpenType DEF Types
<1>3. CASE Buffer = client_buf
  <2>1. mode = "slow" /\ client_buf # <<>>
    BY <1>3 DEF Left
  <2>2. Framed(Coming)
    BY <2>1 DEF WholeMessages, Talking
  <2>3. Coming # <<>> /\ Coming[1] = client_buf[1]
    BY <1>2, <2>1, JoinFirst DEF Coming
  <2> QED
    BY <1>1, <1>2, <1>3, <2>2, <2>3, HeaderFirst
<1>4. CASE Buffer = server_buf
  <2>1. Arriving # <<>> /\ Arriving[1] = server_buf[1]
    BY <1>2, <1>4, JoinFirst DEF Arriving
  <2> QED
    BY <1>1, <1>2, <1>4, <2>1, HeaderFirst
<1> QED
  BY <1>3, <1>4 DEF Buffer

-----------------------------------------------------------------------------
(* The switches *)

\* The fast loop reads a ReadyForQuery that ends its transaction, and with it all that
\* was on its way: the scanner sees the status, unless it is the first half of the read.
LEMMA ScannerSees ==
  ASSUME NEW S, NEW d \in Seq(S), Framed(d), skip <=> Len(d) % 2 = 1, Len(d) >= 2,
         d[Len(d)].msg.kind = "ready", d[Len(d)].msg.idle, d[Len(d)].part = 2
  PROVE  SawIdle(d)
<1> DEFINE i == Len(d) - 1
<1>1. Len(d) \in Nat /\ i \in Nat /\ i + 1 = Len(d) /\ i \in 1 .. Len(d) /\ i < Len(d) /\ Len(d) - i = 1
  OBVIOUS
<1>2. DOMAIN d = 1 .. Len(d)
  BY SMTT(30)
<1>3. d[i].msg = d[Len(d)].msg
  <2>1. d[i].part = 1 <=> (Len(d) - i) % 2 = 1
    BY <1>1, SMTT(30) DEF Framed
  <2>2. (Len(d) - i) % 2 = 1
    BY <1>1, Parity, Zenon
  <2>3. d[i].part = 1 => d[i + 1].msg = d[i].msg
    BY <1>1, SMTT(30) DEF Framed
  <2> QED
    BY <1>1, <2>1, <2>2, <2>3, Zenon
<1>4. i % 2 = IF skip THEN 0 ELSE 1
  <2>1. \A x \in Nat : (x + 1) % 2 = 1 <=> x % 2 = 0
    OBVIOUS
  <2>2. \A x \in Nat : x % 2 \in {0, 1}
    OBVIOUS
  <2>3. Len(d) % 2 = 1 <=> i % 2 = 0
    BY <1>1, <2>1, Zenon
  <2> HIDE DEF i
  <2> QED
    BY <1>1, <2>2, <2>3, SMTT(30)
<1> HIDE DEF i
<1>5. i \in Scanned(d)
  BY <1>1, <1>2, <1>3, <1>4, Zenon DEF Scanned, Headers
<1>6. ASSUME NEW j \in Scanned(d) PROVE j <= i
  <2>1. j \in 1 .. Len(d) /\ j < Len(d)
    BY <1>2, SMTT(30) DEF Scanned, Headers
  <2> QED
    BY <1>1, <2>1
<1> QED
  BY <1>3, <1>5, <1>6 DEF SawIdle


\* Once the flag is seen the next idle status moves the client to the slow loop.
LEMMA EnforcedStep ==
  ASSUME Polite, Types, Left, Framed(Arriving), Lockstep, SkipParity, OwnAnswers, Enforced,
         misread = {}, ~Misread, [Next]_vars
  PROVE  Enforced'
<1>1. ASSUME NEW k \in Kinds, ClientSends(k) PROVE Enforced'
  <2>1. InStep
    BY <1>1 DEF ClientSends, Lockstep
  <2> QED
    BY <1>1, <2>1, InStepSend, Zenon DEF Enforced
<1>2. ASSUME NEW n \in 0 .. Len(cNet), ClientCloses(n) PROVE Enforced'
  <2>1. /\ UNCHANGED <<sends, base, toClient, tx>>
        /\ UNCHANGED <<mode, pending, missed>>
    BY <1>2, SMTT(30) DEF ClientCloses, clientVars, serverVars, gaugeVars, loopVars
  <2>2. Waiting' = Waiting
    BY <2>1 DEF Waiting, Answers
  <2> QED
    BY <2>1, <2>2, SMTT(30) DEF Enforced
<1>3. CASE ServerAnswers
  <2>1. mode' = "fast" => InStep
    BY <1>3, SMTT(40) DEF ServerAnswers, loopVars, Lockstep, Talking
  <2> QED
    BY <1>3, <2>1, InStepAnswer, Zenon DEF Enforced
<1>4. CASE ServerCloses
  <2>1. /\ UNCHANGED <<sends, base, toClient, tx>>
        /\ UNCHANGED <<mode, pending, missed>>
    BY <1>4, Zenon DEF ServerCloses, clientVars, serverVars, gaugeVars, loopVars
  <2>2. Waiting' = Waiting
    BY <2>1, Zenon DEF Waiting, Answers
  <2> QED
    BY <2>1, <2>2, Zenon DEF Enforced
<1>5. CASE MonitorStep
  <2>1. /\ UNCHANGED <<sends, base, toClient, tx>>
        /\ UNCHANGED <<mode, pending, missed>>
    BY <1>5, Zenon DEF MonitorStep, clientVars, serverVars, gaugeVars, loopVars
  <2>2. Waiting' = Waiting
    BY <2>1 DEF Waiting, Answers
  <2> QED
    BY <2>1, <2>2 DEF Enforced
<1>6. ASSUME NEW n \in 1 .. Len(cNet), FastClientRead(n) PROVE Enforced'
  <2>1. UNCHANGED <<sends, base, toClient>> /\ InStep
    BY <1>6 DEF FastClientRead, Lockstep, Talking
  <2>2. cNet # <<>>
    <3>1. Len(cNet) # 0
      OBVIOUS
    <3> QED
      BY <3>1
  <2>3. Waiting
    BY <2>1, <2>2, OpenEmpty DEF InStep
  <2> QED
    BY <2>1, <2>3, Zenon DEF Enforced, Waiting, Answers
<1>7. ASSUME NEW n \in 1 .. Len(cNet), SlowClientRead(n) PROVE Enforced'
  <2>1. mode' # "fast"
    BY <1>7 DEF SlowClientRead, ResetVerdict
  <2> QED
    BY <2>1 DEF Enforced
<1>8. ASSUME NEW n \in 1 .. Len(sNet), FastServerRead(n) PROVE Enforced'
  <2> DEFINE data == server_buf \o SubSeq(sNet, 1, n)
             z == Arriving'
  <2>1. /\ UNCHANGED <<sends, base, last, tx, cClosed>>
        /\ UNCHANGED <<toServer, served, client_buf, cNet>>
        /\ toClient' = toClient \o data /\ mode = "fast" /\ Talking
    BY <1>8, Zenon DEF FastServerRead, clientVars, serverVars, Talking
  <2>b. \/ mode' = "slow" /\ ~pending'
        \/ /\ ~(pending /\ Aligned(data) /\ SawIdle(data)) /\ pending' = pending
           /\ missed' = (missed \/ (pending /\ skip /\ data[1].msg.kind = "ready")) /\ mode' = mode
    BY <1>8, ZenonT(30) DEF FastServerRead
  <2>c. /\ mode' = "slow" => ~pending'
        /\ mode' = "fast" /\ pending' => pending /\ ~(Aligned(data) /\ SawIdle(data))
        /\ mode' = "fast" /\ ~missed' => ~(pending /\ skip /\ data[1].msg.kind = "ready")
    <3> HIDE DEF data
    <3>1. mode' = "slow" => ~pending'
      BY <2>1, <2>b
    <3>2. ASSUME mode' = "fast"
          PROVE  /\ ~(pending /\ Aligned(data) /\ SawIdle(data)) /\ pending' = pending
                 /\ missed' = (missed \/ (pending /\ skip /\ data[1].msg.kind = "ready"))
      BY <2>b, <3>2, Zenon
    <3>3. mode' = "fast" /\ pending' => pending /\ ~(Aligned(data) /\ SawIdle(data))
      BY <3>2, Zenon
    <3>4. mode' = "fast" /\ ~missed' => ~(pending /\ skip /\ data[1].msg.kind = "ready")
      BY <3>2, Zenon
    <3> QED
      BY <3>1, <3>3, <3>4, Zenon
  <2>2. /\ Len(data) \in Nat /\ Len(data) >= 1 /\ data \in Seq(Ans(sends)) /\ z \in Seq(Ans(sends))
        /\ Arriving = data \o z
    BY <1>8, ReadData, Zenon
  <2>3. Open' = Open /\ InStep
    BY <2>1, Zenon DEF Open, Coming, Lockstep
  <2>4. skip <=> Len(Arriving) % 2 = 1
    BY <2>1 DEF SkipParity, Handed
  <2>a. Aligned(data)
    BY <1>8, <2>4, ReadAligned
  <2> HIDE DEF data, z
  <2>5. Arriving' = z
    BY DEF z
  <2>6. ~Waiting' => /\ data = Arriving
                     /\ data[Len(data)].msg.kind = "ready" /\ data[Len(data)].part = 2
                     /\ data[Len(data)].msg.idle <=> tx = "idle"
    BY <2>1, <2>2, <2>3, <2>5, <2>c, InStepReceive, Zenon
  <2>7. ASSUME mode' = "fast", pending', ~missed', ~Waiting', tx' = "idle" PROVE FALSE
    <3>1. /\ data = Arriving /\ data[Len(data)].msg.kind = "ready" /\ data[Len(data)].part = 2
          /\ data[Len(data)].msg.idle
      BY <2>1, <2>6, <2>7, Zenon
    <3>2. /\ pending /\ ~SawIdle(data) /\ ~(skip /\ data[1].msg.kind = "ready")
      BY <2>7, <2>a, <2>c
    <3>3. Framed(data) /\ (skip <=> Len(data) % 2 = 1)
      <4>1. Framed(data)
        BY <3>1
      <4>2. Len(data) = Len(Arriving)
        BY <3>1
      <4> QED
        BY <2>4, <4>1, <4>2, Zenon
    <3>4. CASE Len(data) = 1
      <4>1. skip
        BY <3>3, <3>4, Parity
      <4> QED
        BY <3>1, <3>2, <3>4, <4>1, SMTT(30)
    <3>5. CASE Len(data) >= 2
      <4>1. /\ data \in Seq(Ans(sends)) /\ Framed(data) /\ (skip <=> Len(data) % 2 = 1) /\ Len(data) >= 2
            /\ data[Len(data)].msg.kind = "ready" /\ data[Len(data)].msg.idle /\ data[Len(data)].part = 2
        BY <2>2, <3>1, <3>3, <3>5, Zenon
      <4>2. SawIdle(data)
        BY <4>1, ScannerSees, SMTT(30)
      <4> QED
        BY <3>2, <4>2, Zenon
    <3>6. \A x \in Nat : x >= 1 => x = 1 \/ x >= 2
      OBVIOUS
    <3> QED
      BY <2>2, <3>4, <3>5, <3>6, ZenonT(30)
  <2> QED
    BY <2>7 DEF Enforced
<1>9. ASSUME NEW n \in 1 .. Len(sNet), ServerRead(n) PROVE Enforced'
  <2>1. mode' # "fast"
    BY <1>9 DEF ServerRead, ResetVerdict
  <2> QED
    BY <2>1 DEF Enforced
<1>10. CASE SlowClientMessage
  <2>1. mode' # "fast"
    BY <1>10 DEF SlowClientMessage, ResetVerdict
  <2> QED
    BY <2>1 DEF Enforced
<1>11. CASE SlowServerMessage
  <2>1. mode = "slow" /\ pending' = pending
    BY <1>11 DEF SlowServerMessage
  <2>2. ~pending
    BY <2>1 DEF Lockstep, InStep, Talking
  <2> QED
    BY <2>1, <2>2, Zenon DEF Enforced
<1>12. CASE ResetMessage
  <2>1. mode' # "fast"
    BY <1>12, Zenon DEF ResetMessage, ResetVerdict
  <2> QED
    BY <2>1 DEF Enforced
<1>13. CASE NoMessage
  <2>1. mode' # "fast"
    BY <1>13, Zenon DEF NoMessage, ResetVerdict
  <2> QED
    BY <2>1 DEF Enforced
<1>14. CASE Misframe
  BY <1>14, Zenon DEF Misframe
<1>20. ASSUME NEW n \in 0 .. Len(client_buf), MiscutClient(n) PROVE Enforced'
  BY <1>20, Zenon DEF MiscutClient
<1>21. ASSUME NEW n \in 0 .. Len(server_buf), MiscutServer(n) PROVE Enforced'
  BY <1>21, Zenon DEF MiscutServer
<1>22. ASSUME NEW n \in 0 .. Len(server_buf), MiscutReset(n) PROVE Enforced'
  BY <1>22, Zenon DEF MiscutReset
<1>15. CASE EndSession
  <2>1. mode' # "fast"
    BY <1>15, Zenon DEF EndSession, ResetVerdict
  <2> QED
    BY <2>1 DEF Enforced
<1>16. CASE ResetEof
  <2>1. mode' # "fast"
    BY <1>16, SMTT(30) DEF ResetEof, ResetVerdict
  <2> QED
    BY <2>1 DEF Enforced
<1>17. CASE Drop
  <2>1. mode' # "fast"
    BY <1>17 DEF Drop, ResetVerdict
  <2> QED
    BY <2>1 DEF Enforced
<1>18. CASE Reuse
  <2>1. ~pending'
    BY <1>18, Zenon DEF Reuse, Left
  <2> QED
    BY <2>1, Zenon DEF Enforced
<1>19. ASSUME UNCHANGED vars PROVE Enforced'
  <2>1. /\ UNCHANGED <<sends, base, toClient, tx>>
        /\ UNCHANGED <<mode, pending, missed>>
    BY <1>19, SMTT(30) DEF vars, clientVars, serverVars, gaugeVars, loopVars
  <2>2. Waiting' = Waiting
    BY <2>1 DEF Waiting, Answers
  <2> QED
    BY <2>1, <2>2 DEF Enforced
<1> QED
  BY <1>1, <1>2, <1>3, <1>4, <1>5, <1>6, <1>7, <1>8, <1>9, <1>10, <1>11, <1>12, <1>13, <1>14,
     <1>15, <1>16, <1>17, <1>18, <1>19, <1>20, <1>21, <1>22, ZenonT(40) DEF Next, Loops
\* An answer that ends the wait.
LEMMA WaitEnds ==
  ASSUME Types, NEW g \in Seq(Ans(sends)), toClient' = toClient \o g, sends' = sends, base' = base,
         NEW i \in 1 .. Len(g), g[i].msg.kind = "ready", g[i].part = 2, g[i].msg.ans = sends
  PROVE  ~Waiting'
<1> DEFINE c == toClient \o g
<1>1. toClient \in Seq(Ans(sends))
  BY Zenon DEF Types
<1>2. /\ c \in Seq(Ans(sends)) /\ Len(toClient) \in Nat /\ Len(g) \in Nat
      /\ Len(c) = Len(toClient) + Len(g)
      /\ \A k \in 1 .. Len(g) : c[Len(toClient) + k] = g[k]
  BY <1>1, Joined, SMTT(30)
<1> HIDE DEF c
<1>3. Len(toClient) + i \in 1 .. Len(c) /\ c[Len(toClient) + i] = g[i] /\ DOMAIN c = 1 .. Len(c)
  BY <1>2
<1>4. g[i] \in Range(c)
  BY <1>3, Zenon DEF Range
<1>5. g[i] \in Range(toClient')
  BY <1>4, Zenon DEF c
<1>6. sends \in Answers'
  BY <1>5, Zenon DEF Answers
<1> QED
  BY <1>6, SMTT(30) DEF Waiting

\* The fast loop gives way when it has passed on an idle ReadyForQuery.
LEMMA FastSwitch ==
  ASSUME Types, Framed(Arriving), InStep, NEW n \in 1 .. Len(sNet), FastServerRead(n), mode' = "slow",
         Aligned(server_buf \o SubSeq(sNet, 1, n))
  PROVE  tx = "idle" /\ ~Waiting'
<1> DEFINE data == server_buf \o SubSeq(sNet, 1, n)
           z == Arriving'
           d == Arriving
<1>1. toClient' = toClient \o data /\ sends' = sends /\ base' = base /\ SawIdle(data)
  BY DEF FastServerRead, clientVars
<1>2. /\ Len(data) \in Nat /\ data \in Seq(Ans(sends)) /\ z \in Seq(Ans(sends)) /\ d = data \o z
      /\ Len(d) \in Nat
  BY ReadData, SMTT(40)
<1> HIDE DEF data, z, d
<1>3. PICK i \in Scanned(data) : data[i].msg.idle
  BY <1>1 DEF SawIdle
<1>4. i \in 1 .. Len(data) /\ i < Len(data) /\ data[i].msg.kind = "ready"
  BY <1>2, SMTT(30) DEF Scanned, Headers
<1>5. /\ Len(z) \in Nat /\ Len(d) = Len(data) + Len(z)
      /\ \A k \in 1 .. Len(data) : d[k] = data[k]
  BY <1>2, Joined, Zenon
<1>6. i \in 1 .. Len(d) /\ d[i] = data[i]
  BY <1>2, <1>4, <1>5, SMTT(30)
<1>7. /\ i + 2 > Len(d) /\ d[i].msg.ans = sends
      /\ d[i].msg.idle <=> tx = "idle"
  <2>1. ReadyLast(d, Open, base, sends, last, tx)
    BY SMTT(30) DEF InStep, d
  <2> QED
    BY <1>4, <1>6, <2>1, Zenon DEF ReadyLast
<1>8. i + 1 \in 1 .. Len(data) /\ i + 1 \in 1 .. Len(d) /\ i + 1 = Len(d) /\ d[i + 1] = data[i + 1]
  BY <1>2, <1>4, <1>5, <1>7, SMTT(40)
<1>9. d[i + 1].msg = d[i].msg /\ d[i + 1].part = 2
  <2>1. Len(d) - i = 1 /\ Len(d) - (i + 1) = 0
    <3>1. i \in Int /\ Len(d) = i + 1
      BY <1>6, <1>8
    <3>2. \A x \in Int : (x + 1) - x = 1 /\ (x + 1) - (x + 1) = 0
      OBVIOUS
    <3> QED
      BY <3>1, <3>2
  <2>2. Framed(d) /\ d \in Seq(Ans(sends))
    BY OpenType, Zenon DEF d
  <2>3. d[i].part = 1 /\ d[i + 1].part # 1
    <3>1. /\ d[i].part = 1 <=> (Len(d) - i) % 2 = 1
          /\ d[i + 1].part = 1 <=> (Len(d) - (i + 1)) % 2 = 1
      BY <1>6, <1>8, <2>2, Zenon DEF Framed
    <3>2. (Len(d) - i) % 2 = 1 /\ (Len(d) - (i + 1)) % 2 = 0
      BY <2>1, Parity
    <3> QED
      BY <3>1, <3>2, SMTT(40)
  <2>4. d[i + 1].part \in {1, 2}
    <3> DEFINE k == i + 1
    <3>1. k \in 1 .. Len(d)
      BY <1>8
    <3> HIDE DEF k
    <3>2. d[k].part \in {1, 2}
      BY <2>2, <3>1, AnsElement
    <3> QED
      BY <3>2 DEF k
  <2> QED
    BY <1>6, <2>2, <2>3, <2>4, SMTT(30) DEF Framed
<1>10. ~Waiting'
  <2> DEFINE k == i + 1
  <2>1. /\ k \in 1 .. Len(data) /\ data[k].msg.kind = "ready" /\ data[k].part = 2
        /\ data[k].msg.ans = sends
    BY <1>4, <1>6, <1>7, <1>8, <1>9, Zenon
  <2> HIDE DEF k
  <2> QED
    BY <1>1, <1>2, <2>1, WaitEnds, ZenonT(30)
<1> QED
  BY <1>3, <1>6, <1>7, <1>10, Zenon

\* So does the slow loop.
LEMMA SlowSwitch ==
  ASSUME Types, Framed(Arriving), InStep, SlowServerMessage, mode' = "fast"
  PROVE  tx = "idle" /\ ~Waiting'
<1> DEFINE m == server_buf[1].msg
           h == Parts(m)
           z == Arriving'
           d == Arriving
<1>1. /\ toClient' = toClient \o h /\ sends' = sends /\ base' = base
      /\ m.kind = "ready" /\ m.idle
  BY DEF SlowServerMessage, clientVars
<1>2. /\ m \in AnsMsg(sends) /\ h \in Seq(Ans(sends)) /\ Len(h) = 2
      /\ z \in Seq(Ans(sends)) /\ d = h \o z /\ Len(z) \in Nat /\ Len(d) = Len(z) + 2
  BY TakeData
<1> HIDE DEF m
<1>3. h[1] = [msg |-> m, part |-> 1] /\ h[2] = [msg |-> m, part |-> 2]
  BY DEF Parts
<1> HIDE DEF h, z, d
<1>4. d[1] = h[1] /\ 1 \in 1 .. Len(d)
  <2>1. \A k \in 1 .. Len(h) : (h \o z)[k] = h[k]
    BY <1>2, Joined
  <2>2. 1 \in 1 .. Len(h) /\ 1 \in 1 .. Len(d)
    BY <1>2, SMTT(30)
  <2> QED
    BY <1>2, <2>1, <2>2, Zenon
<1>5. /\ d[1].msg.ans = sends
      /\ d[1].msg.idle <=> tx = "idle"
  <2>1. ReadyLast(d, Open, base, sends, last, tx)
    BY Zenon DEF InStep, d
  <2>2. d[1].msg.kind = "ready"
    BY <1>1, <1>3, <1>4, SMTT(30)
  <2> QED
    BY <1>4, <2>1, <2>2, Zenon DEF ReadyLast
<1>6. m.ans = sends /\ tx = "idle"
  BY <1>1, <1>3, <1>4, <1>5
<1>7. ~Waiting'
  <2> DEFINE k == 2
  <2>1. k \in 1 .. Len(h) /\ h[k].msg.kind = "ready" /\ h[k].part = 2 /\ h[k].msg.ans = sends
    BY <1>1, <1>2, <1>3, <1>6, SMTT(30)
  <2> HIDE DEF k
  <2> QED
    BY <1>1, <1>2, <2>1, WaitEnds, ZenonT(30)
<1> QED
  BY <1>6, <1>7, Zenon


\* Every switch between the loops is one of these.
LEMMA SwitchStep ==
  ASSUME Polite, Types, Framed(Arriving), Lockstep, SkipParity, misread = {}, ~Misread,
         [Next]_vars, {mode, mode'} = {"fast", "slow"}
  PROVE  tx = "idle" /\ ~Waiting'
<1>a. \/ mode = "fast" /\ mode' = "slow"
      \/ mode = "slow" /\ mode' = "fast"
  OBVIOUS
<1>1. ASSUME NEW k \in Kinds, ClientSends(k) PROVE tx = "idle" /\ ~Waiting'
  <2>1. mode' = mode \/ mode' \notin {"fast", "slow"}
    BY <1>1 DEF ClientSends, ResetVerdict, clientVars, serverVars, gaugeVars, loopVars
  <2> QED
    BY <1>a, <2>1, Zenon
<1>2. ASSUME NEW n \in 0 .. Len(cNet), ClientCloses(n) PROVE tx = "idle" /\ ~Waiting'
  <2>1. mode' = mode \/ mode' \notin {"fast", "slow"}
    BY <1>2 DEF ClientCloses, ResetVerdict, clientVars, serverVars, gaugeVars, loopVars
  <2> QED
    BY <1>a, <2>1, Zenon
<1>3. CASE ServerAnswers
  <2>1. mode' = mode \/ mode' \notin {"fast", "slow"}
    BY <1>3, Zenon DEF ServerAnswers, ResetVerdict, clientVars, serverVars, gaugeVars, loopVars
  <2> QED
    BY <1>a, <2>1, Zenon
<1>4. CASE ServerCloses
  <2>1. mode' = mode \/ mode' \notin {"fast", "slow"}
    BY <1>4, Zenon DEF ServerCloses, ResetVerdict, clientVars, serverVars, gaugeVars, loopVars
  <2> QED
    BY <1>a, <2>1
<1>5. CASE MonitorStep
  <2>1. mode' = mode \/ mode' \notin {"fast", "slow"}
    BY <1>5 DEF MonitorStep, ResetVerdict, clientVars, serverVars, gaugeVars, loopVars
  <2> QED
    BY <1>a, <2>1
<1>6. ASSUME NEW n \in 1 .. Len(cNet), FastClientRead(n) PROVE tx = "idle" /\ ~Waiting'
  <2>1. mode' = mode \/ mode' \notin {"fast", "slow"}
    BY <1>6, Zenon DEF FastClientRead, ResetVerdict, clientVars, serverVars, gaugeVars, loopVars
  <2> QED
    BY <1>a, <2>1, Zenon
<1>7. ASSUME NEW n \in 1 .. Len(cNet), SlowClientRead(n) PROVE tx = "idle" /\ ~Waiting'
  <2>1. mode' = mode \/ mode' \notin {"fast", "slow"}
    BY <1>7 DEF SlowClientRead, ResetVerdict, clientVars, serverVars, gaugeVars, loopVars
  <2> QED
    BY <1>a, <2>1
<1>8. ASSUME NEW n \in 1 .. Len(sNet), FastServerRead(n) PROVE tx = "idle" /\ ~Waiting'
  <2>1. mode = "fast" /\ Talking /\ InStep
    BY <1>8, Zenon DEF FastServerRead, Lockstep, Talking
  <2>2. Aligned(server_buf \o SubSeq(sNet, 1, n))
    BY <1>8, <2>1, ReadAligned DEF SkipParity, Handed
  <2> QED
    BY <1>a, <1>8, <2>1, <2>2, FastSwitch, Zenon
<1>9. ASSUME NEW n \in 1 .. Len(sNet), ServerRead(n) PROVE tx = "idle" /\ ~Waiting'
  <2>1. mode' = mode \/ mode' \notin {"fast", "slow"}
    BY <1>9, SMTT(30) DEF ServerRead, ResetVerdict, clientVars, serverVars, gaugeVars, loopVars
  <2> QED
    BY <1>a, <2>1
<1>10. CASE SlowClientMessage
  <2>1. mode' = mode \/ mode' \notin {"fast", "slow"}
    BY <1>10 DEF SlowClientMessage, ResetVerdict, clientVars, serverVars, gaugeVars, loopVars
  <2> QED
    BY <1>a, <2>1
<1>11. CASE SlowServerMessage
  <2>1. mode = "slow" /\ InStep
    BY <1>11 DEF SlowServerMessage, Lockstep, Talking
  <2> QED
    BY <1>a, <1>11, <2>1, SlowSwitch, Zenon
<1>12. CASE ResetMessage
  <2>1. mode' = mode \/ mode' \notin {"fast", "slow"}
    BY <1>12, Zenon DEF ResetMessage, ResetVerdict, clientVars, serverVars, gaugeVars, loopVars
  <2> QED
    BY <1>a, <2>1
<1>13. CASE NoMessage
  <2>1. mode' = mode \/ mode' \notin {"fast", "slow"}
    BY <1>13, SMTT(30) DEF NoMessage, ResetVerdict, clientVars, serverVars, gaugeVars, loopVars
  <2> QED
    BY <1>a, <2>1
<1>14. CASE Misframe
  BY <1>14, Zenon DEF Misframe
<1>20. ASSUME NEW n \in 0 .. Len(client_buf), MiscutClient(n) PROVE tx = "idle" /\ ~Waiting'
  BY <1>20, Zenon DEF MiscutClient
<1>21. ASSUME NEW n \in 0 .. Len(server_buf), MiscutServer(n) PROVE tx = "idle" /\ ~Waiting'
  BY <1>21, Zenon DEF MiscutServer
<1>22. ASSUME NEW n \in 0 .. Len(server_buf), MiscutReset(n) PROVE tx = "idle" /\ ~Waiting'
  BY <1>22, Zenon DEF MiscutReset
<1>15. CASE EndSession
  <2>1. mode' = mode \/ mode' \notin {"fast", "slow"}
    BY <1>15, Zenon DEF EndSession, ResetVerdict, clientVars, serverVars, gaugeVars, loopVars
  <2> QED
    BY <1>a, <2>1
<1>16. CASE ResetEof
  <2>1. mode' = mode \/ mode' \notin {"fast", "slow"}
    BY <1>16, SMTT(30) DEF ResetEof, ResetVerdict, clientVars, serverVars, gaugeVars, loopVars
  <2> QED
    BY <1>a, <2>1
<1>17. CASE Drop
  <2>1. mode' = mode \/ mode' \notin {"fast", "slow"}
    BY <1>17 DEF Drop, ResetVerdict, clientVars, serverVars, gaugeVars, loopVars
  <2> QED
    BY <1>a, <2>1
<1>18. CASE Reuse
  <2>1. mode = "pooled"
    BY <1>18, Zenon DEF Reuse
  <2> QED
    BY <1>a, <2>1
<1>19. ASSUME UNCHANGED vars PROVE tx = "idle" /\ ~Waiting'
  <2>1. mode' = mode \/ mode' \notin {"fast", "slow"}
    BY <1>19 DEF vars, ResetVerdict, clientVars, serverVars, gaugeVars, loopVars
  <2> QED
    BY <1>a, <2>1
<1> QED
  BY <1>1, <1>2, <1>3, <1>4, <1>5, <1>6, <1>7, <1>8, <1>9, <1>10, <1>11, <1>12, <1>13, <1>14,
     <1>15, <1>16, <1>17, <1>18, <1>19, <1>20, <1>21, <1>22, ZenonT(40) DEF Next, Loops

\* Nothing is read, or in whole messages.
LEMMA InFrameKept ==
  ASSUME InFrame, UNCHANGED <<misread, mode>>, Len(Coming') % 2 = Len(Coming) % 2,
         Len(Arriving') % 2 = Len(Arriving) % 2
  PROVE  InFrame'
  BY DEF InFrame

\* A whole message is taken from the front of a buffer.
LEMMA TakenParity ==
  ASSUME NEW S, NEW b \in Seq(S), NEW c \in Seq(S), Whole(b)
  PROVE  Len(From(b, 2) \o c) % 2 = Len(b \o c) % 2
<1>a. 2 \in 0 .. Len(b) /\ Len(b) \in Nat /\ Len(c) \in Nat
  BY DEF Whole
<1>1. /\ From(b, 2) \in Seq(S) /\ 2 <= Len(b) /\ Len(b) \in Nat /\ Len(c) \in Nat
      /\ Len(From(b, 2)) = Len(b) - 2
  <2>1. 2 <= Len(b)
    BY <1>a
  <2> QED
    BY <1>a, <2>1, Rest, Zenon
<1> DEFINE y == From(b, 2)
<1> HIDE DEF y
<1>2. Len(y \o c) = (Len(b) - 2) + Len(c) /\ Len(b \o c) = Len(b) + Len(c)
  BY <1>1, Joined DEF y
<1>3. \A x, z \in Nat : 2 <= x => ((x - 2) + z) % 2 = (x + z) % 2
  OBVIOUS
<1> QED
  BY <1>1, <1>2, <1>3 DEF y

\* The loops of a polite client stay between two messages.
LEMMA InFrameStep ==
  ASSUME Polite, Types, Left, WholeMessages, Lockstep, Lockstep', SkipParity, InFrame, [Next]_vars
  PROVE  InFrame'
<1>a. ~Misread /\ misread = {} /\ Framed(Arriving)
  BY NotMisread DEF InFrame, WholeMessages
<1>b. /\ client_buf \in Seq(Req(sends)) /\ cNet \in Seq(Req(sends))
      /\ server_buf \in Seq(Ans(sends)) /\ sNet \in Seq(Ans(sends))
  BY DEF Types
<1>1. ASSUME NEW k \in Kinds, ClientSends(k) PROVE InFrame'
  <2> DEFINE m == [id |-> sends + 1, kind |-> k, via |-> "client"]
             c == cNet \o Parts(m)
  <2>1. UNCHANGED <<misread, mode, server_buf, sNet, client_buf>> /\ cNet' = c
    BY <1>1, Zenon DEF ClientSends, loopVars
  <2>2. Len(c) = Len(cNet) + 2 /\ Len(cNet) \in Nat /\ c \in Seq(Req(sends) \cup Req(sends + 1))
    <3> DEFINE S == Req(sends) \cup Req(sends + 1)
    <3>1. cNet \in Seq(S)
      BY <1>b
    <3>2. m \in ReqMsg(sends + 1)
      BY ProxyAssumption DEF ReqMsg, ReqKinds, Vias, Types
    <3>3. [msg |-> m, part |-> 1] \in S /\ [msg |-> m, part |-> 2] \in S
      BY <3>2, ReqParts
    <3> HIDE DEF m, S
    <3>4. Parts(m) \in Seq(S) /\ Len(Parts(m)) = 2
      BY <3>3, Halves
    <3>5. Len(cNet \o Parts(m)) = Len(cNet) + Len(Parts(m)) /\ cNet \o Parts(m) \in Seq(S) /\ Len(cNet) \in Nat
      BY <3>1, <3>4, Joined
    <3> QED
      BY <3>4, <3>5 DEF S
  <2> HIDE DEF c
  <2>3. Len(client_buf \o c) = Len(client_buf) + Len(c) /\ Len(client_buf \o cNet) = Len(client_buf) + Len(cNet)
        /\ Len(client_buf) \in Nat
    <3>1. client_buf \in Seq(Req(sends) \cup Req(sends + 1))
      BY <1>b
    <3> QED
      BY <1>b, <2>2, <3>1, Joined
  <2>4. \A x, y \in Nat : (x + (y + 2)) % 2 = (x + y) % 2
    OBVIOUS
  <2>5. Len(client_buf \o c) % 2 = Len(client_buf \o cNet) % 2
    BY <2>2, <2>3, <2>4
  <2> QED
    BY <2>1, <2>5, InFrameKept, Zenon DEF Coming, Arriving
<1>2. ASSUME NEW n \in 0 .. Len(cNet), ClientCloses(n) PROVE InFrame'
  <2>1. UNCHANGED <<misread, mode, server_buf, sNet, client_buf>> /\ cNet' = SubSeq(cNet, 1, n) /\ n = Len(cNet)
    BY <1>2, Zenon DEF ClientCloses, loopVars
  <2>2. cNet' = cNet
    BY <1>b, <2>1
  <2> QED
    BY <2>1, <2>2, InFrameKept, Zenon DEF Coming, Arriving
<1>3. CASE ServerAnswers
  <2>1. UNCHANGED <<misread, mode, client_buf, cNet>>
    BY <1>3, Zenon DEF ServerAnswers, loopVars, clientVars
  <2>2. Len(Arriving') % 2 = Len(Arriving) % 2
    BY <1>3, <1>a, AnswerParity
  <2> QED
    BY <2>1, <2>2, InFrameKept, Zenon DEF Coming
<1>4. CASE ServerCloses
  <2>1. UNCHANGED <<misread, mode, client_buf, cNet, server_buf, sNet>>
    BY <1>4, Zenon DEF ServerCloses, loopVars, clientVars
  <2> QED
    BY <2>1, InFrameKept, Zenon DEF Coming, Arriving
<1>5. CASE MonitorStep
  <2>1. UNCHANGED <<misread, mode, client_buf, cNet, server_buf, sNet>>
    BY <1>5, Zenon DEF MonitorStep, loopVars, clientVars
  <2> QED
    BY <2>1, InFrameKept, Zenon DEF Coming, Arriving
<1>6. ASSUME NEW n \in 1 .. Len(cNet), FastClientRead(n) PROVE InFrame'
  <2>1. misread' = misread /\ mode' = "fast"
    BY <1>6 DEF FastClientRead
  <2> QED
    BY <1>a, <2>1 DEF InFrame
<1>7. ASSUME NEW n \in 1 .. Len(cNet), SlowClientRead(n) PROVE InFrame'
  <2>1. /\ UNCHANGED <<misread, mode, server_buf, sNet>>
        /\ client_buf' = client_buf \o SubSeq(cNet, 1, n) /\ cNet' = From(cNet, n)
    BY <1>7, Zenon DEF SlowClientRead
  <2>2. n \in 0 .. Len(cNet)
    BY <1>b
  <2>3. Coming' = Coming
    BY <1>b, <2>1, <2>2, Moved, Zenon DEF Coming, From
  <2> QED
    BY <2>1, <2>3, InFrameKept, Zenon DEF Arriving
<1>8. ASSUME NEW n \in 1 .. Len(sNet), FastServerRead(n) PROVE InFrame'
  <2>1. /\ UNCHANGED <<misread, client_buf, cNet, toServer, served>>
        /\ mode = "fast" /\ mode' \in {"fast", "slow"}
    BY <1>8, Zenon DEF FastServerRead, clientVars, serverVars
  <2>2. ASSUME mode' = "slow" PROVE Coming' = <<>> /\ Arriving' = <<>>
    <3>1. ~Waiting'
      BY <1>8, <1>a, <2>1, <2>2, SwitchStep, Zenon DEF Next, Loops
    <3>2. Open' = <<>> /\ Arriving' = <<>>
      BY <2>2, <3>1 DEF Lockstep, InStep, Talking
    <3>3. Open = <<>>
      BY <2>1, <3>2, Zenon DEF Open, Coming
    <3>4. client_buf = <<>> /\ cNet = <<>>
      BY <3>3, OpenEmpty
    <3>5. Coming' = <<>> \o <<>>
      BY <2>1, <3>4, Zenon DEF Coming
    <3> QED
      BY <3>2, <3>5, Empty, JoinEmpty
  <2>3. Len(<<>>) % 2 = 0
    BY Parity
  <2> QED
    BY <1>a, <2>1, <2>2, <2>3 DEF InFrame
<1>9. ASSUME NEW n \in 1 .. Len(sNet), ServerRead(n) PROVE InFrame'
  <2>1. /\ UNCHANGED <<misread, mode, client_buf, cNet>>
        /\ server_buf' = server_buf \o SubSeq(sNet, 1, n) /\ sNet' = From(sNet, n)
    BY <1>9, Zenon DEF ServerRead, clientVars
  <2>2. n \in 0 .. Len(sNet)
    BY <1>b
  <2>3. Arriving' = Arriving
    BY <1>b, <2>1, <2>2, Moved, Zenon DEF Arriving, From
  <2> QED
    BY <2>1, <2>3, InFrameKept, Zenon DEF Coming
<1>10. CASE SlowClientMessage
  <2>1. /\ UNCHANGED <<misread, mode, cNet, server_buf, sNet>>
        /\ client_buf' = From(client_buf, 2) /\ Whole(client_buf)
    BY <1>10, Zenon DEF SlowClientMessage, clientVars
  <2>2. Len(From(client_buf, 2) \o cNet) % 2 = Len(client_buf \o cNet) % 2
    BY <1>b, <2>1, TakenParity, Zenon
  <2> QED
    BY <2>1, <2>2, InFrameKept, Zenon DEF Coming, Arriving
<1>11. CASE SlowServerMessage
  <2>1. /\ UNCHANGED <<misread, client_buf, cNet, sNet>> /\ mode = "slow" /\ mode' \in {"fast", "slow"}
        /\ server_buf' = From(server_buf, 2) /\ Whole(server_buf)
    BY <1>11, Zenon DEF SlowServerMessage, clientVars
  <2>2. Len(From(server_buf, 2) \o sNet) % 2 = Len(server_buf \o sNet) % 2
    BY <1>b, <2>1, TakenParity, Zenon
  <2>3. CASE mode' = "fast"
    BY <1>a, <2>1, <2>3 DEF InFrame
  <2>4. CASE mode' = "slow"
    BY <2>1, <2>2, <2>4, InFrameKept, Zenon DEF Coming, Arriving
  <2> QED
    BY <2>1, <2>3, <2>4
<1>12. CASE ResetMessage
  <2>1. /\ UNCHANGED <<misread, client_buf, cNet, sNet>> /\ mode = "reset" /\ Whole(server_buf)
        /\ mode' \in {"reset", "pooled", "closed"}
        /\ mode' = "reset" => server_buf' = From(server_buf, 2)
    BY <1>12, Zenon DEF ResetMessage, ResetVerdict, clientVars
  <2>2. Len(From(server_buf, 2) \o sNet) % 2 = Len(server_buf \o sNet) % 2
    BY <1>b, <2>1, TakenParity, Zenon
  <2>3. CASE mode' # "reset"
    BY <1>a, <2>1, <2>3 DEF InFrame
  <2>4. CASE mode' = "reset"
    BY <2>1, <2>2, <2>4, InFrameKept, Zenon DEF Coming, Arriving
  <2> QED
    BY <2>3, <2>4
<1>13. CASE NoMessage
  <2>1. UNCHANGED <<misread, mode, client_buf, cNet, server_buf, sNet>>
    BY <1>13, Zenon DEF NoMessage, clientVars
  <2> QED
    BY <2>1, InFrameKept, Zenon DEF Coming, Arriving
<1>14. CASE Misframe
  BY <1>14, <1>a, Zenon DEF Misframe
<1>20. ASSUME NEW n \in 0 .. Len(client_buf), MiscutClient(n) PROVE InFrame'
  BY <1>20, <1>a, Zenon DEF MiscutClient
<1>21. ASSUME NEW n \in 0 .. Len(server_buf), MiscutServer(n) PROVE InFrame'
  BY <1>21, <1>a, Zenon DEF MiscutServer
<1>22. ASSUME NEW n \in 0 .. Len(server_buf), MiscutReset(n) PROVE InFrame'
  BY <1>22, <1>a, Zenon DEF MiscutReset
<1>15. CASE EndSession
  <2>1. misread' = {} /\ client_buf' = <<>> /\ cNet' = <<>> /\ Talking
    BY <1>15, Zenon DEF EndSession, LeaveLoops
  <2>2. Arriving' = <<>>
    BY <1>15, <2>1, ResetBegins, Zenon DEF Lockstep
  <2>3. Coming' = <<>> \o <<>>
    BY <2>1, Zenon DEF Coming
  <2>4. Coming' = <<>> /\ Len(<<>>) % 2 = 0
    BY <2>3, Empty, JoinEmpty, Parity
  <2> QED
    BY <2>1, <2>2, <2>4 DEF InFrame
<1>16. CASE ResetEof
  <2>1. misread' \in {misread, {}} /\ mode' = "closed"
    BY <1>16, Zenon DEF ResetEof
  <2> QED
    BY <1>a, <2>1 DEF InFrame
<1>17. CASE Drop
  <2>1. misread' = {} /\ mode' = "closed"
    BY <1>17, Zenon DEF Drop, LeaveLoops
  <2> QED
    BY <2>1 DEF InFrame
<1>18. CASE Reuse
  <2>1. misread' = misread /\ mode' = "fast"
    BY <1>18, Zenon DEF Reuse
  <2> QED
    BY <1>a, <2>1 DEF InFrame
<1>19. ASSUME UNCHANGED vars PROVE InFrame'
  <2>1. UNCHANGED <<misread, mode, client_buf, cNet, server_buf, sNet>>
    BY <1>19, Zenon DEF vars, loopVars, clientVars
  <2> QED
    BY <2>1, InFrameKept, Zenon DEF Coming, Arriving
<1> QED
  BY <1>1, <1>2, <1>3, <1>4, <1>5, <1>6, <1>7, <1>8, <1>9, <1>10, <1>11, <1>12, <1>13, <1>14,
     <1>15, <1>16, <1>17, <1>18, <1>19, <1>20, <1>21, <1>22, ZenonT(40) DEF Next, Loops

-----------------------------------------------------------------------------
(* The invariant and the theorems *)

\* ClientGetsAll for the stream in its three places.
LEMMA SentMeaning ==
  ASSUME NEW q, NEW a \in Seq(Ans(q)), NEW b \in Seq(Ans(q)), NEW c \in Seq(Ans(q)), NEW k \in Nat
  PROVE  Complete(AnswerKeys(a \o b \o c), 1 .. k) <=> AnsDone(a \o b \o c, 1 .. k)
<1> DEFINE ids == 1 .. k
           s == a \o b \o c
<1>1. s \in Seq(Ans(q)) /\ ids \in SUBSET Nat
  BY AnsPieces
<1> HIDE DEF ids, s
<1>2. Complete(AnswerKeys(s), ids) <=> AnsDone(s, ids)
  BY <1>1, AnsDoneMeaning
<1> QED
  BY <1>2 DEF ids, s

\* The first session starts with empty streams, and waits for nothing.
LEMMA PInvInit == Init => PInv
<1> SUFFICES ASSUME Init PROVE PInv
  OBVIOUS
<1>1. RInv
  BY RInvInit
<1>2. /\ cNet = <<>> /\ sNet = <<>> /\ toServer = <<>> /\ served = 0 /\ toClient = <<>>
      /\ sends = 0 /\ last = "none" /\ base = 0 /\ no = 0 /\ mode = "fast"
      /\ client_buf = <<>> /\ server_buf = <<>> /\ ~cClosed /\ ~pending /\ ~skip /\ misread = {}
  BY DEF Init
<1>3. <<>> \o <<>> = <<>>
  BY Empty, JoinEmpty
<1>4. Open = <<>> /\ Arriving = <<>> /\ Sent = <<>>
  <2>1. From(<<>>, 0) = <<>>
    BY DEF From
  <2> QED
    BY <1>2, <1>3, <2>1 DEF Open, Coming, Arriving, Sent
<1>5. SkipParity
  <2>1. Len(<<>>) = 0
    OBVIOUS
  <2> QED
    BY <1>2, <1>4, <2>1, Parity DEF SkipParity
<1>6. ClientGetsAll
  <2>1. AnsDone(<<>>, 1 .. 0)
    BY DEF AnsDone
  <2> QED
    <3>1. /\ toClient \in Seq(Ans(sends)) /\ server_buf \in Seq(Ans(sends)) /\ sNet \in Seq(Ans(sends))
          /\ no \in Nat
      BY <1>1 DEF RInv, Types
    <3>2. Complete(AnswerKeys(Sent), 1 .. no) <=> AnsDone(Sent, 1 .. no)
      BY <3>1, SentMeaning, SMTT(30) DEF Sent
    <3> QED
      BY <1>2, <1>4, <2>1, <3>2, Zenon DEF ClientGetsAll, Sent
<1>7. Lockstep
  <2>1. Group(<<>>, 0, 0, "none") /\ ReadyLast(<<>>, <<>>, 0, 0, "none", tx)
    BY DEF Group, ReadyLast
  <2>2. ~Waiting
    BY <1>2 DEF Waiting
  <2> QED
    BY <1>2, <1>4, <2>1, <2>2, Zenon DEF Lockstep, InStep
<1>8. Resetting /\ Quiet /\ Enforced /\ InFrame
  BY <1>2 DEF Resetting, Quiet, Enforced, InFrame
<1>9. OwnAnswers
  BY <1>2 DEF OwnAnswers, Range
<1> QED
  BY <1>1, <1>5, <1>6, <1>7, <1>8, <1>9, Zenon DEF PInv, AInv, LInv

\* Every step keeps PInv.
LEMMA PInvStep == PInv /\ [Next]_vars => PInv'
<1> SUFFICES ASSUME PInv, [Next]_vars PROVE PInv'
  OBVIOUS
<1>1. RInv /\ RInv'
  BY RInvStep DEF PInv
<1>2. Types /\ Left /\ WholeMessages /\ Framed(Arriving) /\ Types'
  BY <1>1 DEF RInv, WholeMessages
<1>3. Polite => Lockstep /\ Resetting /\ Quiet /\ Enforced /\ OwnAnswers /\ InFrame
  BY DEF PInv, LInv
<1>4. SkipParity /\ (Handed => ClientGetsAll)
  BY DEF PInv, AInv
<1>5. SkipParity'
  <2>1. Handed /\ Talking /\ "server" \notin misread => (skip <=> Len(Arriving) % 2 = 1)
    BY <1>4 DEF SkipParity
  <2>2. (Handed /\ Talking /\ "server" \notin misread)' => (skip' <=> Len(Arriving') % 2 = 1)
    BY <1>2, <1>3, <2>1, ParityStep, Zenon
  <2> QED
    BY <2>2 DEF SkipParity
<1>6. Handed' => ClientGetsAll'
  <2>1. Handed /\ Talking => AnsDone(Sent, 1 .. no)
    <3>1. /\ toClient \in Seq(Ans(sends)) /\ server_buf \in Seq(Ans(sends)) /\ sNet \in Seq(Ans(sends))
          /\ no \in Nat
      BY <1>2 DEF Types
    <3>2. Complete(AnswerKeys(Sent), 1 .. no) <=> AnsDone(Sent, 1 .. no)
      BY <3>1, SentMeaning, Zenon DEF Sent
    <3> QED
      BY <1>4, <3>2, Zenon DEF ClientGetsAll, Sent
  <2>2. (Handed /\ Talking)' => AnsDone(Sent', 1 .. no')
    BY <1>2, <1>3, <2>1, SentStep, Zenon
  <2>3. ClientGetsAll' <=> (Talking' => AnsDone(Sent', 1 .. no'))
    <3>1. /\ toClient' \in Seq(Ans(sends')) /\ server_buf' \in Seq(Ans(sends'))
          /\ sNet' \in Seq(Ans(sends')) /\ no' \in Nat
      BY <1>2 DEF Types
    <3>2. Complete(AnswerKeys(Sent'), 1 .. no') <=> AnsDone(Sent', 1 .. no')
      BY <3>1, SentMeaning DEF Sent
    <3> QED
      BY <3>2, Zenon DEF ClientGetsAll, Sent
  <2> QED
    BY <2>2, <2>3
<1>7. ASSUME Polite PROVE LInv'
  <2>a. ~Misread /\ misread = {}
    BY <1>2, <1>3, <1>7, NotMisread DEF InFrame
  <2>1. Lockstep' /\ OwnAnswers'
    BY <1>2, <1>3, <1>7, <2>a, LockstepStep, Zenon
  <2>2. Resetting' /\ Quiet'
    BY <1>2, <1>3, <1>7, <2>a, ResetStep, Zenon
  <2>3. Enforced'
    BY <1>2, <1>3, <1>4, <1>7, <2>a, EnforcedStep, Zenon
  <2>4. InFrame'
    BY <1>2, <1>3, <1>4, <1>7, <2>1, InFrameStep, Zenon
  <2> QED
    BY <2>1, <2>2, <2>3, <2>4, SMTT(30) DEF LInv
<1> QED
  BY <1>1, <1>5, <1>6, <1>7, Zenon DEF PInv, AInv

\* PInv holds throughout.
LEMMA PInvAlways == Spec => []PInv
  BY PInvInit, PInvStep, PTL DEF Spec

\* Everything the server sends in a session reaches its client in order and once,
\* through every switch between the loops, in the first session of a connection and in
\* every session after polite ones.
THEOREM NothingLostToClient == Spec => [](Handed => ClientGetsAll)
<1>1. PInv => (Handed => ClientGetsAll)
  BY SMTT(30) DEF PInv, AInv
<1> QED
  BY <1>1, PInvAlways, PTL

\* However the answers are cut into reads and whatever the slow loop has forwarded past
\* the scanner, the scanner of the fast loop knows whether a header comes next: in the
\* first session of a connection and in every session after polite ones, until the slow
\* loop has taken the middle of an answer for a header (FramesAreKept: never, when the
\* clients are polite).
THEOREM ScannerStaysAligned == Spec => [](Handed => ScannerAligned)
<1>1. PInv => (Handed => ScannerAligned)
  <2> SUFFICES ASSUME PInv, Handed, mode = "fast", "server" \notin misread, Arriving # <<>>
               PROVE  skip <=> Arriving[1].part = 2
    BY DEF ScannerAligned, Arriving
  <2>1. Types /\ Framed(Arriving)
    BY DEF PInv, RInv, WholeMessages
  <2>2. skip <=> Len(Arriving) % 2 = 1
    BY DEF PInv, AInv, SkipParity, Talking
  <2>3. Arriving \in Seq(Ans(sends))
    BY <2>1, OpenType
  <2>4. Arriving[1].part = 2 <=> Len(Arriving) % 2 = 1
    BY <2>1, <2>3, NextHalf, SMTT(30)
  <2> QED
    BY <2>2, <2>4, Zenon
<1> QED
  BY <1>1, PInvAlways, PTL

\* The slow loop and the reset of a polite client never take the middle of a message for
\* a header: they start, at an idle ReadyForQuery or on a pooled connection, with nothing
\* on its way, and take whole messages.
THEOREM FramesAreKept == Spec => [](Polite => NeverMisread)
<1>1. PInv => (Polite => NeverMisread)
  <2> SUFFICES ASSUME PInv, Polite PROVE misread = {} /\ ~Misread
    BY DEF NeverMisread
  <2>1. Types /\ Left /\ WholeMessages /\ InFrame
    BY DEF PInv, RInv, LInv
  <2> QED
    BY <2>1, NotMisread DEF InFrame
<1> QED
  BY <1>1, PInvAlways, PTL

\* Clients that wait for their answers never receive an answer to a request of a client
\* that had the connection before them: reset_connection leaves nothing behind.
THEOREM AnswersAreOwn == Spec => [](Polite => OwnAnswers)
<1>1. PInv => (Polite => OwnAnswers)
  BY DEF PInv, LInv
<1> QED
  BY <1>1, PInvAlways, PTL

\* Once the fast loop has seen the over-limit flag, a polite client that is idle
\* again is in the slow loop, unless a read began with the status of a ReadyForQuery.
THEOREM LimitIsEnforced == Spec => [](Polite => Enforced)
<1>1. PInv => (Polite => Enforced)
  BY DEF PInv, LInv
<1> QED
  BY <1>1, PInvAlways, PTL

\* The loops of a polite client are switched only outside a transaction and when every
\* request has been answered.
THEOREM SwitchesWhenIdle == ASSUME Polite PROVE Spec => SwitchIdle
<1>1. PInv /\ [Next]_vars => [{mode, mode'} = {"fast", "slow"} => tx = "idle" /\ ~Waiting']_vars
  <2> SUFFICES ASSUME PInv, [Next]_vars, {mode, mode'} = {"fast", "slow"}
               PROVE  tx = "idle" /\ ~Waiting'
    OBVIOUS
  <2>1. Types /\ Left /\ WholeMessages /\ Framed(Arriving) /\ Lockstep /\ SkipParity /\ InFrame
    BY DEF PInv, RInv, WholeMessages, LInv, AInv
  <2>2. ~Misread /\ misread = {}
    BY <2>1, NotMisread DEF InFrame
  <2> QED
    BY <2>1, <2>2, SwitchStep
<1> QED
  BY <1>1, PInvAlways, PTL DEF Spec, SwitchIdle
=============================================================================
