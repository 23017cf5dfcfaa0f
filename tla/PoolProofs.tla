----------------------------- MODULE PoolProofs -----------------------------
(***************************************************************************)
(* Proofs about Pool, for any numbers of clients, keys and sockets and any *)
(* limits: its steps keep the types, the Notify queues and the ownership   *)
(* of the sockets, and each of them is a step of the lease protocol or one *)
(* that its clients cannot see.  PoolTheorems adds the counting.           *)
(***************************************************************************)
EXTENDS Pool, TLAPS

\* The inductive invariant.  Types need Accounting (no counter is decremented
\* at zero), Accounting needs Ownership (what is released was counted once),
\* Ownership needs Waiting (a notification only moves a parked task).
IInv == TypeOK /\ Waiting /\ Ownership /\ Accounting /\ GlobalOvershoot

-----------------------------------------------------------------------------
(* Sequences *)

\* Removing one element keeps a sequence's other elements, in order.
LEMMA RemoveAtProperties ==
  ASSUME NEW S, NEW s \in Seq(S), NEW i \in 1 .. Len(s)
  PROVE  /\ RemoveAt(s, i) \in Seq(S)
         /\ Len(RemoveAt(s, i)) = Len(s) - 1
         /\ \A j \in 1 .. Len(s) - 1 :
              RemoveAt(s, i)[j] = IF j < i THEN s[j] ELSE s[j + 1]
<1> DEFINE a == SubSeq(s, 1, i - 1)
           b == SubSeq(s, i + 1, Len(s))
<1>1. a \in Seq(S) /\ Len(a) = i - 1 /\ \A j \in 1 .. i - 1 : a[j] = s[j]
  OBVIOUS
<1>2. b \in Seq(S) /\ Len(b) = Len(s) - i /\ \A j \in 1 .. Len(s) - i : b[j] = s[i + j]
  OBVIOUS
<1>3. RemoveAt(s, i) = a \o b
  BY DEF RemoveAt
<1> HIDE DEF a, b
<1> DEFINE r == a \o b
<1>4. /\ r \in Seq(S) /\ Len(r) = Len(a) + Len(b)
      /\ \A j \in 1 .. Len(a) : r[j] = a[j]
      /\ \A j \in 1 .. Len(b) : r[Len(a) + j] = b[j]
  <2>1. a \in Seq(S) /\ b \in Seq(S)
    BY <1>1, <1>2
  <2> QED
    BY <2>1
<1> HIDE DEF r
<1>5. r \in Seq(S) /\ Len(r) = Len(s) - 1
  BY <1>1, <1>2, <1>4
<1>6. ASSUME NEW j \in 1 .. Len(s) - 1
      PROVE  r[j] = IF j < i THEN s[j] ELSE s[j + 1]
  <2>1. CASE j < i
    BY <1>1, <1>4, <2>1
  <2>2. CASE ~(j < i)
    <3>1. j - (i - 1) \in 1 .. Len(b) /\ Len(a) + (j - (i - 1)) = j /\ i + (j - (i - 1)) = j + 1
      BY <1>1, <1>2, <2>2
    <3>2. r[j] = b[j - (i - 1)] /\ b[j - (i - 1)] = s[j + 1]
      BY <1>2, <1>4, <3>1
    <3> QED
      BY <2>2, <3>2
  <2> QED
    BY <2>1, <2>2
<1> QED
  BY <1>3, <1>5, <1>6 DEF r

\* Popping the head of a queue without duplicates.
LEMMA PopFront ==
  ASSUME NEW S, NEW s \in Seq(S), s # <<>>, IsInjective(s)
  PROVE  /\ Head(s) \in Range(s) /\ Head(s) \in S
         /\ Tail(s) \in Seq(S) /\ IsInjective(Tail(s))
         /\ Range(Tail(s)) = Range(s) \ {Head(s)}
<1> DEFINE n == Len(s)
           r == Tail(s)
<1>1. n \in Nat /\ n >= 1 /\ DOMAIN s = 1 .. n /\ Head(s) = s[1] /\ Head(s) \in S
  OBVIOUS
<1>2. /\ r \in Seq(S) /\ DOMAIN r = 1 .. n - 1
      /\ \A i \in 1 .. n - 1 : r[i] = s[i + 1]
  OBVIOUS
<1> HIDE DEF n, r
<1>3. \A a, b \in 1 .. n : s[a] = s[b] => a = b
  BY <1>1 DEF IsInjective
<1>4. IsInjective(r)
  <2>1. ASSUME NEW a \in 1 .. n - 1, NEW b \in 1 .. n - 1, r[a] = r[b] PROVE a = b
    <3>1. a + 1 \in 1 .. n /\ b + 1 \in 1 .. n /\ s[a + 1] = s[b + 1]
      BY <1>1, <1>2, <2>1
    <3> QED
      BY <1>1, <1>3, <3>1
  <2> QED
    BY <1>2, <2>1 DEF IsInjective
<1>5. Range(r) = Range(s) \ {s[1]}
  <2>1. ASSUME NEW a \in 1 .. n - 1 PROVE r[a] \in Range(s) \ {s[1]}
    <3>1. a + 1 \in 1 .. n /\ a + 1 # 1 /\ 1 \in 1 .. n /\ r[a] = s[a + 1]
      BY <1>1, <1>2, <2>1
    <3> QED
      BY <1>1, <1>3, <3>1 DEF Range
  <2>2. ASSUME NEW a \in 1 .. n, s[a] # s[1] PROVE s[a] \in Range(r)
    <3>1. a - 1 \in 1 .. n - 1 /\ (a - 1) + 1 = a
      BY <1>1, <2>2
    <3>2. r[a - 1] = s[a]
      BY <1>2, <3>1
    <3> QED
      BY <1>2, <3>1, <3>2 DEF Range
  <2> QED
    BY <1>1, <1>2, <2>1, <2>2, ZenonT(30) DEF Range
<1>6. s[1] \in Range(s)
  BY <1>1 DEF Range
<1> QED
  BY <1>1, <1>2, <1>4, <1>5, <1>6 DEF r

\* Pushing a new element to the back of a queue without duplicates.
LEMMA PushBack ==
  ASSUME NEW S, NEW s \in Seq(S), IsInjective(s), NEW x \in S, x \notin Range(s)
  PROVE  /\ Append(s, x) \in Seq(S) /\ IsInjective(Append(s, x))
         /\ Range(Append(s, x)) = Range(s) \cup {x}
<1> DEFINE n == Len(s)
           r == Append(s, x)
<1>1. n \in Nat /\ DOMAIN s = 1 .. n
  OBVIOUS
<1>2. /\ r \in Seq(S) /\ DOMAIN r = 1 .. n + 1
      /\ \A i \in 1 .. n : r[i] = s[i]
      /\ r[n + 1] = x
  OBVIOUS
<1> HIDE DEF n, r
<1>3. \A i \in 1 .. n : s[i] # x
  BY <1>1 DEF Range
<1>4. IsInjective(r)
  BY <1>1, <1>2, <1>3 DEF IsInjective
<1>5. Range(r) = Range(s) \cup {x}
  <2>1. \A i \in 1 .. n + 1 : r[i] \in Range(s) \cup {x}
    BY <1>1, <1>2 DEF Range
  <2>2. \A i \in 1 .. n : s[i] \in Range(r)
    BY <1>1, <1>2 DEF Range
  <2>3. x \in Range(r)
    BY <1>1, <1>2 DEF Range
  <2> QED
    BY <1>1, <1>2, <2>1, <2>2, <2>3 DEF Range
<1> QED
  BY <1>2, <1>4, <1>5 DEF r

\* Removing an element anywhere from a queue without duplicates.
LEMMA TakeOut ==
  ASSUME NEW S, NEW s \in Seq(S), IsInjective(s), NEW p \in 1 .. Len(s)
  PROVE  /\ RemoveAt(s, p) \in Seq(S) /\ IsInjective(RemoveAt(s, p))
         /\ Range(RemoveAt(s, p)) = Range(s) \ {s[p]}
<1> DEFINE n == Len(s)
           r == RemoveAt(s, p)
<1>1. n \in Nat /\ DOMAIN s = 1 .. n /\ p \in 1 .. n
  OBVIOUS
<1>2. /\ r \in Seq(S) /\ DOMAIN r = 1 .. n - 1
      /\ \A i \in 1 .. n - 1 : r[i] = IF i < p THEN s[i] ELSE s[i + 1]
  BY RemoveAtProperties
<1> HIDE DEF n, r
<1>3. \A a, b \in 1 .. n : s[a] = s[b] => a = b
  BY <1>1 DEF IsInjective
<1> DEFINE q(i) == IF i < p THEN i ELSE i + 1
<1>4. \A i \in 1 .. n - 1 : q(i) \in 1 .. n /\ q(i) # p /\ r[i] = s[q(i)]
  BY <1>1, <1>2
<1>5. IsInjective(r)
  <2>1. ASSUME NEW a \in 1 .. n - 1, NEW b \in 1 .. n - 1, r[a] = r[b] PROVE a = b
    <3>1. q(a) = q(b)
      BY <1>3, <1>4, <2>1
    <3> QED
      BY <1>1, <3>1
  <2> QED
    BY <1>2, <2>1 DEF IsInjective
<1>6. Range(r) = Range(s) \ {s[p]}
  <2>1. ASSUME NEW i \in 1 .. n - 1 PROVE r[i] \in Range(s) \ {s[p]}
    BY <1>1, <1>3, <1>4, Zenon DEF Range
  <2>2. ASSUME NEW a \in 1 .. n, s[a] # s[p] PROVE s[a] \in Range(r)
    <3>1. PICK i \in 1 .. n - 1 : q(i) = a
      <4>1. CASE a < p
        <5>1. a \in 1 .. n - 1 /\ q(a) = a
          BY <1>1, <4>1
        <5> QED
          BY <5>1
      <4>2. CASE a > p
        <5>1. a - 1 \in 1 .. n - 1 /\ q(a - 1) = a
          BY <1>1, <4>2
        <5> QED
          BY <5>1
      <4> QED
        BY <1>1, <2>2, <4>1, <4>2
    <3>2. r[i] = s[a]
      BY <1>4, <3>1
    <3> QED
      BY <1>2, <3>2 DEF Range
  <2> QED
    BY <1>1, <1>2, <2>1, <2>2, Zenon DEF Range
<1> QED
  BY <1>2, <1>5, <1>6 DEF r

-----------------------------------------------------------------------------
(* What the tasks know of the state *)

\* A counter that is about to be decremented is not zero: the socket that is
\* given back was counted.
CountedBefore ==
  /\ \A t \in Clients : pc[t] = "serving" => active[key[t]] > 0
  /\ \A c \in Conns : place[c] # "closed" => total > 0

\* A task that has a client has a key; the head of an idle queue is a pooled
\* socket of that key; the head of a Notify queue is a parked task.
LEMMA HeadFacts ==
  ASSUME IInv
  PROVE  /\ \A t \in Clients : pc[t] # "absent" => key[t] \in Keys
         /\ \A k \in Keys : idle[k] # <<>> =>
              /\ Head(idle[k]) \in Conns
              /\ place[Head(idle[k])] = "idle"
              /\ keyOf[Head(idle[k])] = k
         /\ \A k \in Keys : waiters[k] # <<>> =>
              /\ Head(waiters[k]) \in Clients
              /\ pc[Head(waiters[k])] = "parked"
              /\ key[Head(waiters[k])] = k
<1>1. \A t \in Clients : pc[t] # "absent" => key[t] \in Keys
  BY DEF IInv, TypeOK, Waiting
<1>2. ASSUME NEW k \in Keys, idle[k] # <<>>
      PROVE  /\ Head(idle[k]) \in Conns
             /\ place[Head(idle[k])] = "idle"
             /\ keyOf[Head(idle[k])] = k
  <2>1. Head(idle[k]) \in Range(idle[k])
    BY <1>2, PopFront DEF IInv, TypeOK, Ownership, QueueOwnership
  <2> QED
    BY <2>1 DEF IInv, Ownership, QueueOwnership
<1>3. ASSUME NEW k \in Keys, waiters[k] # <<>>
      PROVE  /\ Head(waiters[k]) \in Clients
             /\ pc[Head(waiters[k])] = "parked"
             /\ key[Head(waiters[k])] = k
  <2>1. Head(waiters[k]) \in Range(waiters[k]) /\ Head(waiters[k]) \in Clients
    BY <1>3, PopFront DEF IInv, TypeOK, Waiting
  <2> QED
    BY <2>1 DEF IInv, Waiting
<1> QED
  BY <1>1, <1>2, <1>3

-----------------------------------------------------------------------------
(* Every step keeps the types *)

\* A notification moves a task and changes the Notify, within their types.
LEMMA NotifyTypes ==
  ASSUME IInv, NEW t \in Clients, pc[t] # "absent", NotifyOneAndLeave(t)
  PROVE  /\ permit' \in [Keys -> BOOLEAN]
         /\ waiters' \in [Keys -> Seq(Clients)]
         /\ pc' \in [Clients -> PC]
         /\ key' \in [Clients -> Keys \cup {NoKey}]
         /\ conn' \in [Clients -> Conns \cup {NoConn}]
<1> DEFINE k == key[t]
<1>1. TypeOK /\ k \in Keys
  BY HeadFacts DEF IInv
<1>2. key' \in [Clients -> Keys \cup {NoKey}] /\ conn' \in [Clients -> Conns \cup {NoConn}]
  BY <1>1 DEF TypeOK, NotifyOneAndLeave
<1>3. CASE waiters[k] = <<>>
  BY <1>1, <1>2, <1>3, Zenon DEF TypeOK, NotifyOneAndLeave, PC
<1>4. CASE waiters[k] # <<>>
  <2>1. Tail(waiters[k]) \in Seq(Clients)
    BY <1>1, <1>4 DEF TypeOK
  <2>2. waiters' \in [Keys -> Seq(Clients)]
    BY <1>1, <1>4, <2>1, Zenon DEF TypeOK, NotifyOneAndLeave
  <2> QED
    BY <1>1, <1>2, <1>4, <2>2, ZenonT(30) DEF TypeOK, NotifyOneAndLeave, PC, Before
<1> QED
  BY <1>3, <1>4

\* The steps of Next, one by one.
LEMMA TypeStep ==
  ASSUME IInv, CountedBefore, [Next]_vars
  PROVE  TypeOK'
<1> USE HeadFacts DEF TypeOK, queueVars, countVars, notifyVars, sockVars, localVars,
      PC, Before, Places
<1>0. TypeOK
  BY DEF IInv
<1>1. ASSUME NEW t \in Clients, NEW k \in Keys, Accept(t, k) PROVE TypeOK'
  BY <1>0, <1>1 DEF Accept, Goto
<1>2. ASSUME NEW t \in Clients, LockIdle(t) PROVE TypeOK'
  BY <1>0, <1>2 DEF LockIdle, Goto
<1>3. ASSUME NEW t \in Clients, EvictHead(t) PROVE TypeOK'
  BY <1>0, <1>3, SMTT(30) DEF CountedBefore, EvictHead, CloseCounted
<1>4. ASSUME NEW t \in Clients, TakeHead(t) PROVE TypeOK'
  BY <1>0, <1>4, SMTT(30) DEF TakeHead, Goto, EndAcquire
<1>5. ASSUME NEW t \in Clients, ScanEmpty(t) PROVE TypeOK'
  BY <1>0, <1>5 DEF ScanEmpty, Goto
<1>6. ASSUME NEW t \in Clients, LoadTotal(t) PROVE TypeOK'
  BY <1>0, <1>6 DEF LoadTotal, Goto
<1>7. ASSUME NEW t \in Clients, LoadActive(t) PROVE TypeOK'
  BY <1>0, <1>7 DEF LoadActive, Goto
<1>8. ASSUME NEW t \in Clients, GoConnect(t) PROVE TypeOK'
  BY <1>0, <1>8 DEF GoConnect, Goto
<1>9. ASSUME NEW t \in Clients, GoWait(t) PROVE TypeOK'
  BY <1>0, <1>9 DEF GoWait, Goto
<1>10. ASSUME NEW t \in Clients, BailAtLimit(t) PROVE TypeOK'
  BY <1>0, <1>10, SMTT(30) DEF BailAtLimit, FailAcquire, Leave, Goto, EndAcquire
<1>11. ASSUME NEW t \in Clients, Poll(t) PROVE TypeOK'
  <2>1. key[t] \in Keys
    BY <1>0, <1>11 DEF Poll
  <2>2. CASE permit[key[t]]
    <3>1. /\ permit' = [permit EXCEPT ![key[t]] = FALSE]
          /\ UNCHANGED waiters
          /\ pc' = [pc EXCEPT ![t] = "try"]
      BY <1>11, <2>2, Zenon DEF Poll, Goto
    <3>2. permit' \in [Keys -> BOOLEAN]
      BY <1>0, <3>1, Zenon
    <3> QED
      BY <1>0, <1>11, <3>1, <3>2 DEF Poll
  <2>3. CASE ~permit[key[t]]
    <3>1. /\ waiters' = [waiters EXCEPT ![key[t]] = Append(waiters[key[t]], t)]
          /\ UNCHANGED permit
          /\ pc' = [pc EXCEPT ![t] = "parked"]
      BY <1>11, <2>3, Zenon DEF Poll, Goto
    <3>2. Append(waiters[key[t]], t) \in Seq(Clients)
      BY <1>0, <2>1
    <3>3. waiters' \in [Keys -> Seq(Clients)]
      BY <1>0, <3>1, <3>2, Zenon
    <3> QED
      BY <1>0, <1>11, <3>1, <3>3 DEF Poll
  <2> QED
    BY <2>2, <2>3
<1>12. ASSUME NEW t \in Clients, Resume(t) PROVE TypeOK'
  BY <1>0, <1>12 DEF Resume, Goto
<1>13. ASSUME NEW t \in Clients, DeadlinePasses(t) PROVE TypeOK'
  BY <1>0, <1>13 DEF DeadlinePasses
<1>14. ASSUME NEW t \in Clients, TimeOut(t) PROVE TypeOK'
  <2>1. key[t] \in Keys
    BY <1>0, <1>14 DEF TimeOut
  <2>2. waiters' \in [Keys -> Seq(Clients)]
    <3>1. CASE UNCHANGED waiters
      BY <1>0, <3>1
    <3>2. ASSUME NEW i \in 1 .. Len(waiters[key[t]]),
                 waiters' = [waiters EXCEPT ![key[t]] = RemoveAt(@, i)]
          PROVE  waiters' \in [Keys -> Seq(Clients)]
      <4>1. RemoveAt(waiters[key[t]], i) \in Seq(Clients)
        BY <1>0, <2>1, RemoveAtProperties, SMTT(30)
      <4> QED
        BY <1>0, <2>1, <3>2, <4>1, SMTT(30)
    <3> QED
      BY <1>14, <3>1, <3>2 DEF TimeOut
  <2> QED
    BY <1>0, <1>14, <2>1, <2>2 DEF TimeOut, FailAcquire, Leave, Goto, EndAcquire
<1>15. ASSUME NEW t \in Clients, TimeOutNotified(t) PROVE TypeOK'
  <2>1. pc[t] # "absent" /\ NotifyOneAndLeave(t)
    BY <1>15 DEF TimeOutNotified
  <2> QED
    BY <1>0, <1>15, <2>1, NotifyTypes, SMTT(30) DEF TimeOutNotified, EndAcquire
<1>16. ASSUME NEW t \in Clients, NEW c \in Conns, ConnectOk(t, c) PROVE TypeOK'
  BY <1>0, <1>16, SMTT(30) DEF ConnectOk, Goto, EndAcquire
<1>17. ASSUME NEW t \in Clients, ConnectErr(t) PROVE TypeOK'
  BY <1>0, <1>17 DEF ConnectErr, FailAcquire, Leave, Goto, EndAcquire
<1>18. ASSUME NEW t \in Clients, Release(t) PROVE TypeOK'
  <2>1. key[t] \in Keys /\ active[key[t]] \in Nat /\ active[key[t]] > 0 /\ conn[t] \in Conns
    BY <1>0, <1>18, SMTT(30) DEF CountedBefore, Release, IInv, Ownership, TaskOwnership
  <2>2. active[key[t]] - 1 \in Nat
    BY <2>1
  <2> QED
    BY <1>0, <1>18, <2>1, <2>2, SMTT(30) DEF Release, Goto
<1>19. ASSUME NEW t \in Clients, DropOnError(t) PROVE TypeOK'
  BY <1>0, <1>19, ZenonT(30) DEF DropOnError, Leave, Goto
<1>20. ASSUME NEW t \in Clients, ResetOk(t) PROVE TypeOK'
  <2>1. key[t] \in Keys /\ conn[t] \in Conns
    BY <1>0, <1>20, SMTT(30) DEF ResetOk, IInv, Ownership, TaskOwnership
  <2>2. Append(idle[key[t]], conn[t]) \in Seq(Conns)
    BY <1>0, <2>1, SMTT(30)
  <2> QED
    BY <1>0, <1>20, <2>1, <2>2, SMTT(30) DEF ResetOk, Goto
<1>21. ASSUME NEW t \in Clients, ResetErr(t) PROVE TypeOK'
  <2>1. conn[t] \in Conns /\ place[conn[t]] # "closed"
    BY <1>0, <1>21 DEF ResetErr, IInv, Ownership, TaskOwnership
  <2>2. total - 1 \in Nat
    BY <1>0, <2>1 DEF CountedBefore
  <2> QED
    BY <1>0, <1>21, <2>1, <2>2, SMTT(30) DEF ResetErr, CloseCounted, Leave, Goto
<1>22. ASSUME NEW t \in Clients, NotifyReturned(t) PROVE TypeOK'
  <2>1. pc[t] # "absent" /\ NotifyOneAndLeave(t)
    BY <1>22 DEF NotifyReturned
  <2> QED
    BY <1>0, <1>22, <2>1, NotifyTypes DEF NotifyReturned
<1>23. ASSUME NEW c \in Conns, Expire(c) PROVE TypeOK'
  BY <1>0, <1>23 DEF Expire
<1>24. CASE UNCHANGED vars
  BY <1>0, <1>24 DEF vars
<1> QED
  BY <1>1, <1>2, <1>3, <1>4, <1>5, <1>6, <1>7, <1>8, <1>9, <1>10, <1>11, <1>12,
     <1>13, <1>14, <1>15, <1>16, <1>17, <1>18, <1>19, <1>20, <1>21, <1>22, <1>23, <1>24,
     Zenon DEF Next

-----------------------------------------------------------------------------
(* Every step keeps the Notify queues in order *)

\* Task t moves from a point other than parked, keeping its key unless it
\* ends, and no Notify queue changes.
LEMMA WaitingMove ==
  ASSUME TypeOK, Waiting, NEW t \in Clients, pc[t] # "parked", NEW l, NEW k,
         l = "absent" <=> k = NoKey,
         pc' = [pc EXCEPT ![t] = l], key' = [key EXCEPT ![t] = k], UNCHANGED waiters
  PROVE  Waiting'
<1>1. \A u \in Clients : pc'[u] = "absent" <=> key'[u] = NoKey
  BY DEF TypeOK, Waiting
<1>2. ASSUME NEW j \in Keys, NEW u \in Range(waiters[j])
      PROVE  pc'[u] = "parked" /\ key'[u] = j
  <2>1. u # t /\ pc[u] = "parked" /\ key[u] = j
    BY DEF Waiting
  <2>2. u \in Clients
    BY DEF TypeOK, Range
  <2> QED
    BY <2>1, <2>2, SMTT(30) DEF TypeOK
<1> QED
  BY <1>1, <1>2 DEF Waiting

\* notify_one takes the first waiter out of its queue, and t ends.
LEMMA WaitingNotify ==
  ASSUME IInv, NEW t \in Clients, pc[t] \notin {"absent", "parked"}, NotifyOneAndLeave(t)
  PROVE  Waiting'
<1> DEFINE k == key[t]
<1>1. TypeOK /\ Waiting /\ k \in Keys
  BY HeadFacts DEF IInv
<1>2. CASE waiters[k] = <<>>
  BY <1>1, <1>2, WaitingMove, Zenon DEF NotifyOneAndLeave
<1>3. CASE waiters[k] # <<>>
  <2> DEFINE h == Head(waiters[k])
  <2>1. /\ waiters' = [waiters EXCEPT ![k] = Tail(waiters[k])]
        /\ pc' = [pc EXCEPT ![t] = "absent", ![h] = "woken"]
        /\ key' = [key EXCEPT ![t] = NoKey]
    BY <1>3 DEF NotifyOneAndLeave
  <2>2. h \in Clients /\ pc[h] = "parked" /\ key[h] = k /\ h # t
    BY <1>1, <1>3, HeadFacts, SMTT(30)
  <2>3. /\ IsInjective(waiters'[k]) /\ Range(waiters'[k]) = Range(waiters[k]) \ {h}
        /\ \A j \in Keys \ {k} : waiters'[j] = waiters[j]
    <3>1. waiters'[k] = Tail(waiters[k]) /\ \A j \in Keys \ {k} : waiters'[j] = waiters[j]
      BY <1>1, <2>1 DEF TypeOK
    <3> QED
      BY <1>1, <1>3, <3>1, PopFront DEF TypeOK, Waiting
  <2>4. \A u \in Clients : pc'[u] = "absent" <=> key'[u] = NoKey
    BY <1>1, <2>1, <2>2, SMTT(30) DEF TypeOK, Waiting
  <2>5. ASSUME NEW j \in Keys, NEW u \in Range(waiters'[j])
        PROVE  pc'[u] = "parked" /\ key'[u] = j
    <3>1. u \in Range(waiters[j]) /\ u # h
      BY <1>1, <2>2, <2>3 DEF Waiting
    <3>2. pc[u] = "parked" /\ key[u] = j /\ u # t
      BY <1>1, <3>1 DEF Waiting
    <3>3. u \in Clients
      BY <1>1, <3>1 DEF TypeOK, Range
    <3> QED
      BY <1>1, <2>1, <3>1, <3>2, <3>3, SMTT(30) DEF TypeOK
  <2>6. \A j \in Keys : IsInjective(waiters'[j])
    BY <1>1, <2>3 DEF Waiting
  <2> QED
    BY <2>4, <2>5, <2>6 DEF Waiting
<1> QED
  BY <1>2, <1>3
\* The steps of Next, one by one.
LEMMA WaitingStep ==
  ASSUME IInv, [Next]_vars
  PROVE  Waiting'
<1> USE DEF notifyVars
<1>0. TypeOK /\ Waiting /\ \A t \in Clients : key = [key EXCEPT ![t] = key[t]]
  BY DEF IInv, TypeOK
<1>u. ASSUME UNCHANGED <<pc, key, waiters>> PROVE Waiting'
  BY <1>0, <1>u DEF Waiting
<1>m. ASSUME NEW t \in Clients, NEW l, l # "absent", pc[t] \notin {"absent", "parked"},
             pc' = [pc EXCEPT ![t] = l], UNCHANGED <<key, waiters>>
      PROVE  Waiting'
  <2>1. key[t] # NoKey
    BY <1>0, <1>m DEF Waiting
  <2> QED
    BY <1>0, <1>m, <2>1, WaitingMove, Zenon
<1>1. ASSUME NEW t \in Clients, NEW k \in Keys, Accept(t, k) PROVE Waiting'
  <2>1. k # NoKey
    BY PoolAssumption
  <2> QED
    BY <1>0, <1>1, <2>1, WaitingMove, Zenon DEF Accept, Goto
<1>2. ASSUME NEW t \in Clients, LockIdle(t) PROVE Waiting'
  BY <1>2, <1>m, Zenon DEF LockIdle, Goto
<1>3. ASSUME NEW t \in Clients, EvictHead(t) PROVE Waiting'
  BY <1>3, <1>u DEF EvictHead
<1>4. ASSUME NEW t \in Clients, TakeHead(t) PROVE Waiting'
  BY <1>4, <1>m, Zenon DEF TakeHead, Goto
<1>5. ASSUME NEW t \in Clients, ScanEmpty(t) PROVE Waiting'
  BY <1>5, <1>m, Zenon DEF ScanEmpty, Goto
<1>6. ASSUME NEW t \in Clients, LoadTotal(t) PROVE Waiting'
  BY <1>6, <1>m, Zenon DEF LoadTotal, Goto
<1>7. ASSUME NEW t \in Clients, LoadActive(t) PROVE Waiting'
  BY <1>7, <1>m, Zenon DEF LoadActive, Goto
<1>8. ASSUME NEW t \in Clients, GoConnect(t) PROVE Waiting'
  BY <1>8, <1>m, Zenon DEF GoConnect, Goto
<1>9. ASSUME NEW t \in Clients, GoWait(t) PROVE Waiting'
  BY <1>9, <1>m, Zenon DEF GoWait, Goto
<1>10. ASSUME NEW t \in Clients, BailAtLimit(t) PROVE Waiting'
  BY <1>0, <1>10, WaitingMove, Zenon DEF BailAtLimit, FailAcquire, Leave, Goto
<1>11. ASSUME NEW t \in Clients, Poll(t) PROVE Waiting'
  <2> DEFINE k == key[t]
  <2>1. k \in Keys /\ pc[t] = "wait"
    BY <1>11, HeadFacts DEF Poll
  <2>2. CASE permit[k]
    <3>1. pc' = [pc EXCEPT ![t] = "try"] /\ UNCHANGED <<key, waiters>>
      BY <1>11, <2>2, Zenon DEF Poll, Goto
    <3> QED
      BY <1>m, <2>1, <3>1, Zenon
  <2>3. CASE ~permit[k]
    <3>1. /\ waiters' = [waiters EXCEPT ![k] = Append(waiters[k], t)]
          /\ pc' = [pc EXCEPT ![t] = "parked"]
          /\ UNCHANGED key
      BY <1>11, <2>3, Zenon DEF Poll, Goto
    <3>2. t \notin Range(waiters[k])
      BY <1>0, <2>1, SMTT(30) DEF Waiting
    <3>3. /\ IsInjective(waiters'[k]) /\ Range(waiters'[k]) = Range(waiters[k]) \cup {t}
          /\ \A j \in Keys \ {k} : waiters'[j] = waiters[j]
      <4>1. waiters'[k] = Append(waiters[k], t) /\ \A j \in Keys \ {k} : waiters'[j] = waiters[j]
        BY <1>0, <2>1, <3>1 DEF TypeOK
      <4> QED
        BY <1>0, <2>1, <3>2, <4>1, PushBack DEF TypeOK, Waiting
    <3>4. ASSUME NEW j \in Keys, NEW u \in Range(waiters'[j])
          PROVE  pc'[u] = "parked" /\ key'[u] = j
      <4>1. CASE u = t /\ j = k
        BY <1>0, <3>1, <4>1 DEF TypeOK
      <4>2. CASE u \in Range(waiters[j])
        <5>1. pc[u] = "parked" /\ key[u] = j
          BY <1>0, <4>2, SMTT(30) DEF Waiting
        <5>2. u \in Clients
          BY <1>0, <4>2, SMTT(30) DEF TypeOK, Range
        <5> QED
          BY <1>0, <3>1, <5>1, <5>2 DEF TypeOK
      <4> QED
        BY <3>3, <4>1, <4>2
    <3>5. \A u \in Clients : pc'[u] = "absent" <=> key'[u] = NoKey
      BY <1>0, <2>1, <3>1 DEF TypeOK, Waiting
    <3>6. \A j \in Keys : IsInjective(waiters'[j])
      BY <1>0, <3>3 DEF Waiting
    <3> QED
      BY <3>4, <3>5, <3>6 DEF Waiting
  <2> QED
    BY <2>2, <2>3
<1>12. ASSUME NEW t \in Clients, Resume(t) PROVE Waiting'
  BY <1>12, <1>m, Zenon DEF Resume, Goto
<1>13. ASSUME NEW t \in Clients, DeadlinePasses(t) PROVE Waiting'
  BY <1>13, <1>u DEF DeadlinePasses
<1>14. ASSUME NEW t \in Clients, TimeOut(t) PROVE Waiting'
  <2> DEFINE k == key[t]
  <2>1. /\ pc' = [pc EXCEPT ![t] = "absent"]
        /\ key' = [key EXCEPT ![t] = NoKey]
    BY <1>14 DEF TimeOut, FailAcquire, Leave, Goto
  <2>2. CASE pc[t] = "wait" /\ UNCHANGED waiters
    BY <1>0, <2>1, <2>2, WaitingMove, ZenonT(30)
  <2>3. ASSUME pc[t] = "parked", NEW p \in 1 .. Len(waiters[k]), waiters[k][p] = t,
               waiters' = [waiters EXCEPT ![k] = RemoveAt(@, p)]
        PROVE  Waiting'
    <3>1. k \in Keys
      BY <2>3, HeadFacts, SMTT(30)
    <3>2. /\ IsInjective(waiters'[k]) /\ Range(waiters'[k]) = Range(waiters[k]) \ {t}
          /\ \A j \in Keys \ {k} : waiters'[j] = waiters[j]
      <4>1. waiters'[k] = RemoveAt(waiters[k], p) /\ \A j \in Keys \ {k} : waiters'[j] = waiters[j]
        BY <1>0, <2>3, <3>1 DEF TypeOK
      <4> QED
        BY <1>0, <2>3, <3>1, <4>1, TakeOut, SMTT(30) DEF TypeOK, Waiting
    <3>3. ASSUME NEW j \in Keys, NEW u \in Range(waiters'[j])
          PROVE  pc'[u] = "parked" /\ key'[u] = j
      <4>1. u \in Range(waiters[j]) /\ pc[u] = "parked" /\ key[u] = j
        BY <1>0, <3>2 DEF Waiting
      <4>2. u # t
        BY <3>2, <4>1, SMTT(30)
      <4>3. u \in Clients
        BY <1>0, <4>1, SMTT(30) DEF TypeOK, Range
      <4> QED
        BY <1>0, <2>1, <4>1, <4>2, <4>3 DEF TypeOK
    <3>4. \A u \in Clients : pc'[u] = "absent" <=> key'[u] = NoKey
      BY <1>0, <2>1 DEF TypeOK, Waiting
    <3>5. \A j \in Keys : IsInjective(waiters'[j])
      BY <1>0, <3>2, SMTT(30) DEF Waiting
    <3> QED
      BY <3>3, <3>4, <3>5, SMTT(30) DEF Waiting
  <2> QED
    BY <1>14, <2>2, <2>3, SMTT(30) DEF TimeOut
<1>15. ASSUME NEW t \in Clients, TimeOutNotified(t) PROVE Waiting'
  BY <1>15, WaitingNotify, Zenon DEF TimeOutNotified
<1>16. ASSUME NEW t \in Clients, NEW c \in Conns, ConnectOk(t, c) PROVE Waiting'
  BY <1>16, <1>m, Zenon DEF ConnectOk, Goto
<1>17. ASSUME NEW t \in Clients, ConnectErr(t) PROVE Waiting'
  BY <1>0, <1>17, WaitingMove, Zenon DEF ConnectErr, FailAcquire, Leave, Goto
<1>18. ASSUME NEW t \in Clients, Release(t) PROVE Waiting'
  BY <1>18, <1>m, Zenon DEF Release, Goto
<1>19. ASSUME NEW t \in Clients, DropOnError(t) PROVE Waiting'
  BY <1>0, <1>19, WaitingMove, Zenon DEF DropOnError, Leave, Goto
<1>20. ASSUME NEW t \in Clients, ResetOk(t) PROVE Waiting'
  BY <1>20, <1>m, Zenon DEF ResetOk, Goto
<1>21. ASSUME NEW t \in Clients, ResetErr(t) PROVE Waiting'
  BY <1>0, <1>21, WaitingMove, Zenon DEF ResetErr, Leave, Goto
<1>22. ASSUME NEW t \in Clients, NotifyReturned(t) PROVE Waiting'
  BY <1>22, WaitingNotify DEF NotifyReturned
<1>23. ASSUME NEW c \in Conns, Expire(c) PROVE Waiting'
  BY <1>23, <1>u DEF Expire
<1>24. CASE UNCHANGED vars
  BY <1>24, <1>u DEF vars
<1> QED
  BY <1>1, <1>2, <1>3, <1>4, <1>5, <1>6, <1>7, <1>8, <1>9, <1>10, <1>11, <1>12,
     <1>13, <1>14, <1>15, <1>16, <1>17, <1>18, <1>19, <1>20, <1>21, <1>22, <1>23, <1>24,
     SMTT(30) DEF Next

-----------------------------------------------------------------------------
(* Every step keeps each socket in one place *)

\* No socket and no queue is touched, and only tasks that own nothing move.
LEMMA OwnershipQuiet ==
  ASSUME TypeOK, Ownership, UNCHANGED <<idle, expired, place, keyOf, conn>>,
         \A t \in Clients :
           \/ pc'[t] = pc[t] /\ key'[t] = key[t]
           \/ pc[t] \notin {"serving", "reset"} /\ pc'[t] \notin {"serving", "reset"}
  PROVE  Ownership'
<1>1. QueueOwnership'
  BY DEF Ownership, QueueOwnership
<1>2. TaskOwnership'
  BY DEF Ownership, TaskOwnership
<1>3. SocketOwnership'
  BY DEF Ownership, SocketOwnership
<1> QED
  BY <1>1, <1>2, <1>3 DEF Ownership

\* Outside serving and reset a task owns no socket.
LEMMA OwnsNothing ==
  ASSUME TypeOK, Ownership, NEW t \in Clients, pc[t] \notin {"serving", "reset"}
  PROVE  conn[t] = NoConn
  BY DEF TypeOK, Ownership, TaskOwnership

\* A task that owns nothing moves to another such point, or ends.
LEMMA OwnershipMove ==
  ASSUME TypeOK, Ownership, NEW t \in Clients, NEW l,
         pc[t] \notin {"serving", "reset"}, l \notin {"serving", "reset"},
         UNCHANGED <<idle, expired, place, keyOf>>,
         pc' = [pc EXCEPT ![t] = l],
         \A u \in Clients : u = t \/ key'[u] = key[u],
         conn' = [conn EXCEPT ![t] = NoConn] \/ UNCHANGED conn
  PROVE  Ownership'
<1>1. conn[t] = NoConn
  BY OwnsNothing
<1>2. UNCHANGED conn
  BY <1>1, Zenon DEF TypeOK
<1> QED
  BY <1>2, OwnershipQuiet, SMTT(30) DEF TypeOK

\* The same when a parked task is woken.
LEMMA OwnershipNotify ==
  ASSUME IInv, NEW t \in Clients, pc[t] \notin {"absent", "serving", "reset"},
         NotifyOneAndLeave(t), UNCHANGED <<idle, expired, place, keyOf>>
  PROVE  Ownership'
<1> DEFINE k == key[t]
<1>1. TypeOK /\ Ownership /\ k \in Keys
  BY HeadFacts DEF IInv
<1>2. CASE waiters[k] = <<>>
  <2>1. /\ pc' = [pc EXCEPT ![t] = "absent"]
        /\ key' = [key EXCEPT ![t] = NoKey]
        /\ conn' = [conn EXCEPT ![t] = NoConn]
    BY <1>2 DEF NotifyOneAndLeave
  <2> QED
    BY <1>1, <2>1, OwnershipMove, Zenon DEF TypeOK
<1>3. CASE waiters[k] # <<>>
  <2> DEFINE h == Head(waiters[k])
  <2>1. /\ pc' = [pc EXCEPT ![t] = "absent", ![h] = "woken"]
        /\ key' = [key EXCEPT ![t] = NoKey]
        /\ conn' = [conn EXCEPT ![t] = NoConn]
    BY <1>3 DEF NotifyOneAndLeave
  <2>2. h \in Clients /\ pc[h] = "parked"
    BY <1>1, <1>3, HeadFacts
  <2>3. conn[t] = NoConn
    BY <1>1, OwnsNothing
  <2>4. UNCHANGED conn
    BY <1>1, <2>1, <2>3 DEF TypeOK
  <2>5. \A u \in Clients :
          \/ pc'[u] = pc[u] /\ key'[u] = key[u]
          \/ pc[u] \notin {"serving", "reset"} /\ pc'[u] \notin {"serving", "reset"}
    BY <1>1, <2>1, <2>2, SMTT(30) DEF TypeOK
  <2> QED
    BY <1>1, <2>4, <2>5, OwnershipQuiet
<1> QED
  BY <1>2, <1>3

\* Evicting the head of a queue closes a pooled socket.
LEMMA OwnershipEvict ==
  ASSUME IInv, NEW t \in Clients, EvictHead(t)
  PROVE  Ownership'
<1> DEFINE k == key[t]
           c == Head(idle[k])
<1>1. TypeOK /\ Ownership /\ k \in Keys /\ idle[k] # <<>>
  BY HeadFacts DEF IInv, EvictHead
<1>2. c \in Conns /\ place[c] = "idle" /\ keyOf[c] = k
  BY <1>1, HeadFacts
<1>3. /\ idle' = [idle EXCEPT ![k] = Tail(idle[k])]
      /\ expired' = expired \ {c}
      /\ place' = [place EXCEPT ![c] = "closed"]
      /\ keyOf' = [keyOf EXCEPT ![c] = NoKey]
      /\ UNCHANGED <<pc, key, conn>>
  BY DEF EvictHead, CloseCounted
<1> HIDE DEF c
<1>4. QueueOwnership'
  <2>1. ASSUME NEW j \in Keys
        PROVE  /\ Range(idle'[j]) = {d \in Conns : place'[d] = "idle" /\ keyOf'[d] = j}
               /\ IsInjective(idle'[j])
    <3>1. CASE j = k
      <4>1. idle'[j] = Tail(idle[k]) /\ idle[k] \in Seq(Conns) /\ IsInjective(idle[k])
        BY <1>1, <1>3, <3>1, Zenon DEF TypeOK, Ownership, QueueOwnership
      <4>2. Range(idle'[j]) = Range(idle[k]) \ {c} /\ IsInjective(idle'[j])
        BY <1>1, <4>1, PopFront DEF c
      <4> QED
        BY <1>1, <1>2, <1>3, <3>1, <4>2, SMTT(30) DEF TypeOK, Ownership, QueueOwnership
    <3>2. CASE j # k
      BY <1>1, <1>2, <1>3, <3>2, SMTT(30) DEF TypeOK, Ownership, QueueOwnership
    <3> QED
      BY <3>1, <3>2, SMTT(30)
  <2> QED
    BY <2>1 DEF QueueOwnership
<1>5. TaskOwnership'
  BY <1>1, <1>2, <1>3, SMTT(30) DEF TypeOK, Ownership, TaskOwnership
<1>6. SocketOwnership'
  BY <1>1, <1>2, <1>3, PoolAssumption, SMTT(30) DEF TypeOK, Ownership, SocketOwnership
<1> QED
  BY <1>4, <1>5, <1>6, SMTT(30) DEF Ownership

\* Taking the head of a queue gives a pooled socket to one task.
LEMMA OwnershipTake ==
  ASSUME IInv, NEW t \in Clients, TakeHead(t)
  PROVE  Ownership'
<1> DEFINE k == key[t]
           c == Head(idle[k])
<1>1. TypeOK /\ Ownership /\ k \in Keys /\ idle[k] # <<>> /\ c \notin expired /\ pc[t] = "scan"
  BY HeadFacts DEF IInv, TakeHead
<1>2. c \in Conns /\ place[c] = "idle" /\ keyOf[c] = k
  BY <1>1, HeadFacts
<1>3. /\ idle' = [idle EXCEPT ![k] = Tail(idle[k])]
      /\ place' = [place EXCEPT ![c] = "held"]
      /\ conn' = [conn EXCEPT ![t] = c]
      /\ pc' = [pc EXCEPT ![t] = "serving"]
      /\ UNCHANGED <<expired, keyOf, key>>
  BY SMTT(30) DEF TakeHead, Goto
<1> HIDE DEF c
<1>4. QueueOwnership'
  <2>1. ASSUME NEW j \in Keys
        PROVE  /\ Range(idle'[j]) = {d \in Conns : place'[d] = "idle" /\ keyOf'[d] = j}
               /\ IsInjective(idle'[j])
    <3>1. CASE j = k
      <4>1. idle'[j] = Tail(idle[k]) /\ idle[k] \in Seq(Conns) /\ IsInjective(idle[k])
        BY <1>1, <1>3, <3>1, Zenon DEF TypeOK, Ownership, QueueOwnership
      <4>2. Range(idle'[j]) = Range(idle[k]) \ {c} /\ IsInjective(idle'[j])
        BY <1>1, <4>1, PopFront, SMTT(30) DEF c
      <4> QED
        BY <1>1, <1>2, <1>3, <3>1, <4>2 DEF TypeOK, Ownership, QueueOwnership
    <3>2. CASE j # k
      BY <1>1, <1>2, <1>3, <3>2 DEF TypeOK, Ownership, QueueOwnership
    <3> QED
      BY <3>1, <3>2
  <2> QED
    BY <2>1 DEF QueueOwnership
<1>5. \A u \in Clients : conn[u] # c
  BY <1>1, <1>2, Zenon DEF TypeOK, Ownership, TaskOwnership
<1>6. TaskOwnership'
  BY <1>1, <1>2, <1>3, <1>5 DEF TypeOK, Ownership, TaskOwnership
<1>7. conn[t] = NoConn
  BY <1>1, OwnsNothing
<1>8. SocketOwnership'
  <2>1. ASSUME NEW d \in Conns, place'[d] \in {"held", "resetting"}
        PROVE  \E u \in Clients : conn'[u] = d
    <3>1. CASE d = c
      BY <1>1, <1>3, <3>1, SMTT(30) DEF TypeOK
    <3>2. CASE d # c
      <4>1. PICK u \in Clients : conn[u] = d
        BY <1>1, <1>3, <2>1, <3>2 DEF TypeOK, Ownership, SocketOwnership
      <4>2. u # t
        BY <1>7, <4>1, PoolAssumption, SMTT(30)
      <4> QED
        BY <1>1, <1>3, <4>1, <4>2 DEF TypeOK
    <3> QED
      BY <3>1, <3>2
  <2>2. \A d \in Conns : (place'[d] = "closed" <=> keyOf'[d] = NoKey)
                         /\ (d \in expired' => place'[d] = "idle")
    BY <1>1, <1>2, <1>3, SMTT(30) DEF TypeOK, Ownership, SocketOwnership
  <2> QED
    BY <2>1, <2>2 DEF SocketOwnership
<1> QED
  BY <1>4, <1>6, <1>8 DEF Ownership

\* A new socket is given to the task that connected it.
LEMMA OwnershipConnect ==
  ASSUME IInv, NEW t \in Clients, NEW c \in Conns, ConnectOk(t, c)
  PROVE  Ownership'
<1> DEFINE k == key[t]
<1>1. TypeOK /\ Ownership /\ k \in Keys /\ place[c] = "closed" /\ pc[t] = "connect"
  BY HeadFacts DEF IInv, ConnectOk
<1>2. /\ place' = [place EXCEPT ![c] = "held"]
      /\ keyOf' = [keyOf EXCEPT ![c] = k]
      /\ conn' = [conn EXCEPT ![t] = c]
      /\ pc' = [pc EXCEPT ![t] = "serving"]
      /\ UNCHANGED <<idle, expired, key>>
  BY DEF ConnectOk, Goto, queueVars
<1>3. QueueOwnership'
  BY <1>1, <1>2 DEF TypeOK, Ownership, QueueOwnership
<1>4. \A u \in Clients : conn[u] # c
  BY <1>1, ZenonT(30) DEF TypeOK, Ownership, TaskOwnership
<1>5. TaskOwnership'
  BY <1>1, <1>2, <1>4 DEF TypeOK, Ownership, TaskOwnership
<1>6. conn[t] = NoConn
  BY <1>1, OwnsNothing
<1>7. SocketOwnership'
  <2>1. ASSUME NEW d \in Conns, place'[d] \in {"held", "resetting"}
        PROVE  \E u \in Clients : conn'[u] = d
    <3>1. CASE d = c
      BY <1>1, <1>2, <3>1, SMTT(30) DEF TypeOK
    <3>2. CASE d # c
      <4>1. PICK u \in Clients : conn[u] = d
        BY <1>1, <1>2, <2>1, <3>2 DEF TypeOK, Ownership, SocketOwnership
      <4>2. u # t
        BY <1>6, <4>1, PoolAssumption, SMTT(30)
      <4> QED
        BY <1>1, <1>2, <4>1, <4>2 DEF TypeOK
    <3> QED
      BY <3>1, <3>2
  <2>2. \A d \in Conns : (place'[d] = "closed" <=> keyOf'[d] = NoKey)
                         /\ (d \in expired' => place'[d] = "idle")
    BY <1>1, <1>2, PoolAssumption, SMTT(30) DEF TypeOK, Ownership, SocketOwnership
  <2> QED
    BY <2>1, <2>2 DEF SocketOwnership
<1> QED
  BY <1>3, <1>5, <1>7, SMTT(30) DEF Ownership

\* The facts about the socket c that task t serves its client with or resets.
LEMMA OwnsOne ==
  ASSUME IInv, NEW t \in Clients, pc[t] \in {"serving", "reset"}
  PROVE  /\ conn[t] \in Conns /\ key[t] \in Keys /\ keyOf[conn[t]] = key[t]
         /\ pc[t] = "serving" => place[conn[t]] = "held"
         /\ pc[t] = "reset" => place[conn[t]] = "resetting"
         /\ conn[t] \notin expired
         /\ \A u \in Clients : u # t => conn[u] # conn[t]
<1>1. TypeOK /\ Ownership /\ key[t] \in Keys
  BY HeadFacts DEF IInv
<1>2. conn[t] \in Conns /\ keyOf[conn[t]] = key[t]
  BY <1>1 DEF Ownership, TaskOwnership
<1>3. /\ pc[t] = "serving" => place[conn[t]] = "held"
      /\ pc[t] = "reset" => place[conn[t]] = "resetting"
      /\ \A u \in Clients : u # t => conn[u] # conn[t]
  BY <1>1, <1>2 DEF Ownership, TaskOwnership
<1>4. conn[t] \notin expired
  BY <1>1, <1>2, <1>3 DEF Ownership, SocketOwnership
<1> QED
  BY <1>1, <1>2, <1>3, <1>4

\* Task t starts to reset its socket.
LEMMA OwnershipRelease ==
  ASSUME IInv, NEW t \in Clients, Release(t)
  PROVE  Ownership'
<1> DEFINE c == conn[t]
<1>1. TypeOK /\ Ownership /\ pc[t] = "serving"
  BY DEF IInv, Release
<1>2. /\ c \in Conns /\ keyOf[c] = key[t] /\ place[c] = "held" /\ c \notin expired
      /\ \A u \in Clients : u # t => conn[u] # c
  BY <1>1, OwnsOne
<1>3. /\ place' = [place EXCEPT ![c] = "resetting"]
      /\ pc' = [pc EXCEPT ![t] = "reset"]
      /\ UNCHANGED <<idle, expired, keyOf, key, conn>>
  BY DEF Release, Goto, queueVars
<1>4. QueueOwnership'
  BY <1>1, <1>2, <1>3, SMTT(30) DEF TypeOK, Ownership, QueueOwnership
<1>5. TaskOwnership'
  BY <1>1, <1>2, <1>3, SMTT(30) DEF TypeOK, Ownership, TaskOwnership
<1>6. SocketOwnership'
  BY <1>1, <1>2, <1>3 DEF TypeOK, Ownership, SocketOwnership
<1> QED
  BY <1>4, <1>5, <1>6 DEF Ownership

\* Task t ends and its socket is closed or lost.
LEMMA OwnershipGiveUp ==
  ASSUME IInv, NEW t \in Clients, pc[t] \in {"serving", "reset"}, Leave(t),
         UNCHANGED <<idle, expired>>,
         \/ /\ place' = [place EXCEPT ![conn[t]] = "lost"]
            /\ UNCHANGED keyOf
         \/ /\ place' = [place EXCEPT ![conn[t]] = "closed"]
            /\ keyOf' = [keyOf EXCEPT ![conn[t]] = NoKey]
  PROVE  Ownership'
<1> DEFINE c == conn[t]
<1>1. TypeOK /\ Ownership
  BY DEF IInv
<1>2. /\ c \in Conns /\ keyOf[c] = key[t] /\ key[t] \in Keys
      /\ place[c] \in {"held", "resetting"} /\ c \notin expired
      /\ \A u \in Clients : u # t => conn[u] # c
  BY OwnsOne
<1>3. /\ pc' = [pc EXCEPT ![t] = "absent"]
      /\ key' = [key EXCEPT ![t] = NoKey]
      /\ conn' = [conn EXCEPT ![t] = NoConn]
  BY DEF Leave, Goto
<1>4. /\ place' \in [Conns -> Places]
      /\ place'[c] \in {"lost", "closed"}
      /\ place'[c] = "closed" <=> keyOf'[c] = NoKey
      /\ \A d \in Conns : d # c => place'[d] = place[d] /\ keyOf'[d] = keyOf[d]
  BY <1>1, <1>2, PoolAssumption, Zenon DEF TypeOK, Places
<1> HIDE DEF c
<1>5. QueueOwnership'
  BY <1>1, <1>2, <1>4, ZenonT(30) DEF Ownership, QueueOwnership
<1>6. TaskOwnership'
  <2>1. ASSUME NEW u \in Clients, u # t
        PROVE  pc'[u] = pc[u] /\ key'[u] = key[u] /\ conn'[u] = conn[u] /\ conn[u] # c
    BY <1>1, <1>2, <1>3, <2>1, SMTT(30) DEF TypeOK
  <2>2. pc'[t] = "absent" /\ conn'[t] = NoConn
    BY <1>1, <1>3, SMTT(30) DEF TypeOK
  <2>3. ASSUME NEW u \in Clients, u # t, conn[u] \in Conns
        PROVE  place'[conn[u]] = place[conn[u]] /\ keyOf'[conn[u]] = keyOf[conn[u]]
    BY <1>4, <2>1, <2>3, SMTT(30)
  <2>4. NoConn \notin Conns
    BY PoolAssumption, SMTT(30)
  <2> QED
    BY <1>1, <2>1, <2>2, <2>3, <2>4, SMTT(30) DEF Ownership, TaskOwnership
<1>7. SocketOwnership'
  <2>1. ASSUME NEW d \in Conns, place'[d] \in {"held", "resetting"}
        PROVE  \E u \in Clients : conn'[u] = d
    <3>1. d # c /\ place[d] \in {"held", "resetting"}
      BY <1>4, <2>1
    <3>2. PICK u \in Clients : conn[u] = d
      BY <1>1, <3>1 DEF Ownership, SocketOwnership
    <3>3. u # t
      BY <3>1, <3>2, SMTT(30) DEF c
    <3> QED
      BY <1>1, <1>3, <3>2, <3>3, SMTT(30) DEF TypeOK
  <2>2. \A d \in Conns : (place'[d] = "closed" <=> keyOf'[d] = NoKey)
                         /\ (d \in expired' => place'[d] = "idle")
    BY <1>1, <1>2, <1>4, SMTT(30) DEF Ownership, SocketOwnership
  <2> QED
    BY <2>1, <2>2 DEF SocketOwnership
<1> QED
  BY <1>5, <1>6, <1>7 DEF Ownership

\* Task t pushes its socket to the back of the queue of its key.
LEMMA OwnershipResetOk ==
  ASSUME IInv, NEW t \in Clients, ResetOk(t)
  PROVE  Ownership'
<1> DEFINE k == key[t]
           c == conn[t]
<1>1. TypeOK /\ Ownership /\ pc[t] = "reset"
  BY SMTT(30) DEF IInv, ResetOk
<1>2. /\ c \in Conns /\ k \in Keys /\ keyOf[c] = k
      /\ place[c] = "resetting" /\ c \notin expired
      /\ \A u \in Clients : u # t => conn[u] # c
  BY <1>1, OwnsOne
<1>3. /\ idle' = [idle EXCEPT ![k] = Append(idle[k], c)]
      /\ place' = [place EXCEPT ![c] = "idle"]
      /\ conn' = [conn EXCEPT ![t] = NoConn]
      /\ pc' = [pc EXCEPT ![t] = "notify"]
      /\ UNCHANGED <<expired, keyOf, key>>
  BY SMTT(30) DEF ResetOk, Goto
<1> HIDE DEF c
<1>4. QueueOwnership'
  <2>1. ASSUME NEW j \in Keys
        PROVE  /\ Range(idle'[j]) = {d \in Conns : place'[d] = "idle" /\ keyOf'[d] = j}
               /\ IsInjective(idle'[j])
    <3>1. CASE j = k
      <4>1. /\ idle'[j] = Append(idle[k], c) /\ idle[k] \in Seq(Conns)
            /\ IsInjective(idle[k]) /\ c \notin Range(idle[k])
        BY <1>1, <1>2, <1>3, <3>1, Zenon DEF TypeOK, Ownership, QueueOwnership
      <4>2. Range(idle'[j]) = Range(idle[k]) \cup {c} /\ IsInjective(idle'[j])
        BY <1>2, <4>1, PushBack, SMTT(30)
      <4> QED
        BY <1>1, <1>2, <1>3, <3>1, <4>2, SMTT(30) DEF TypeOK, Ownership, QueueOwnership
    <3>2. CASE j # k
      BY <1>1, <1>2, <1>3, <3>2, Zenon DEF TypeOK, Ownership, QueueOwnership
    <3> QED
      BY <3>1, <3>2
  <2> QED
    BY <2>1 DEF QueueOwnership
<1>5. TaskOwnership'
  <2>1. ASSUME NEW u \in Clients, u # t
        PROVE  pc'[u] = pc[u] /\ key'[u] = key[u] /\ conn'[u] = conn[u] /\ conn[u] # c
    BY <1>1, <1>2, <1>3, <2>1, SMTT(30) DEF TypeOK
  <2>2. pc'[t] = "notify" /\ conn'[t] = NoConn
    BY <1>1, <1>3 DEF TypeOK
  <2>3. \A d \in Conns : (d # c => place'[d] = place[d]) /\ keyOf'[d] = keyOf[d]
    BY <1>1, <1>3, SMTT(30) DEF TypeOK
  <2> QED
    BY <1>1, <2>1, <2>2, <2>3, PoolAssumption, SMTT(30) DEF Ownership, TaskOwnership
<1>6. SocketOwnership'
  <2>1. ASSUME NEW d \in Conns, place'[d] \in {"held", "resetting"}
        PROVE  \E u \in Clients : conn'[u] = d
    <3>1. d # c /\ place[d] \in {"held", "resetting"}
      BY <1>1, <1>2, <1>3, <2>1 DEF TypeOK
    <3>2. PICK u \in Clients : conn[u] = d
      BY <1>1, <3>1 DEF Ownership, SocketOwnership
    <3>3. u # t
      BY <3>1, <3>2 DEF c
    <3> QED
      BY <1>1, <1>3, <3>2, <3>3, SMTT(30) DEF TypeOK
  <2>2. \A d \in Conns : (place'[d] = "closed" <=> keyOf'[d] = NoKey)
                         /\ (d \in expired' => place'[d] = "idle")
    BY <1>1, <1>2, <1>3, SMTT(30) DEF TypeOK, Ownership, SocketOwnership
  <2> QED
    BY <2>1, <2>2 DEF SocketOwnership
<1> QED
  BY <1>4, <1>5, <1>6 DEF Ownership

\* The steps of Next, one by one.
LEMMA OwnershipStep ==
  ASSUME IInv, [Next]_vars
  PROVE  Ownership'
<1> USE DEF queueVars, sockVars
<1>0. TypeOK /\ Ownership
  BY DEF IInv
<1>u. ASSUME UNCHANGED <<idle, expired, place, keyOf, conn, pc, key>> PROVE Ownership'
  BY <1>0, <1>u, OwnershipQuiet, SMTT(30)
<1>1. ASSUME NEW t \in Clients, NEW k \in Keys, Accept(t, k) PROVE Ownership'
  BY <1>0, <1>1, OwnershipMove, Zenon DEF TypeOK, Accept, Goto
<1>2. ASSUME NEW t \in Clients, LockIdle(t) PROVE Ownership'
  BY <1>0, <1>2, OwnershipMove, ZenonT(30) DEF LockIdle, Goto
<1>3. ASSUME NEW t \in Clients, EvictHead(t) PROVE Ownership'
  BY <1>3, OwnershipEvict
<1>4. ASSUME NEW t \in Clients, TakeHead(t) PROVE Ownership'
  BY <1>4, OwnershipTake
<1>5. ASSUME NEW t \in Clients, ScanEmpty(t) PROVE Ownership'
  BY <1>0, <1>5, OwnershipMove, Zenon DEF ScanEmpty, Goto
<1>6. ASSUME NEW t \in Clients, LoadTotal(t) PROVE Ownership'
  BY <1>0, <1>6, OwnershipMove, Zenon DEF LoadTotal, Goto
<1>7. ASSUME NEW t \in Clients, LoadActive(t) PROVE Ownership'
  BY <1>0, <1>7, OwnershipMove, Zenon DEF LoadActive, Goto
<1>8. ASSUME NEW t \in Clients, GoConnect(t) PROVE Ownership'
  BY <1>0, <1>8, OwnershipMove, Zenon DEF GoConnect, Goto
<1>9. ASSUME NEW t \in Clients, GoWait(t) PROVE Ownership'
  BY <1>0, <1>9, OwnershipMove, Zenon DEF GoWait, Goto
<1>10. ASSUME NEW t \in Clients, BailAtLimit(t) PROVE Ownership'
  BY <1>0, <1>10, OwnershipMove, Zenon DEF TypeOK, BailAtLimit, FailAcquire, Leave, Goto
<1>11. ASSUME NEW t \in Clients, Poll(t) PROVE Ownership'
  <2>1. /\ pc[t] = "wait" /\ UNCHANGED <<idle, expired, place, keyOf, key, conn>>
        /\ pc' = [pc EXCEPT ![t] = "try"] \/ pc' = [pc EXCEPT ![t] = "parked"]
    BY <1>11, Zenon DEF Poll, Goto
  <2> QED
    BY <1>0, <2>1, OwnershipMove
<1>12. ASSUME NEW t \in Clients, Resume(t) PROVE Ownership'
  BY <1>0, <1>12, OwnershipMove, ZenonT(30) DEF Resume, Goto
<1>13. ASSUME NEW t \in Clients, DeadlinePasses(t) PROVE Ownership'
  BY <1>13, <1>u DEF DeadlinePasses
<1>14. ASSUME NEW t \in Clients, TimeOut(t) PROVE Ownership'
  BY <1>0, <1>14, OwnershipMove, Zenon DEF TypeOK, TimeOut, FailAcquire, Leave, Goto
<1>15. ASSUME NEW t \in Clients, TimeOutNotified(t) PROVE Ownership'
  BY <1>15, OwnershipNotify DEF TimeOutNotified
<1>16. ASSUME NEW t \in Clients, NEW c \in Conns, ConnectOk(t, c) PROVE Ownership'
  BY <1>16, OwnershipConnect, SMTT(30)
<1>17. ASSUME NEW t \in Clients, ConnectErr(t) PROVE Ownership'
  BY <1>0, <1>17, OwnershipMove, Zenon DEF TypeOK, ConnectErr, FailAcquire, Leave, Goto
<1>18. ASSUME NEW t \in Clients, Release(t) PROVE Ownership'
  BY <1>18, OwnershipRelease
<1>19. ASSUME NEW t \in Clients, DropOnError(t) PROVE Ownership'
  BY <1>19, OwnershipGiveUp, Zenon DEF DropOnError
<1>20. ASSUME NEW t \in Clients, ResetOk(t) PROVE Ownership'
  BY <1>20, OwnershipResetOk
<1>21. ASSUME NEW t \in Clients, ResetErr(t) PROVE Ownership'
  BY <1>21, OwnershipGiveUp, ZenonT(30) DEF ResetErr, CloseCounted
<1>22. ASSUME NEW t \in Clients, NotifyReturned(t) PROVE Ownership'
  BY <1>22, OwnershipNotify, Zenon DEF NotifyReturned
<1>23. ASSUME NEW c \in Conns, Expire(c) PROVE Ownership'
  BY <1>0, <1>23 DEF Expire, Ownership, QueueOwnership, TaskOwnership, SocketOwnership
<1>24. CASE UNCHANGED vars
  BY <1>24, <1>u DEF vars
<1> QED
  BY <1>1, <1>2, <1>3, <1>4, <1>5, <1>6, <1>7, <1>8, <1>9, <1>10, <1>11, <1>12,
     <1>13, <1>14, <1>15, <1>16, <1>17, <1>18, <1>19, <1>20, <1>21, <1>22, <1>23, <1>24 DEF Next

-----------------------------------------------------------------------------
(* Pool implements Lease *)

\* What a socket's place looks like to the clients.
StatusOf(p) == CASE p \in {"closed", "lost"} -> "closed"
                 [] p = "held" -> "lent"
                 [] p = "resetting" -> "cleaning"
                 [] p = "idle" -> "shelved"

\* The refinement mapping, socket by socket and client by client.
LEMMA Mapping ==
  /\ LeaseStatus = [c \in Conns |-> StatusOf(place[c])]
  /\ LeaseStatus' = [c \in Conns |-> StatusOf(place'[c])]
  /\ LeaseTenant = [c \in Conns |-> IF place[c] = "lost" THEN NoKey ELSE keyOf[c]]
  /\ LeaseTenant' = [c \in Conns |-> IF place'[c] = "lost" THEN NoKey ELSE keyOf'[c]]
  /\ LeaseHolds = [t \in Clients |-> IF pc[t] = "serving" THEN conn[t] ELSE NoConn]
  /\ LeaseHolds' = [t \in Clients |-> IF pc'[t] = "serving" THEN conn'[t] ELSE NoConn]
  BY Zenon DEF LeaseStatus, LeaseTenant, LeaseHolds, StatusOf

\* One socket changes its place.
LEMMA StatusChange ==
  ASSUME TypeOK, NEW c \in Conns, NEW p, place' = [place EXCEPT ![c] = p]
  PROVE  LeaseStatus' = [LeaseStatus EXCEPT ![c] = StatusOf(p)]
<1>1. \A d \in Conns : place'[d] = IF d = c THEN p ELSE place[d]
  BY DEF TypeOK
<1> QED
  BY <1>1, Mapping

\* Neither sockets nor tasks that serve a client change.
LEMMA HoldsQuiet ==
  ASSUME UNCHANGED <<place, keyOf, conn>>,
         \A t \in Clients : pc'[t] = "serving" <=> pc[t] = "serving"
  PROVE  UNCHANGED <<LeaseStatus, LeaseTenant, LeaseHolds>>
  BY Mapping

\* An empty pool maps to a protocol without connections.
LEMMA LeaseInit == Init => L!Init
<1> SUFFICES ASSUME Init PROVE L!Init
  OBVIOUS
<1>1. LeaseStatus = [c \in Conns |-> "closed"]
  BY DEF Init, LeaseStatus
<1>2. LeaseTenant = [c \in Conns |-> NoKey]
  BY DEF Init, LeaseTenant
<1>3. LeaseHolds = [t \in Clients |-> NoConn]
  BY Zenon DEF Init, LeaseHolds
<1> QED
  BY <1>1, <1>2, <1>3 DEF Init, L!Init

\* A client that holds nothing goes away.
LEMMA DepartStep ==
  ASSUME TypeOK, NEW t \in Clients, pc[t] # "serving", key' = [key EXCEPT ![t] = NoKey],
         UNCHANGED <<place, keyOf>>,
         \A u \in Clients : conn'[u] = conn[u] \/ pc[u] # "serving",
         \A u \in Clients : pc'[u] = "serving" <=> pc[u] = "serving"
  PROVE  L!Next
<1>1. UNCHANGED <<LeaseStatus, LeaseTenant, LeaseHolds>>
  BY Mapping, SMTT(30)
<1>2. LeaseHolds[t] = NoConn
  BY Mapping, Zenon
<1>3. L!Depart(t)
  BY <1>1, <1>2 DEF L!Depart
<1> QED
  BY <1>3 DEF L!Next

\* A pooled or a reset socket is closed.
LEMMA DiscardStep ==
  ASSUME TypeOK, NEW c \in Conns, place[c] \in {"idle", "resetting"},
         place' = [place EXCEPT ![c] = "closed"],
         keyOf' = [keyOf EXCEPT ![c] = NoKey],
         UNCHANGED LeaseHolds,
         \/ UNCHANGED key
         \/ \E t \in Clients : pc[t] # "serving" /\ key' = [key EXCEPT ![t] = NoKey]
  PROVE  L!Next
<1>1. LeaseStatus[c] \in {"cleaning", "shelved"}
  BY Mapping DEF StatusOf
<1>2. LeaseStatus' = [LeaseStatus EXCEPT ![c] = "closed"]
  BY StatusChange, Zenon DEF StatusOf
<1>3. LeaseTenant' = [LeaseTenant EXCEPT ![c] = NoKey]
  BY Mapping, Zenon DEF TypeOK
<1>4. L!Discard(c)
  BY <1>1, <1>2, <1>3, Mapping, Zenon DEF L!Discard
<1> QED
  BY <1>4 DEF L!Next

\* A client takes the head of the idle queue.
LEMMA LendStep ==
  ASSUME IInv, NEW t \in Clients, TakeHead(t)
  PROVE  L!Next
<1> DEFINE c == Head(idle[key[t]])
<1>1. TypeOK /\ pc[t] = "scan" /\ key[t] \in Keys /\ idle[key[t]] # <<>>
  BY HeadFacts DEF IInv, TakeHead
<1>2. c \in Conns /\ place[c] = "idle" /\ keyOf[c] = key[t]
  BY <1>1, HeadFacts
<1>3. /\ place' = [place EXCEPT ![c] = "held"]
      /\ conn' = [conn EXCEPT ![t] = c]
      /\ pc' = [pc EXCEPT ![t] = "serving"]
      /\ UNCHANGED <<keyOf, key>>
  BY DEF TakeHead, Goto
<1> HIDE DEF c
<1>4. LeaseStatus[c] = "shelved" /\ LeaseTenant[c] = key[t] /\ LeaseHolds[t] = NoConn
  BY <1>1, <1>2, Mapping DEF StatusOf
<1>5. LeaseStatus' = [LeaseStatus EXCEPT ![c] = "lent"]
  BY <1>1, <1>2, <1>3, StatusChange, Zenon DEF StatusOf
<1>6. UNCHANGED LeaseTenant
  BY <1>1, <1>2, <1>3, Mapping DEF TypeOK
<1>7. LeaseHolds' = [LeaseHolds EXCEPT ![t] = c]
  BY <1>1, <1>3, Mapping, Zenon DEF TypeOK
<1>8. L!Lend(t, c)
  BY <1>1, <1>3, <1>4, <1>5, <1>6, <1>7, PoolAssumption DEF L!Lend
<1> QED
  BY <1>2, <1>8, Zenon DEF L!Next

\* A client gets a new socket.
LEMMA OpenStep ==
  ASSUME IInv, NEW t \in Clients, NEW c \in Conns, ConnectOk(t, c)
  PROVE  L!Next
<1>1. TypeOK /\ pc[t] = "connect" /\ key[t] \in Keys /\ place[c] = "closed"
  BY HeadFacts DEF IInv, ConnectOk
<1>2. /\ place' = [place EXCEPT ![c] = "held"]
      /\ keyOf' = [keyOf EXCEPT ![c] = key[t]]
      /\ conn' = [conn EXCEPT ![t] = c]
      /\ pc' = [pc EXCEPT ![t] = "serving"]
      /\ UNCHANGED key
  BY DEF ConnectOk, Goto
<1>3. LeaseStatus[c] = "closed" /\ LeaseHolds[t] = NoConn
  BY <1>1, Mapping DEF StatusOf
<1>4. LeaseStatus' = [LeaseStatus EXCEPT ![c] = "lent"]
  BY <1>1, <1>2, StatusChange, Zenon DEF StatusOf
<1>5. LeaseTenant' = [LeaseTenant EXCEPT ![c] = key[t]]
  BY <1>1, <1>2, Mapping, Zenon DEF TypeOK
<1>6. LeaseHolds' = [LeaseHolds EXCEPT ![t] = c]
  BY <1>1, <1>2, Mapping, Zenon DEF TypeOK
<1>7. L!Open(t, c)
  BY <1>1, <1>2, <1>3, <1>4, <1>5, <1>6, PoolAssumption DEF L!Open
<1> QED
  BY <1>7 DEF L!Next

\* A client gives its socket back to be reset.
LEMMA GiveBackStep ==
  ASSUME IInv, NEW t \in Clients, Release(t)
  PROVE  L!Next
<1> DEFINE c == conn[t]
<1>1. TypeOK /\ pc[t] = "serving" /\ c \in Conns /\ place[c] = "held"
  BY OwnsOne DEF IInv, Release
<1>2. /\ place' = [place EXCEPT ![c] = "resetting"]
      /\ pc' = [pc EXCEPT ![t] = "reset"]
      /\ UNCHANGED <<keyOf, key, conn>>
  BY Zenon DEF Release, Goto
<1>3. LeaseHolds[t] = c /\ c # NoConn
  BY <1>1, Mapping, PoolAssumption
<1>4. LeaseStatus' = [LeaseStatus EXCEPT ![c] = "cleaning"]
  BY <1>1, <1>2, StatusChange, Zenon DEF StatusOf
<1>5. UNCHANGED LeaseTenant
  BY <1>1, <1>2, Mapping DEF TypeOK
<1>6. LeaseHolds' = [LeaseHolds EXCEPT ![t] = NoConn]
  BY <1>1, <1>2, Mapping DEF TypeOK
<1>7. L!GiveBack(t)
  BY <1>2, <1>3, <1>4, <1>5, <1>6 DEF L!GiveBack
<1> QED
  BY <1>7 DEF L!Next

\* A failing session closes the socket it holds.
LEMMA AbandonStep ==
  ASSUME IInv, NEW t \in Clients, DropOnError(t)
  PROVE  L!Next
<1> DEFINE c == conn[t]
<1>1. TypeOK /\ pc[t] = "serving" /\ c \in Conns /\ place[c] = "held"
  BY OwnsOne DEF IInv, DropOnError
<1>2. /\ place' = [place EXCEPT ![c] = "lost"]
      /\ pc' = [pc EXCEPT ![t] = "absent"]
      /\ key' = [key EXCEPT ![t] = NoKey]
      /\ conn' = [conn EXCEPT ![t] = NoConn]
      /\ UNCHANGED keyOf
  BY DEF DropOnError, Leave, Goto
<1>3. LeaseHolds[t] = c /\ c # NoConn
  BY <1>1, Mapping, PoolAssumption
<1>4. LeaseStatus' = [LeaseStatus EXCEPT ![c] = "closed"]
  BY <1>1, <1>2, StatusChange, Zenon DEF StatusOf
<1>5. LeaseTenant' = [LeaseTenant EXCEPT ![c] = NoKey]
  BY <1>1, <1>2, Mapping, Zenon DEF TypeOK
<1>6. LeaseHolds' = [LeaseHolds EXCEPT ![t] = NoConn]
  BY <1>1, <1>2, Mapping, Zenon DEF TypeOK
<1>7. L!Abandon(t)
  BY <1>2, <1>3, <1>4, <1>5, <1>6 DEF L!Abandon
<1> QED
  BY <1>7 DEF L!Next

\* A socket that has been reset goes back to the shelf.
LEMMA ShelveStep ==
  ASSUME IInv, NEW t \in Clients, ResetOk(t)
  PROVE  L!Next
<1> DEFINE c == conn[t]
<1>1. TypeOK /\ pc[t] = "reset" /\ c \in Conns /\ place[c] = "resetting"
  BY OwnsOne DEF IInv, ResetOk
<1>2. /\ place' = [place EXCEPT ![c] = "idle"]
      /\ pc' = [pc EXCEPT ![t] = "notify"]
      /\ conn' = [conn EXCEPT ![t] = NoConn]
      /\ UNCHANGED <<keyOf, key>>
  BY DEF ResetOk, Goto
<1>3. LeaseStatus[c] = "cleaning"
  BY <1>1, Mapping DEF StatusOf
<1>4. LeaseStatus' = [LeaseStatus EXCEPT ![c] = "shelved"]
  BY <1>1, <1>2, StatusChange, Zenon DEF StatusOf
<1>5. UNCHANGED <<LeaseTenant, LeaseHolds>>
  BY <1>1, <1>2, Mapping DEF TypeOK
<1>6. L!Shelve(c)
  BY <1>2, <1>3, <1>4, <1>5 DEF L!Shelve
<1> QED
  BY <1>1, <1>6, Zenon DEF L!Next

\* A task without a socket notifies the first waiter and ends.
LEMMA NotifyDeparts ==
  ASSUME IInv, NEW t \in Clients, pc[t] \notin {"absent", "serving", "reset"},
         NotifyOneAndLeave(t), UNCHANGED <<place, keyOf>>
  PROVE  L!Next
<1>1. TypeOK /\ key[t] \in Keys /\ key' = [key EXCEPT ![t] = NoKey]
  BY HeadFacts DEF IInv, NotifyOneAndLeave
<1>2. conn' = [conn EXCEPT ![t] = NoConn]
  BY DEF NotifyOneAndLeave
<1>3. \A u \in Clients : conn'[u] = conn[u] \/ pc[u] # "serving"
  BY <1>1, <1>2, Zenon DEF TypeOK
<1>4. \A u \in Clients : pc'[u] = "serving" <=> pc[u] = "serving"
  BY <1>1, HeadFacts, SMTT(30) DEF TypeOK, NotifyOneAndLeave
<1> QED
  BY <1>1, <1>3, <1>4, DepartStep, Zenon

\* Every step of the pool is a step of the protocol or leaves its state alone.
LEMMA LeaseStep ==
  ASSUME IInv, [Next]_vars
  PROVE  [L!Next]_(L!vars)
<1> USE DEF sockVars
<1>0. TypeOK
  BY DEF IInv
<1>q. ASSUME NEW t \in Clients, NEW l, pc[t] # "serving", l # "serving",
             pc' = [pc EXCEPT ![t] = l], UNCHANGED <<place, keyOf, key, conn>>
      PROVE  UNCHANGED L!vars
  <2>1. \A u \in Clients : pc'[u] = "serving" <=> pc[u] = "serving"
    BY <1>0, <1>q DEF TypeOK
  <2> QED
    BY <1>q, <2>1, HoldsQuiet DEF L!vars
<1>u. ASSUME UNCHANGED <<place, keyOf, key, conn, pc>> PROVE UNCHANGED L!vars
  BY <1>u, HoldsQuiet DEF L!vars
<1>d. ASSUME NEW t \in Clients, pc[t] # "serving", Leave(t), UNCHANGED <<place, keyOf>>
      PROVE  L!Next
  <2>1. \A u \in Clients : /\ pc'[u] = "serving" <=> pc[u] = "serving"
                           /\ conn'[u] = conn[u] \/ pc[u] # "serving"
    BY <1>0, <1>d DEF TypeOK, Leave, Goto
  <2> QED
    BY <1>0, <1>d, <2>1, DepartStep, Zenon DEF Leave
<1>1. ASSUME NEW t \in Clients, NEW k \in Keys, Accept(t, k) PROVE L!Next
  <2>1. key[t] = NoKey /\ pc[t] = "absent"
    BY <1>1 DEF IInv, Waiting, Accept
  <2>2. \A u \in Clients : pc'[u] = "serving" <=> pc[u] = "serving"
    BY <1>0, <1>1 DEF TypeOK, Accept, Goto
  <2>3. UNCHANGED <<LeaseStatus, LeaseTenant, LeaseHolds>>
    BY <1>1, <2>2, HoldsQuiet DEF Accept
  <2>4. L!Arrive(t, k)
    BY <1>1, <2>1, <2>3 DEF Accept, L!Arrive
  <2> QED
    BY <2>4 DEF L!Next
<1>2. ASSUME NEW t \in Clients, LockIdle(t) PROVE UNCHANGED L!vars
  BY <1>2, <1>q, Zenon DEF LockIdle, Goto
<1>3. ASSUME NEW t \in Clients, EvictHead(t) PROVE L!Next
  <2> DEFINE c == Head(idle[key[t]])
  <2>1. c \in Conns /\ place[c] = "idle"
    BY <1>3, HeadFacts, Zenon DEF EvictHead
  <2>2. /\ place' = [place EXCEPT ![c] = "closed"]
        /\ keyOf' = [keyOf EXCEPT ![c] = NoKey]
        /\ UNCHANGED <<pc, key, conn>>
    BY <1>3, Zenon DEF EvictHead, CloseCounted
  <2>3. UNCHANGED LeaseHolds
    BY <2>2, Mapping
  <2> QED
    BY <1>0, <2>1, <2>2, <2>3, DiscardStep, Zenon
<1>4. ASSUME NEW t \in Clients, TakeHead(t) PROVE L!Next
  BY <1>4, LendStep
<1>5. ASSUME NEW t \in Clients, ScanEmpty(t) PROVE UNCHANGED L!vars
  BY <1>5, <1>q, Zenon DEF ScanEmpty, Goto
<1>6. ASSUME NEW t \in Clients, LoadTotal(t) PROVE UNCHANGED L!vars
  BY <1>6, <1>q, Zenon DEF LoadTotal, Goto
<1>7. ASSUME NEW t \in Clients, LoadActive(t) PROVE UNCHANGED L!vars
  BY <1>7, <1>q, Zenon DEF LoadActive, Goto
<1>8. ASSUME NEW t \in Clients, GoConnect(t) PROVE UNCHANGED L!vars
  BY <1>8, <1>q, Zenon DEF GoConnect, Goto
<1>9. ASSUME NEW t \in Clients, GoWait(t) PROVE UNCHANGED L!vars
  BY <1>9, <1>q, ZenonT(30) DEF GoWait, Goto
<1>10. ASSUME NEW t \in Clients, BailAtLimit(t) PROVE L!Next
  BY <1>10, <1>d, Zenon DEF BailAtLimit, FailAcquire
<1>11. ASSUME NEW t \in Clients, Poll(t) PROVE UNCHANGED L!vars
  <2>1. /\ pc[t] = "wait" /\ UNCHANGED <<place, keyOf, key, conn>>
        /\ pc' = [pc EXCEPT ![t] = "try"] \/ pc' = [pc EXCEPT ![t] = "parked"]
    BY <1>11, Zenon DEF Poll, Goto
  <2> QED
    BY <1>q, <2>1
<1>12. ASSUME NEW t \in Clients, Resume(t) PROVE UNCHANGED L!vars
  BY <1>12, <1>q, Zenon DEF Resume, Goto
<1>13. ASSUME NEW t \in Clients, DeadlinePasses(t) PROVE UNCHANGED L!vars
  BY <1>13, <1>u DEF DeadlinePasses
<1>14. ASSUME NEW t \in Clients, TimeOut(t) PROVE L!Next
  BY <1>14, <1>d DEF TimeOut, FailAcquire
<1>15. ASSUME NEW t \in Clients, TimeOutNotified(t) PROVE L!Next
  BY <1>15, NotifyDeparts DEF TimeOutNotified
<1>16. ASSUME NEW t \in Clients, NEW c \in Conns, ConnectOk(t, c) PROVE L!Next
  BY <1>16, OpenStep
<1>17. ASSUME NEW t \in Clients, ConnectErr(t) PROVE L!Next
  BY <1>17, <1>d, SMTT(30) DEF ConnectErr, FailAcquire
<1>18. ASSUME NEW t \in Clients, Release(t) PROVE L!Next
  BY <1>18, GiveBackStep
<1>19. ASSUME NEW t \in Clients, DropOnError(t) PROVE L!Next
  BY <1>19, AbandonStep
<1>20. ASSUME NEW t \in Clients, ResetOk(t) PROVE L!Next
  BY <1>20, ShelveStep
<1>21. ASSUME NEW t \in Clients, ResetErr(t) PROVE L!Next
  <2>1. conn[t] \in Conns /\ place[conn[t]] = "resetting" /\ pc[t] = "reset"
    BY <1>21, OwnsOne DEF ResetErr
  <2>2. /\ place' = [place EXCEPT ![conn[t]] = "closed"]
        /\ keyOf' = [keyOf EXCEPT ![conn[t]] = NoKey]
        /\ key' = [key EXCEPT ![t] = NoKey]
        /\ pc' = [pc EXCEPT ![t] = "absent"]
        /\ conn' = [conn EXCEPT ![t] = NoConn]
    BY <1>21 DEF ResetErr, CloseCounted, Leave, Goto
  <2>3. UNCHANGED LeaseHolds
    BY <1>0, <2>1, <2>2, Mapping DEF TypeOK
  <2> QED
    BY <1>0, <2>1, <2>2, <2>3, DiscardStep, Zenon
<1>22. ASSUME NEW t \in Clients, NotifyReturned(t) PROVE L!Next
  BY <1>22, NotifyDeparts DEF NotifyReturned
<1>23. ASSUME NEW c \in Conns, Expire(c) PROVE UNCHANGED L!vars
  BY <1>23, <1>u DEF Expire
<1>24. CASE UNCHANGED vars
  BY <1>24, <1>u DEF vars
<1> QED
  BY <1>1, <1>2, <1>3, <1>4, <1>5, <1>6, <1>7, <1>8, <1>9, <1>10, <1>11, <1>12,
     <1>13, <1>14, <1>15, <1>16, <1>17, <1>18, <1>19, <1>20, <1>21, <1>22, <1>23, <1>24,
     SMTT(30) DEF Next

=============================================================================
