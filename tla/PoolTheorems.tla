---------------------------- MODULE PoolTheorems ----------------------------
(***************************************************************************)
(* The counters of Pool and its theorems, for any numbers of clients, keys *)
(* and sockets and any limits.                                             *)
(***************************************************************************)
EXTENDS PoolProofs, FiniteSetTheorems

-----------------------------------------------------------------------------
(* Finite sets of sockets and of clients *)

\* Every set of sockets and every set of clients is finite.
LEMMA FiniteParts ==
  /\ \A S \in SUBSET Conns : IsFiniteSet(S) /\ Cardinality(S) \in Nat
  /\ \A S \in SUBSET Clients :
       /\ IsFiniteSet(S) /\ Cardinality(S) \in Nat
       /\ Cardinality(S) <= Cardinality(Clients)
  /\ Cardinality(Clients) \in Nat \ {0}
<1>1. \A S \in SUBSET Conns : IsFiniteSet(S)
  BY PoolAssumption, FS_Subset
<1>2. \A S \in SUBSET Clients : IsFiniteSet(S) /\ Cardinality(S) <= Cardinality(Clients)
  BY PoolAssumption, FS_Subset
<1>3. Cardinality(Clients) \in Nat /\ Cardinality(Clients) # 0
  BY PoolAssumption, FS_CardinalityType, FS_EmptySet
<1> QED
  BY <1>1, <1>2, <1>3, FS_CardinalityType

\* The counters count what is about to be given back.
LEMMA CountersPositive ==
  ASSUME IInv
  PROVE  CountedBefore
<1>1. ASSUME NEW t \in Clients, pc[t] = "serving"
      PROVE  active[key[t]] > 0
  <2>1. conn[t] \in InUse(key[t]) /\ key[t] \in Keys
    BY <1>1 DEF IInv, TypeOK, Waiting, Ownership, TaskOwnership, InUse
  <2>2. InUse(key[t]) \in SUBSET Conns
    BY DEF InUse
  <2>3. Cardinality(InUse(key[t])) \in Nat /\ Cardinality(InUse(key[t])) # 0
    BY <2>1, <2>2, FiniteParts, FS_EmptySet
  <2> QED
    BY <2>1, <2>3 DEF IInv, Accounting
<1>2. ASSUME NEW c \in Conns, place[c] # "closed"
      PROVE  total > 0
  <2>1. c \in Counted /\ Counted \in SUBSET Conns
    BY <1>2 DEF Counted
  <2>2. Cardinality(Counted) \in Nat /\ Cardinality(Counted) # 0
    BY <2>1, FiniteParts, FS_EmptySet
  <2> QED
    BY <2>2 DEF IInv, Accounting
<1> QED
  BY <1>1, <1>2 DEF CountedBefore

-----------------------------------------------------------------------------
(* Every step keeps the counters equal to what they count *)

\* One socket joins, leaves or stays in a set of sockets.
LEMMA CountOne ==
  ASSUME NEW S \in SUBSET Conns, NEW c
  PROVE  /\ c \notin S => Cardinality(S \cup {c}) = Cardinality(S) + 1
         /\ c \in S => Cardinality(S \ {c}) = Cardinality(S) - 1
<1>1. IsFiniteSet(S)
  BY FiniteParts
<1> QED
  BY <1>1, FS_AddElement, FS_RemoveElement

\* The place of one socket c of key k changes, and the counters with it.
LEMMA AccountingOne ==
  ASSUME TypeOK, Accounting, NEW c \in Conns, NEW k \in Keys,
         \A d \in Conns : d # c => place'[d] = place[d] /\ keyOf'[d] = keyOf[d],
         place[c] # "closed" => keyOf[c] = k,
         place'[c] # "closed" => keyOf'[c] = k,
         place[c] = "closed" => keyOf[c] = NoKey,
         place'[c] = "closed" => keyOf'[c] = NoKey,
         total' = CASE place[c] = "closed" /\ place'[c] # "closed" -> total + 1
                    [] place[c] # "closed" /\ place'[c] = "closed" -> total - 1
                    [] OTHER -> total,
         active' = CASE place[c] \notin {"held", "lost"} /\ place'[c] \in {"held", "lost"} ->
                          [active EXCEPT ![k] = @ + 1]
                     [] place[c] \in {"held", "lost"} /\ place'[c] \notin {"held", "lost"} ->
                          [active EXCEPT ![k] = @ - 1]
                     [] OTHER -> active
  PROVE  Accounting'
<1>1. total' = Cardinality(Counted')
  <2> DEFINE S == Counted
  <2>1. S \in SUBSET Conns /\ total = Cardinality(S)
    BY DEF Counted, Accounting
  <2>2. CASE place[c] = "closed" /\ place'[c] # "closed"
    <3>1. c \notin S /\ Counted' = S \cup {c}
      BY <2>2 DEF Counted
    <3> QED
      BY <2>1, <2>2, <3>1, CountOne
  <2>3. CASE place[c] # "closed" /\ place'[c] = "closed"
    <3>1. c \in S /\ Counted' = S \ {c}
      BY <2>3 DEF Counted
    <3> QED
      BY <2>1, <2>3, <3>1, CountOne
  <2>4. CASE place[c] = "closed" <=> place'[c] = "closed"
    <3>1. Counted' = S
      BY <2>4 DEF Counted
    <3> QED
      BY <2>1, <2>4, <3>1
  <2> QED
    BY <2>2, <2>3, <2>4
<1>2. ASSUME NEW j \in Keys PROVE active'[j] = Cardinality(InUse(j)')
  <2> DEFINE S == InUse(j)
  <2>1. S \in SUBSET Conns /\ active[j] = Cardinality(S) /\ active \in [Keys -> Nat]
    BY DEF InUse, Accounting, TypeOK
  <2>2. CASE j # k
    <3>1. InUse(j)' = S
      BY <2>2, PoolAssumption DEF InUse
    <3>2. active'[j] = active[j]
      BY <2>1, <2>2
    <3> QED
      BY <2>1, <3>1, <3>2
  <2>3. CASE j = k
    <3>1. CASE place[c] \notin {"held", "lost"} /\ place'[c] \in {"held", "lost"}
      <4>1. c \notin S /\ InUse(j)' = S \cup {c}
        BY <2>3, <3>1 DEF InUse
      <4>2. active'[j] = active[j] + 1
        BY <2>1, <2>3, <3>1
      <4> QED
        BY <2>1, <4>1, <4>2, CountOne
    <3>2. CASE place[c] \in {"held", "lost"} /\ place'[c] \notin {"held", "lost"}
      <4>1. c \in S /\ InUse(j)' = S \ {c}
        BY <2>3, <3>2 DEF InUse
      <4>2. active'[j] = active[j] - 1
        BY <2>1, <2>3, <3>2
      <4> QED
        BY <2>1, <4>1, <4>2, CountOne
    <3>3. CASE place[c] \in {"held", "lost"} <=> place'[c] \in {"held", "lost"}
      <4>1. InUse(j)' = S
        BY <2>3, <3>3 DEF InUse
      <4>2. active'[j] = active[j]
        BY <2>1, <3>3, SMTT(30)
      <4> QED
        BY <2>1, <4>1, <4>2
    <3> QED
      BY <3>1, <3>2, <3>3
  <2> QED
    BY <2>2, <2>3
<1> QED
  BY <1>1, <1>2 DEF Accounting

\* The steps of Next, one by one.
LEMMA AccountingStep ==
  ASSUME IInv, [Next]_vars
  PROVE  Accounting'
<1> USE DEF countVars, sockVars
<1>0. TypeOK /\ Accounting /\ Ownership
  BY DEF IInv
<1>u. ASSUME UNCHANGED <<active, total, place, keyOf>> PROVE Accounting'
  BY <1>0, <1>u DEF Accounting, Counted, InUse
<1>q. \A k \in Keys, c \in Conns : k # NoKey /\ (place[c] = "closed" <=> keyOf[c] = NoKey)
  BY <1>0, PoolAssumption DEF Ownership, SocketOwnership
<1>1. ASSUME NEW t \in Clients, NEW k \in Keys, Accept(t, k) PROVE Accounting'
  BY <1>1, <1>u DEF Accept
<1>2. ASSUME NEW t \in Clients, LockIdle(t) PROVE Accounting'
  BY <1>2, <1>u DEF LockIdle
<1>3. ASSUME NEW t \in Clients, EvictHead(t) PROVE Accounting'
  <2> DEFINE c == Head(idle[key[t]])
  <2>1. key[t] \in Keys /\ c \in Conns /\ place[c] = "idle" /\ keyOf[c] = key[t]
    BY <1>3, HeadFacts, SMTT(30) DEF EvictHead
  <2>2. /\ place' = [place EXCEPT ![c] = "closed"]
        /\ keyOf' = [keyOf EXCEPT ![c] = NoKey]
        /\ total' = total - 1
        /\ UNCHANGED active
    BY <1>3 DEF EvictHead, CloseCounted
  <2> HIDE DEF c
  <2> QED
    BY <1>0, <1>q, <2>1, <2>2, AccountingOne, ZenonT(30) DEF TypeOK
<1>4. ASSUME NEW t \in Clients, TakeHead(t) PROVE Accounting'
  <2> DEFINE c == Head(idle[key[t]])
  <2>1. key[t] \in Keys /\ c \in Conns /\ place[c] = "idle" /\ keyOf[c] = key[t]
    BY <1>4, HeadFacts, SMTT(30) DEF TakeHead
  <2>2. /\ place' = [place EXCEPT ![c] = "held"]
        /\ active' = [active EXCEPT ![key[t]] = @ + 1]
        /\ UNCHANGED <<keyOf, total>>
    BY <1>4 DEF TakeHead
  <2> HIDE DEF c
  <2> QED
    BY <1>0, <1>q, <2>1, <2>2, AccountingOne, ZenonT(30) DEF TypeOK
<1>5. ASSUME NEW t \in Clients, ScanEmpty(t) PROVE Accounting'
  BY <1>5, <1>u DEF ScanEmpty
<1>6. ASSUME NEW t \in Clients, LoadTotal(t) PROVE Accounting'
  BY <1>6, <1>u DEF LoadTotal
<1>7. ASSUME NEW t \in Clients, LoadActive(t) PROVE Accounting'
  BY <1>7, <1>u, SMTT(30) DEF LoadActive
<1>8. ASSUME NEW t \in Clients, GoConnect(t) PROVE Accounting'
  BY <1>8, <1>u DEF GoConnect
<1>9. ASSUME NEW t \in Clients, GoWait(t) PROVE Accounting'
  BY <1>9, <1>u DEF GoWait
<1>10. ASSUME NEW t \in Clients, BailAtLimit(t) PROVE Accounting'
  BY <1>10, <1>u, SMTT(30) DEF BailAtLimit
<1>11. ASSUME NEW t \in Clients, Poll(t) PROVE Accounting'
  BY <1>11, <1>u DEF Poll
<1>12. ASSUME NEW t \in Clients, Resume(t) PROVE Accounting'
  BY <1>12, <1>u DEF Resume
<1>13. ASSUME NEW t \in Clients, DeadlinePasses(t) PROVE Accounting'
  BY <1>13, <1>u, SMTT(30) DEF DeadlinePasses
<1>14. ASSUME NEW t \in Clients, TimeOut(t) PROVE Accounting'
  BY <1>14, <1>u, SMTT(30) DEF TimeOut
<1>15. ASSUME NEW t \in Clients, TimeOutNotified(t) PROVE Accounting'
  BY <1>15, <1>u DEF TimeOutNotified
<1>16. ASSUME NEW t \in Clients, NEW c \in Conns, ConnectOk(t, c) PROVE Accounting'
  <2>1. key[t] \in Keys /\ place[c] = "closed"
    BY <1>16, HeadFacts, SMTT(30) DEF ConnectOk
  <2>2. /\ place' = [place EXCEPT ![c] = "held"]
        /\ keyOf' = [keyOf EXCEPT ![c] = key[t]]
        /\ total' = total + 1
        /\ active' = [active EXCEPT ![key[t]] = @ + 1]
    BY <1>16 DEF ConnectOk
  <2> QED
    BY <1>0, <1>q, <2>1, <2>2, AccountingOne, ZenonT(30) DEF TypeOK
<1>17. ASSUME NEW t \in Clients, ConnectErr(t) PROVE Accounting'
  BY <1>17, <1>u DEF ConnectErr
<1>18. ASSUME NEW t \in Clients, Release(t) PROVE Accounting'
  <2> DEFINE c == conn[t]
  <2>1. key[t] \in Keys /\ c \in Conns /\ place[c] = "held" /\ keyOf[c] = key[t]
    BY <1>18, OwnsOne, SMTT(30) DEF Release
  <2>2. /\ place' = [place EXCEPT ![c] = "resetting"]
        /\ active' = [active EXCEPT ![key[t]] = @ - 1]
        /\ UNCHANGED <<keyOf, total>>
    BY <1>18 DEF Release
  <2> HIDE DEF c
  <2> QED
    BY <1>0, <1>q, <2>1, <2>2, AccountingOne, ZenonT(30) DEF TypeOK
<1>19. ASSUME NEW t \in Clients, DropOnError(t) PROVE Accounting'
  <2> DEFINE c == conn[t]
  <2>1. key[t] \in Keys /\ c \in Conns /\ place[c] = "held" /\ keyOf[c] = key[t]
    BY <1>19, OwnsOne, SMTT(30) DEF DropOnError
  <2>2. place' = [place EXCEPT ![c] = "lost"] /\ UNCHANGED <<keyOf, active, total>>
    BY <1>19 DEF DropOnError
  <2> HIDE DEF c
  <2> QED
    BY <1>0, <1>q, <2>1, <2>2, AccountingOne, SMTT(30) DEF TypeOK
<1>20. ASSUME NEW t \in Clients, ResetOk(t) PROVE Accounting'
  <2> DEFINE c == conn[t]
  <2>1. key[t] \in Keys /\ c \in Conns /\ place[c] = "resetting" /\ keyOf[c] = key[t]
    BY <1>20, OwnsOne, SMTT(30) DEF ResetOk
  <2>2. place' = [place EXCEPT ![c] = "idle"] /\ UNCHANGED <<keyOf, active, total>>
    BY <1>20 DEF ResetOk
  <2> HIDE DEF c
  <2> QED
    BY <1>0, <1>q, <2>1, <2>2, AccountingOne, ZenonT(30) DEF TypeOK
<1>21. ASSUME NEW t \in Clients, ResetErr(t) PROVE Accounting'
  <2> DEFINE c == conn[t]
  <2>1. key[t] \in Keys /\ c \in Conns /\ place[c] = "resetting" /\ keyOf[c] = key[t]
    BY <1>21, OwnsOne DEF ResetErr
  <2>2. /\ place' = [place EXCEPT ![c] = "closed"]
        /\ keyOf' = [keyOf EXCEPT ![c] = NoKey]
        /\ total' = total - 1
        /\ UNCHANGED active
    BY <1>21 DEF ResetErr, CloseCounted
  <2> HIDE DEF c
  <2> QED
    BY <1>0, <1>q, <2>1, <2>2, AccountingOne, Zenon DEF TypeOK
<1>22. ASSUME NEW t \in Clients, NotifyReturned(t) PROVE Accounting'
  BY <1>22, <1>u, SMTT(30) DEF NotifyReturned
<1>23. ASSUME NEW c \in Conns, Expire(c) PROVE Accounting'
  BY <1>23, <1>u, SMTT(30) DEF Expire
<1>24. CASE UNCHANGED vars
  BY <1>24, <1>u, SMTT(30) DEF vars
<1> QED
  BY <1>1, <1>2, <1>3, <1>4, <1>5, <1>6, <1>7, <1>8, <1>9, <1>10, <1>11, <1>12,
     <1>13, <1>14, <1>15, <1>16, <1>17, <1>18, <1>19, <1>20, <1>21, <1>22, <1>23, <1>24, Zenon DEF Next

-----------------------------------------------------------------------------
(* Every step keeps the bound on the global count *)

\* No task is admitted and the count does not grow.
LEMMA OvershootShrink ==
  ASSUME TypeOK, GlobalOvershoot, Admitted' \subseteq Admitted, total' \in Nat, total' <= total
  PROVE  GlobalOvershoot'
<1>1. Admitted \in SUBSET Clients
  BY DEF Admitted
<1>2. Cardinality(Admitted') <= Cardinality(Admitted)
  BY <1>1, FiniteParts, FS_Subset
<1>3. Cardinality(Admitted) \in Nat /\ Cardinality(Admitted') \in Nat
  BY <1>1, FiniteParts
<1> QED
  BY <1>2, <1>3, FiniteParts, PoolAssumption DEF GlobalOvershoot, TypeOK

\* A task loads the global count: it is admitted only when there is room.
LEMMA OvershootLoad ==
  ASSUME IInv, NEW t \in Clients, LoadTotal(t)
  PROVE  GlobalOvershoot'
<1>1. /\ TypeOK /\ GlobalOvershoot /\ UNCHANGED total
      /\ pc' = [pc EXCEPT ![t] = "active"]
      /\ seenTotal' = [seenTotal EXCEPT ![t] = total]
  BY DEF IInv, LoadTotal, Goto, countVars
<1>2. CASE total < MaxTotal
  <2>1. Admitted' \in SUBSET Clients
    BY DEF Admitted
  <2>2. Cardinality(Admitted') \in Nat /\ Cardinality(Admitted') <= Cardinality(Clients)
    BY <2>1, FiniteParts, SMTT(30)
  <2> QED
    BY <1>1, <1>2, <2>2, FiniteParts, PoolAssumption, SMTT(30) DEF GlobalOvershoot, TypeOK
<1>3. CASE ~(total < MaxTotal)
  <2>1. Admitted' \subseteq Admitted
    BY <1>1, <1>3, SMTT(30) DEF Admitted, TypeOK
  <2> QED
    BY <1>1, <2>1, OvershootShrink, SMTT(30) DEF TypeOK
<1> QED
  BY <1>2, <1>3

\* An admitted task connects: one more connection, one admitted task less.
LEMMA OvershootConnect ==
  ASSUME IInv, NEW t \in Clients, NEW c \in Conns, ConnectOk(t, c)
  PROVE  GlobalOvershoot'
<1>1. /\ TypeOK /\ GlobalOvershoot /\ total' = total + 1 /\ pc[t] = "connect"
      /\ pc' = [pc EXCEPT ![t] = "serving"]
      /\ seenTotal' = [seenTotal EXCEPT ![t] = 0]
  BY DEF IInv, ConnectOk, Goto, EndAcquire
<1>2. t \in Admitted /\ Admitted' = Admitted \ {t} /\ Admitted \in SUBSET Clients
  BY <1>1 DEF Admitted, TypeOK
<1>3. /\ IsFiniteSet(Admitted) /\ Cardinality(Admitted) \in Nat
      /\ Cardinality(Admitted') = Cardinality(Admitted) - 1
  BY <1>2, FiniteParts, FS_RemoveElement, Zenon
<1> QED
  BY <1>1, <1>3, FiniteParts, PoolAssumption, SMTT(30) DEF GlobalOvershoot, TypeOK

\* The steps of Next, one by one.
LEMMA OvershootStep ==
  ASSUME IInv, [Next]_vars
  PROVE  GlobalOvershoot'
<1> USE DEF countVars, localVars
<1>0. TypeOK /\ GlobalOvershoot /\ TypeOK'
  BY CountersPositive, TypeStep, SMTT(30) DEF IInv
<1>t. ASSUME total' = total \/ total' = total - 1
      PROVE  total' \in Nat /\ total' <= total
  <2>1. total \in Nat /\ total' \in Nat
    BY <1>0 DEF TypeOK
  <2> QED
    BY <1>t, <2>1
<1>s. ASSUME NEW t \in Clients, NEW l, pc' = [pc EXCEPT ![t] = l],
             l \notin {"active", "len", "connect"},
             UNCHANGED seenTotal \/ seenTotal' = [seenTotal EXCEPT ![t] = 0],
             total' = total \/ total' = total - 1
      PROVE  GlobalOvershoot'
  <2>0. pc \in [Clients -> PC] /\ seenTotal \in [Clients -> Nat]
    BY <1>0, SMTT(30) DEF TypeOK
  <2>1. /\ pc'[t] = l
        /\ \A u \in Clients : u # t => pc'[u] = pc[u] /\ seenTotal'[u] = seenTotal[u]
    BY <1>s, <2>0, SMTT(30)
  <2>2. Admitted' \subseteq Admitted
    BY <1>s, <2>1 DEF Admitted
  <2> QED
    BY <1>0, <1>s, <1>t, <2>2, OvershootShrink, SMTT(30)
<1>u. ASSUME UNCHANGED <<pc, seenTotal>>, total' = total \/ total' = total - 1
      PROVE  GlobalOvershoot'
  <2>1. Admitted' \subseteq Admitted
    BY <1>u, SMTT(30) DEF Admitted
  <2> QED
    BY <1>0, <1>u, <1>t, <2>1, OvershootShrink
<1>n. ASSUME NEW t \in Clients, pc[t] # "absent", NotifyOneAndLeave(t),
             UNCHANGED seenTotal \/ seenTotal' = [seenTotal EXCEPT ![t] = 0], UNCHANGED total
      PROVE  GlobalOvershoot'
  <2>1. \/ pc' = [pc EXCEPT ![t] = "absent"]
        \/ pc' = [pc EXCEPT ![t] = "absent", ![Head(waiters[key[t]])] = "woken"]
    BY <1>n, SMTT(30) DEF NotifyOneAndLeave
  <2>2. \A u \in Clients : \/ u # t /\ pc'[u] = pc[u]
                           \/ pc'[u] \in {"absent", "woken"}
    BY <1>0, <2>1, Zenon DEF TypeOK
  <2>3. \A u \in Clients : u # t => seenTotal'[u] = seenTotal[u]
    BY <1>0, <1>n, SMTT(30) DEF TypeOK
  <2>4. Admitted' \subseteq Admitted
    BY <2>2, <2>3, SMTT(30) DEF Admitted
  <2> QED
    BY <1>0, <1>n, <1>t, <2>4, OvershootShrink
<1>1. ASSUME NEW t \in Clients, NEW k \in Keys, Accept(t, k) PROVE GlobalOvershoot'
  BY <1>1, <1>s, Zenon DEF Accept, Goto
<1>2. ASSUME NEW t \in Clients, LockIdle(t) PROVE GlobalOvershoot'
  BY <1>2, <1>s, ZenonT(30) DEF LockIdle, Goto
<1>3. ASSUME NEW t \in Clients, EvictHead(t) PROVE GlobalOvershoot'
  BY <1>3, <1>u DEF EvictHead, CloseCounted
<1>4. ASSUME NEW t \in Clients, TakeHead(t) PROVE GlobalOvershoot'
  BY <1>4, <1>s, Zenon DEF TakeHead, Goto, EndAcquire
<1>5. ASSUME NEW t \in Clients, ScanEmpty(t) PROVE GlobalOvershoot'
  BY <1>5, <1>s, Zenon DEF ScanEmpty, Goto
<1>6. ASSUME NEW t \in Clients, LoadTotal(t) PROVE GlobalOvershoot'
  BY <1>6, OvershootLoad
<1>7. ASSUME NEW t \in Clients, LoadActive(t) PROVE GlobalOvershoot'
  <2>1. Admitted' \subseteq Admitted
    BY <1>0, <1>7, ZenonT(30) DEF LoadActive, Goto, Admitted, TypeOK
  <2> QED
    BY <1>0, <1>7, <2>1, OvershootShrink DEF LoadActive, TypeOK
<1>8. ASSUME NEW t \in Clients, GoConnect(t) PROVE GlobalOvershoot'
  <2>1. Admitted' \subseteq Admitted
    BY <1>0, <1>8, ZenonT(30) DEF GoConnect, RoomSeen, Goto, Admitted, TypeOK
  <2> QED
    BY <1>0, <1>8, <2>1, OvershootShrink DEF GoConnect, TypeOK
<1>9. ASSUME NEW t \in Clients, GoWait(t) PROVE GlobalOvershoot'
  BY <1>9, <1>s, Zenon DEF GoWait, Goto
<1>10. ASSUME NEW t \in Clients, BailAtLimit(t) PROVE GlobalOvershoot'
  BY <1>10, <1>s, Zenon DEF BailAtLimit, FailAcquire, Leave, Goto, EndAcquire
<1>11. ASSUME NEW t \in Clients, Poll(t) PROVE GlobalOvershoot'
  <2>1. /\ pc' = [pc EXCEPT ![t] = "try"] \/ pc' = [pc EXCEPT ![t] = "parked"]
        /\ UNCHANGED <<seenTotal, total>>
    BY <1>11, Zenon DEF Poll, Goto
  <2> QED
    BY <1>s, <2>1
<1>12. ASSUME NEW t \in Clients, Resume(t) PROVE GlobalOvershoot'
  BY <1>12, <1>s, ZenonT(30) DEF Resume, Goto
<1>13. ASSUME NEW t \in Clients, DeadlinePasses(t) PROVE GlobalOvershoot'
  BY <1>13, <1>u DEF DeadlinePasses
<1>14. ASSUME NEW t \in Clients, TimeOut(t) PROVE GlobalOvershoot'
  BY <1>14, <1>s, Zenon DEF TimeOut, FailAcquire, Leave, Goto, EndAcquire
<1>15. ASSUME NEW t \in Clients, TimeOutNotified(t) PROVE GlobalOvershoot'
  BY <1>15, <1>n, ZenonT(30) DEF TimeOutNotified, EndAcquire
<1>16. ASSUME NEW t \in Clients, NEW c \in Conns, ConnectOk(t, c) PROVE GlobalOvershoot'
  BY <1>16, OvershootConnect
<1>17. ASSUME NEW t \in Clients, ConnectErr(t) PROVE GlobalOvershoot'
  BY <1>17, <1>s, Zenon DEF ConnectErr, FailAcquire, Leave, Goto, EndAcquire
<1>18. ASSUME NEW t \in Clients, Release(t) PROVE GlobalOvershoot'
  BY <1>18, <1>s, Zenon DEF Release, Goto
<1>19. ASSUME NEW t \in Clients, DropOnError(t) PROVE GlobalOvershoot'
  BY <1>19, <1>s, Zenon DEF DropOnError, Leave, Goto
<1>20. ASSUME NEW t \in Clients, ResetOk(t) PROVE GlobalOvershoot'
  BY <1>20, <1>s, Zenon DEF ResetOk, Goto
<1>21. ASSUME NEW t \in Clients, ResetErr(t) PROVE GlobalOvershoot'
  BY <1>21, <1>s, ZenonT(30) DEF ResetErr, CloseCounted, Leave, Goto
<1>22. ASSUME NEW t \in Clients, NotifyReturned(t) PROVE GlobalOvershoot'
  BY <1>22, <1>n, SMTT(30) DEF NotifyReturned
<1>23. ASSUME NEW c \in Conns, Expire(c) PROVE GlobalOvershoot'
  BY <1>23, <1>u, SMTT(30) DEF Expire
<1>24. CASE UNCHANGED vars
  BY <1>24, <1>u DEF vars
<1> QED
  BY <1>1, <1>2, <1>3, <1>4, <1>5, <1>6, <1>7, <1>8, <1>9, <1>10, <1>11, <1>12,
     <1>13, <1>14, <1>15, <1>16, <1>17, <1>18, <1>19, <1>20, <1>21, <1>22, <1>23, <1>24 DEF Next

-----------------------------------------------------------------------------
(* The theorems *)

\* The pool starts empty, with nothing counted.
LEMMA InitIInv == Init => IInv
<1> SUFFICES ASSUME Init PROVE IInv
  OBVIOUS
<1>1. TypeOK
  BY PoolAssumption DEF Init, TypeOK, PC, Places
<1>2. \A S : Range(<<>>) = {} /\ IsInjective(<<>>)
  BY DEF Range, IsInjective
<1>3. Waiting
  BY <1>2, SMTT(30) DEF Init, Waiting
<1>4. Ownership
  BY <1>2, PoolAssumption, SMTT(30)
     DEF Init, Ownership, QueueOwnership, TaskOwnership, SocketOwnership
<1>5. Accounting
  <2>1. Counted = {} /\ \A k \in Keys : InUse(k) = {}
    BY DEF Init, Counted, InUse
  <2> QED
    BY <2>1, FS_EmptySet, Zenon DEF Init, Accounting
<1>6. GlobalOvershoot
  <2>1. Admitted = {}
    BY DEF Init, Admitted
  <2> QED
    BY <2>1, FS_EmptySet, FiniteParts, PoolAssumption, SMTT(30) DEF Init, GlobalOvershoot
<1> QED
  BY <1>1, <1>3, <1>4, <1>5, <1>6 DEF IInv

\* The inductive invariant holds in every reachable state.
THEOREM Inductive == Spec => []IInv
<1>1. IInv /\ [Next]_vars => IInv'
  BY CountersPositive, TypeStep, WaitingStep, OwnershipStep, AccountingStep, OvershootStep DEF IInv
<1> QED
  BY <1>1, InitIInv, PTL DEF Spec

\* The pool's counters and queues keep their types; no unsigned counter is
\* ever decremented at zero.
THEOREM TypeCorrect == Spec => []TypeOK
<1>1. IInv => TypeOK
  BY DEF IInv
<1> QED
  BY <1>1, Inductive, PTL

\* A backend socket is never in two places: not in the hands of two clients,
\* not pooled while lent, not pooled twice, not in the hands of another key.
THEOREM SocketsHaveOneOwner == Spec => []Ownership
<1>1. IInv => Ownership
  BY DEF IInv
<1> QED
  BY <1>1, Inductive, PTL

\* total_server_connections and active_count equal the sockets they stand for,
\* in every interleaving of acquires, releases and failing sessions.
THEOREM CountersAddUp == Spec => []Accounting
<1>1. IInv => Accounting
  BY DEF IInv
<1> QED
  BY <1>1, Inductive, PTL

\* The global limit is overrun by fewer connections than there are clients.
THEOREM LimitOverrunBounded == Spec => []GlobalOvershoot
<1>1. IInv => GlobalOvershoot
  BY DEF IInv
<1> QED
  BY <1>1, Inductive, PTL

\* PoolManager keeps the promise of Lease: a connection is lent to one client
\* at a time, to clients of the key it was opened for, and only after a reset.
THEOREM PoolImplementsLease == Spec => ImplementsLease
<1>1. IInv /\ [Next]_vars => [L!Next]_(L!vars)
  BY LeaseStep
<1> QED
  BY <1>1, LeaseInit, Inductive, PTL DEF Spec, ImplementsLease, L!Spec

-----------------------------------------------------------------------------
(***************************************************************************)
(* How far a pool's own limit can be overrun.                              *)
(*                                                                         *)
(* acquire compares the limit with an active count it has loaded earlier   *)
(* and with the length of the idle queue now, and connections that are     *)
(* being reset are in neither.  What bounds the overrun is that a task     *)
(* gets to this comparison only after it has found the idle queue empty:   *)
(* at that moment every socket of the pool is in the hands of another task *)
(* or lost, and the lost ones stay in the active count for good.           *)
(***************************************************************************)

\* The sockets of a pool, and those that a failing session has dropped.
OpenOf(k) == {c \in Conns : keyOf[c] = k}
LostOf(k) == {c \in Conns : keyOf[c] = k /\ place[c] = "lost"}

\* Where a task is between an empty idle queue and its connection.
Checking == {"total", "active", "len", "connect"}

\* The tasks that may still connect: those that have seen room, and those that have
\* yet to load the active count, while the lost sockets alone do not fill the pool.
MayConnect(t, k) ==
  /\ key[t] = k
  /\ \/ pc[t] = "connect"
     \/ pc[t] = "len" /\ seenActive[t] < MaxPerPool
     \/ pc[t] \in {"total", "active"} /\ Cardinality(LostOf(k)) < MaxPerPool
Candidates(k) == {t \in Clients : MayConnect(t, k)}

\* The sockets of a pool and the tasks that may add to them.
BoundAt(k) ==
  Cardinality(OpenOf(k)) + Cardinality(Candidates(k)) < MaxPerPool + Cardinality(Clients)
PoolBound == \A k \in Keys : BoundAt(k)

-----------------------------------------------------------------------------
(* The bound: counting *)

\* These sets are finite.
LEMMA LimitSets ==
  ASSUME NEW k
  PROVE  /\ IsFiniteSet(OpenOf(k)) /\ Cardinality(OpenOf(k)) \in Nat
         /\ IsFiniteSet(LostOf(k)) /\ Cardinality(LostOf(k)) \in Nat
         /\ IsFiniteSet(Candidates(k)) /\ Cardinality(Candidates(k)) \in Nat
         /\ IsFiniteSet(OpenOf(k)') /\ Cardinality(OpenOf(k)') \in Nat
         /\ IsFiniteSet(LostOf(k)') /\ Cardinality(LostOf(k)') \in Nat
         /\ IsFiniteSet(Candidates(k)') /\ Cardinality(Candidates(k)') \in Nat
<1>1. /\ OpenOf(k) \in SUBSET Conns /\ OpenOf(k)' \in SUBSET Conns
      /\ LostOf(k) \in SUBSET Conns /\ LostOf(k)' \in SUBSET Conns
      /\ Candidates(k) \in SUBSET Clients /\ Candidates(k)' \in SUBSET Clients
  BY DEF OpenOf, LostOf, Candidates
<1> QED
  BY <1>1, FiniteParts, Zenon

\* A pool without new sockets and without new candidates stays within the bound.
LEMMA BoundShrink ==
  ASSUME NEW k, BoundAt(k), OpenOf(k)' \subseteq OpenOf(k), Candidates(k)' \subseteq Candidates(k)
  PROVE  BoundAt(k)'
<1>1. Cardinality(OpenOf(k)') <= Cardinality(OpenOf(k))
  BY LimitSets, FS_Subset, Zenon
<1>2. Cardinality(Candidates(k)') <= Cardinality(Candidates(k))
  BY LimitSets, FS_Subset, Zenon
<1> QED
  BY <1>1, <1>2, LimitSets, FiniteParts, PoolAssumption DEF BoundAt

\* No step but ConnectOk opens a socket, and a lost socket stays lost.
Closing ==
  \A c \in Conns : /\ keyOf'[c] \in {keyOf[c], NoKey}
                   /\ place[c] = "lost" => place'[c] = "lost" /\ keyOf'[c] = keyOf[c]

\* The open sockets of a key become no more, the lost ones no fewer.
LEMMA ClosingSets ==
  ASSUME Closing, NEW k \in Keys
  PROVE  /\ OpenOf(k)' \subseteq OpenOf(k)
         /\ Cardinality(LostOf(k)) <= Cardinality(LostOf(k)')
<1>1. OpenOf(k)' \subseteq OpenOf(k) /\ LostOf(k) \subseteq LostOf(k)'
  BY PoolAssumption DEF Closing, OpenOf, LostOf
<1> QED
  BY <1>1, LimitSets, FS_Subset, Zenon

\* Steps that take no task into the comparison: every task stays where it is or is
\* somewhere else afterwards.
LEMMA BoundQuiet ==
  ASSUME PoolBound, Closing,
         \A u \in Clients : \/ pc'[u] = pc[u] /\ key'[u] = key[u] /\ seenActive'[u] = seenActive[u]
                            \/ pc'[u] \notin Checking
  PROVE  PoolBound'
<1> SUFFICES ASSUME NEW k \in Keys PROVE BoundAt(k)'
  BY DEF PoolBound
<1>1. \A u \in Clients : MayConnect(u, k)' => MayConnect(u, k)
  BY ClosingSets, LimitSets, PoolAssumption DEF MayConnect, Checking
<1>2. Candidates(k)' \subseteq Candidates(k)
  BY <1>1, Zenon DEF Candidates
<1> QED
  BY <1>2, BoundShrink, ClosingSets DEF PoolBound

\* One task moves on in the comparison, and was a candidate if it is one now.
LEMMA BoundMove ==
  ASSUME PoolBound, NEW t \in Clients,
         UNCHANGED <<place, keyOf, key>>,
         \A u \in Clients : u # t => pc'[u] = pc[u] /\ seenActive'[u] = seenActive[u],
         \A k \in Keys : MayConnect(t, k)' => MayConnect(t, k)
  PROVE  PoolBound'
<1> SUFFICES ASSUME NEW k \in Keys PROVE BoundAt(k)'
  BY DEF PoolBound
<1>1. LostOf(k)' = LostOf(k) /\ OpenOf(k)' = OpenOf(k)
  BY DEF LostOf, OpenOf
<1>2. \A u \in Clients : MayConnect(u, k)' => MayConnect(u, k)
  BY <1>1 DEF MayConnect
<1>3. Candidates(k)' \subseteq Candidates(k)
  BY <1>2 DEF Candidates
<1> QED
  BY <1>1, <1>3, BoundShrink, Zenon DEF PoolBound

-----------------------------------------------------------------------------
(* The bound: the steps of the comparison *)

\* A task finds the idle queue empty.  If the lost sockets do not fill the pool, there
\* are fewer of them than the limit, and each other socket has a task that serves or
\* resets with it and is no candidate.
LEMMA BoundScan ==
  ASSUME IInv, PoolBound, NEW t \in Clients, ScanEmpty(t)
  PROVE  PoolBound'
<1> SUFFICES ASSUME NEW k \in Keys PROVE BoundAt(k)'
  BY DEF PoolBound
<1>0. /\ TypeOK /\ Ownership /\ pc[t] = "scan" /\ idle[key[t]] = <<>>
      /\ pc' = [pc EXCEPT ![t] = "total"]
      /\ UNCHANGED <<place, keyOf, key, conn, seenActive>>
  BY DEF IInv, ScanEmpty, Goto, sockVars, localVars
<1>1. LostOf(k)' = LostOf(k) /\ OpenOf(k)' = OpenOf(k)
  BY <1>0 DEF LostOf, OpenOf
<1>2. CASE key[t] # k \/ ~(Cardinality(LostOf(k)) < MaxPerPool)
  <2>1. \A u \in Clients : MayConnect(u, k)' => MayConnect(u, k)
    BY <1>0, <1>1, <1>2 DEF MayConnect, TypeOK
  <2>2. Candidates(k)' \subseteq Candidates(k)
    BY <2>1 DEF Candidates
  <2> QED
    BY <1>1, <2>2, BoundShrink DEF PoolBound
<1>3. CASE key[t] = k /\ Cardinality(LostOf(k)) < MaxPerPool
  <2> DEFINE Busy    == OpenOf(k) \ LostOf(k)
             Holders == {u \in Clients : conn[u] \in Busy}
  <2>1. \A c \in Busy : place[c] \in {"held", "resetting"} /\ c \in Conns
    <3>1. ASSUME NEW c \in Busy PROVE place[c] # "idle" /\ place[c] # "closed"
      <4>1. c \in Conns /\ keyOf[c] = k
        BY DEF OpenOf
      <4>2. Range(idle[k]) = {}
        BY <1>0, <1>3 DEF Range
      <4>3. place[c] # "idle"
        BY <1>0, <4>1, <4>2 DEF Ownership, QueueOwnership
      <4> QED
        BY <1>0, <4>1, <4>3, PoolAssumption DEF Ownership, SocketOwnership
    <3> QED
      BY <1>0, <3>1, Zenon DEF TypeOK, Places, OpenOf, LostOf
  <2>2. \A c \in Busy : \E u \in Holders : conn[u] = c
    BY <1>0, <2>1 DEF Ownership, SocketOwnership
  <2>3. IsFiniteSet(Holders) /\ Cardinality(Holders) \in Nat /\ IsFiniteSet(Busy)
    BY FiniteParts, LimitSets, FS_Difference, Zenon
  <2>4. Cardinality(Busy) \in Nat /\ Cardinality(Busy) <= Cardinality(Holders)
    <3>1. [u \in Holders |-> conn[u]] \in Surjection(Holders, Busy)
      BY <2>2 DEF Surjection
    <3>2. Cardinality(Busy) <= Cardinality(Holders)
      BY <2>3, <3>1, FS_Surjection, Zenon
    <3> QED
      BY <2>3, <3>2, FS_CardinalityType
  <2>5. Cardinality(OpenOf(k)) = Cardinality(LostOf(k)) + Cardinality(Busy)
    <3>1. OpenOf(k) = LostOf(k) \cup Busy /\ LostOf(k) \cap Busy = {}
      BY DEF OpenOf, LostOf
    <3> HIDE DEF Busy
    <3>2. Cardinality(LostOf(k) \cup Busy) =
            Cardinality(LostOf(k)) + Cardinality(Busy) - Cardinality(LostOf(k) \cap Busy)
      BY <2>3, LimitSets, FS_Union, Zenon
    <3>3. Cardinality(LostOf(k) \cap Busy) = 0
      BY <3>1, FS_EmptySet, Zenon
    <3>4. Cardinality(LostOf(k)) \in Nat
      BY LimitSets
    <3> QED
      BY <3>1, <3>2, <3>3, <3>4, <2>4
  <2>6. Holders \cap Candidates(k)' = {}
    <3>1. \A u \in Holders : pc[u] \in {"serving", "reset"}
      BY <1>0, <2>1 DEF Ownership, TaskOwnership
    <3>2. \A u \in Holders : pc'[u] \in {"serving", "reset"}
      BY <1>0, <3>1 DEF TypeOK
    <3> QED
      BY <3>2, Zenon DEF Candidates, MayConnect
  <2>7. Cardinality(Holders) + Cardinality(Candidates(k)') <= Cardinality(Clients)
    <3> DEFINE C == Candidates(k)'
    <3>1. Holders \cup C \in SUBSET Clients
      BY DEF Candidates
    <3>2. IsFiniteSet(C) /\ Cardinality(C) \in Nat
      BY LimitSets
    <3> HIDE DEF Holders, C
    <3>3. Cardinality(Holders \cup C) =
            Cardinality(Holders) + Cardinality(C) - Cardinality(Holders \cap C)
      BY <2>3, <3>2, FS_Union, Zenon
    <3>4. Cardinality(Holders \cup C) <= Cardinality(Clients)
      BY <3>1, FiniteParts, Zenon
    <3>5. Cardinality(Holders) + Cardinality(C) <= Cardinality(Clients)
      <4>1. Holders \cap C = {}
        BY <2>6 DEF C
      <4> QED
        BY <4>1, <2>3, <3>2, <3>3, <3>4, FS_EmptySet, FiniteParts, SMTT(30)
    <3> QED
      BY <3>5 DEF C
  <2> HIDE DEF Busy, Holders
  <2> QED
    BY <1>1, <1>3, <2>3, <2>4, <2>5, <2>7, LimitSets, FiniteParts, PoolAssumption,
       SMTT(30) DEF BoundAt
<1> QED
  BY <1>2, <1>3

\* A task loads the active count, which counts every lost socket.
LEMMA BoundLoad ==
  ASSUME IInv, PoolBound, NEW t \in Clients, LoadActive(t)
  PROVE  PoolBound'
<1>0. /\ TypeOK /\ Accounting /\ pc[t] = "active"
      /\ pc' = [pc EXCEPT ![t] = "len"]
      /\ seenActive' = [seenActive EXCEPT ![t] = active[key[t]]]
      /\ UNCHANGED <<place, keyOf, key>>
  BY Zenon DEF IInv, LoadActive, Goto, sockVars
<1>1. ASSUME NEW k \in Keys, MayConnect(t, k)' PROVE MayConnect(t, k)
  <2>1. key[t] = k /\ active[k] < MaxPerPool
    BY <1>0, <1>1 DEF MayConnect, TypeOK
  <2>2. Cardinality(LostOf(k)) <= Cardinality(InUse(k)) /\ Cardinality(InUse(k)) \in Nat
    <3>1. LostOf(k) \subseteq InUse(k) /\ InUse(k) \in SUBSET Conns
      BY DEF LostOf, InUse
    <3> QED
      BY <3>1, FiniteParts, FS_Subset, Zenon
  <2> QED
    BY <1>0, <2>1, <2>2, LimitSets, PoolAssumption, SMTT(30) DEF MayConnect, Accounting
<1> QED
  BY <1>0, <1>1, BoundMove, SMTT(30) DEF TypeOK

\* A task that goes on to connect has seen room.
LEMMA BoundGo ==
  ASSUME IInv, PoolBound, NEW t \in Clients, GoConnect(t)
  PROVE  PoolBound'
<1>0. /\ TypeOK /\ pc[t] = "len" /\ RoomSeen(t)
      /\ pc' = [pc EXCEPT ![t] = "connect"]
      /\ UNCHANGED <<place, keyOf, key, seenActive>>
  BY DEF IInv, GoConnect, Goto, sockVars, localVars
<1>1. seenActive[t] < MaxPerPool
  <2>1. key[t] \in Keys
    BY <1>0, HeadFacts
  <2>2. Len(idle[key[t]]) \in Nat /\ seenActive[t] \in Nat
    BY <1>0, <2>1 DEF TypeOK
  <2> QED
    BY <1>0, <2>2, PoolAssumption DEF RoomSeen
<1>2. \A k \in Keys : MayConnect(t, k)' => MayConnect(t, k)
  BY <1>0, <1>1 DEF MayConnect
<1> QED
  BY <1>0, <1>2, BoundMove DEF TypeOK

\* A candidate connects: one socket more, one candidate less.
LEMMA BoundConnect ==
  ASSUME IInv, PoolBound, NEW t \in Clients, NEW c \in Conns, ConnectOk(t, c)
  PROVE  PoolBound'
<1> SUFFICES ASSUME NEW k \in Keys PROVE BoundAt(k)'
  BY DEF PoolBound
<1>0. /\ TypeOK /\ Ownership /\ pc[t] = "connect" /\ place[c] = "closed"
      /\ place' = [place EXCEPT ![c] = "held"]
      /\ keyOf' = [keyOf EXCEPT ![c] = key[t]]
      /\ pc' = [pc EXCEPT ![t] = "serving"]
      /\ seenActive' = [seenActive EXCEPT ![t] = 0]
      /\ UNCHANGED key
  BY DEF IInv, ConnectOk, Goto, EndAcquire
<1>1. keyOf[c] = NoKey
  BY <1>0 DEF Ownership, SocketOwnership
<1>2. LostOf(k)' = LostOf(k)
  BY <1>0, <1>1, PoolAssumption, SMTT(30) DEF LostOf, TypeOK
<1>3. \A u \in Clients : u # t => (MayConnect(u, k)' <=> MayConnect(u, k))
  BY <1>0, <1>2 DEF MayConnect, TypeOK
<1>4. ~MayConnect(t, k)'
  BY <1>0 DEF MayConnect, TypeOK
<1>5. CASE key[t] = k
  <2>1. OpenOf(k)' = OpenOf(k) \cup {c} /\ c \notin OpenOf(k)
    BY <1>0, <1>1, <1>5, PoolAssumption, SMTT(30) DEF OpenOf, TypeOK
  <2>2. Candidates(k)' = Candidates(k) \ {t} /\ t \in Candidates(k)
    BY <1>0, <1>3, <1>4, <1>5 DEF Candidates, MayConnect
  <2>3. Cardinality(OpenOf(k)') = Cardinality(OpenOf(k)) + 1
    BY <2>1, LimitSets, FS_AddElement, Zenon
  <2>4. Cardinality(Candidates(k)') = Cardinality(Candidates(k)) - 1
    BY <2>2, LimitSets, FS_RemoveElement, ZenonT(40)
  <2> QED
    BY <2>3, <2>4, LimitSets, FiniteParts, PoolAssumption, SMTT(30) DEF PoolBound, BoundAt
<1>6. CASE key[t] # k
  <2>1. OpenOf(k)' \subseteq OpenOf(k)
    BY <1>0, <1>6 DEF OpenOf, TypeOK
  <2>2. Candidates(k)' \subseteq Candidates(k)
    BY <1>3, <1>4 DEF Candidates
  <2> QED
    BY <2>1, <2>2, BoundShrink DEF PoolBound
<1> QED
  BY <1>5, <1>6

-----------------------------------------------------------------------------
(* The bound: the other steps *)

\* Only ConnectOk opens a socket; nothing is done to a lost one.
LEMMA ClosingStep ==
  ASSUME IInv, [Next]_vars, \A t \in Clients, c \in Conns : ~ConnectOk(t, c)
  PROVE  Closing
<1> USE DEF sockVars
<1>0. TypeOK
  BY DEF IInv
<1>u. ASSUME UNCHANGED <<place, keyOf>> PROVE Closing
  BY <1>u DEF Closing
<1>c. ASSUME NEW c \in Conns, place[c] # "lost", CloseCounted(c) PROVE Closing
  BY <1>0, <1>c DEF Closing, CloseCounted, TypeOK
<1>p. ASSUME NEW c \in Conns, NEW p, place[c] # "lost",
             place' = [place EXCEPT ![c] = p], UNCHANGED keyOf
      PROVE  Closing
  BY <1>0, <1>p DEF Closing, TypeOK
<1>o. ASSUME NEW t \in Clients, pc[t] \in {"serving", "reset"}
      PROVE  conn[t] \in Conns /\ place[conn[t]] # "lost"
  BY <1>o DEF IInv, Ownership, TaskOwnership
<1>h. ASSUME NEW t \in Clients, pc[t] = "scan", idle[key[t]] # <<>>
      PROVE  Head(idle[key[t]]) \in Conns /\ place[Head(idle[key[t]])] # "lost"
  BY <1>h, HeadFacts
<1>1. ASSUME NEW t \in Clients, EvictHead(t) PROVE Closing
  BY <1>1, <1>c, <1>h, Zenon DEF EvictHead
<1>2. ASSUME NEW t \in Clients, TakeHead(t) PROVE Closing
  BY <1>2, <1>p, <1>h, Zenon DEF TakeHead
<1>3. ASSUME NEW t \in Clients, Release(t) PROVE Closing
  BY <1>3, <1>p, <1>o, Zenon DEF Release
<1>4. ASSUME NEW t \in Clients, DropOnError(t) PROVE Closing
  BY <1>4, <1>p, <1>o, Zenon DEF DropOnError
<1>5. ASSUME NEW t \in Clients, ResetOk(t) PROVE Closing
  BY <1>5, <1>p, <1>o, Zenon DEF ResetOk
<1>6. ASSUME NEW t \in Clients, ResetErr(t) PROVE Closing
  BY <1>6, <1>c, <1>o DEF ResetErr
<1>7. ASSUME NEW t \in Clients,
             \/ \E k \in Keys : Accept(t, k)
             \/ LockIdle(t) \/ ScanEmpty(t) \/ LoadTotal(t) \/ LoadActive(t)
             \/ GoConnect(t) \/ GoWait(t) \/ BailAtLimit(t) \/ Poll(t) \/ Resume(t)
             \/ DeadlinePasses(t) \/ TimeOut(t) \/ TimeOutNotified(t) \/ ConnectErr(t)
             \/ NotifyReturned(t)
      PROVE  UNCHANGED <<place, keyOf>>
  BY <1>7, ZenonT(30)
  DEF Accept, LockIdle, ScanEmpty, LoadTotal, LoadActive, GoConnect, GoWait, BailAtLimit, Poll,
      Resume, DeadlinePasses, TimeOut, TimeOutNotified, ConnectErr, NotifyReturned
<1>8. ASSUME NEW c \in Conns, Expire(c) PROVE UNCHANGED <<place, keyOf>>
  BY <1>8 DEF Expire
<1>9. CASE UNCHANGED vars
  BY <1>9, <1>u DEF vars
<1> QED
  BY <1>u, <1>1, <1>2, <1>3, <1>4, <1>5, <1>6, <1>7, <1>8, <1>9, Zenon DEF Next

\* Every step keeps the bound of every pool.
LEMMA BoundStep ==
  ASSUME IInv, PoolBound, [Next]_vars
  PROVE  PoolBound'
<1> USE DEF localVars
<1>0. TypeOK
  BY DEF IInv
<1> DEFINE Still(u) == pc'[u] = pc[u] /\ key'[u] = key[u] /\ seenActive'[u] = seenActive[u]
<1>q. ASSUME Closing, \A u \in Clients : Still(u) \/ pc'[u] \notin Checking PROVE PoolBound'
  BY <1>q, BoundQuiet, Zenon
<1>s. ASSUME Closing, NEW t \in Clients, NEW l, pc' = [pc EXCEPT ![t] = l], l \notin Checking,
             \A u \in Clients : u # t => key'[u] = key[u] /\ seenActive'[u] = seenActive[u]
      PROVE  PoolBound'
  BY <1>0, <1>s, <1>q DEF TypeOK
<1>l. ASSUME NEW t \in Clients, Leave(t) \/ UNCHANGED key,
             UNCHANGED seenActive \/ EndAcquire(t) \/ seenActive' = [seenActive EXCEPT ![t] = 0]
      PROVE  \A u \in Clients : u # t => key'[u] = key[u] /\ seenActive'[u] = seenActive[u]
  BY <1>0, <1>l DEF TypeOK, Leave, EndAcquire
<1>n. ASSUME Closing, NEW t \in Clients, NotifyOneAndLeave(t), UNCHANGED seenActive \/ EndAcquire(t)
      PROVE  PoolBound'
  <2>1. \/ pc' = [pc EXCEPT ![t] = "absent"]
        \/ pc' = [pc EXCEPT ![t] = "absent", ![Head(waiters[key[t]])] = "woken"]
    BY <1>n DEF NotifyOneAndLeave
  <2>2. \A u \in Clients : (u # t /\ pc'[u] = pc[u]) \/ pc'[u] \in {"absent", "woken"}
    BY <1>0, <2>1, Zenon DEF TypeOK
  <2>3. \A u \in Clients : u # t => key'[u] = key[u] /\ seenActive'[u] = seenActive[u]
    BY <1>0, <1>n DEF TypeOK, NotifyOneAndLeave, EndAcquire
  <2> QED
    BY <1>n, <1>q, <2>2, <2>3, Zenon DEF Checking
<1>1. ASSUME NEW t \in Clients, NEW c \in Conns, ConnectOk(t, c) PROVE PoolBound'
  BY <1>1, BoundConnect
<1>2. ASSUME NEW t \in Clients, ScanEmpty(t) PROVE PoolBound'
  BY <1>2, BoundScan
<1>3. ASSUME NEW t \in Clients, LoadTotal(t) PROVE PoolBound'
  <2>1. /\ pc[t] = "total" /\ pc' = [pc EXCEPT ![t] = "active"]
        /\ UNCHANGED <<place, keyOf, key, seenActive>>
    BY <1>3 DEF LoadTotal, Goto, sockVars
  <2>2. ASSUME NEW k \in Keys, MayConnect(t, k)' PROVE MayConnect(t, k)
    BY <1>0, <2>1, <2>2, Zenon DEF MayConnect, LostOf, TypeOK
  <2> QED
    BY <1>0, <2>1, <2>2, BoundMove DEF TypeOK
<1>4. ASSUME NEW t \in Clients, LoadActive(t) PROVE PoolBound'
  BY <1>4, BoundLoad
<1>5. ASSUME NEW t \in Clients, GoConnect(t) PROVE PoolBound'
  BY <1>5, BoundGo
<1>6. CASE \A t \in Clients, c \in Conns : ~ConnectOk(t, c)
  <2>0. Closing
    BY <1>6, ClosingStep
  <2>1. ASSUME NEW t \in Clients, NEW k \in Keys, Accept(t, k) PROVE PoolBound'
    <3>1. pc' = [pc EXCEPT ![t] = "try"] /\ key' = [key EXCEPT ![t] = k] /\ UNCHANGED seenActive
      BY <2>1 DEF Accept, Goto
    <3>2. \A u \in Clients : u # t => key'[u] = key[u] /\ seenActive'[u] = seenActive[u]
      BY <1>0, <3>1 DEF TypeOK
    <3> QED
      BY <1>s, <2>0, <3>1, <3>2, Zenon DEF Checking
  <2>2. ASSUME NEW t \in Clients,
               LockIdle(t) \/ GoWait(t) \/ Resume(t) \/ Release(t) \/ ResetOk(t) \/ TakeHead(t)
               \/ Poll(t)
        PROVE  PoolBound'
    <3>1. /\ \E l \in {"scan", "wait", "try", "reset", "notify", "serving", "parked"} :
               pc' = [pc EXCEPT ![t] = l]
          /\ UNCHANGED key
          /\ UNCHANGED seenActive \/ EndAcquire(t) \/ seenActive' = [seenActive EXCEPT ![t] = 0]
      BY <2>2, ZenonT(60) DEF LockIdle, GoWait, Resume, Release, ResetOk, TakeHead, Poll, Goto
    <3> QED
      BY <1>s, <1>l, <2>0, <3>1, Zenon DEF Checking
  <2>3. ASSUME NEW t \in Clients,
               BailAtLimit(t) \/ TimeOut(t) \/ ConnectErr(t) \/ DropOnError(t) \/ ResetErr(t)
        PROVE  PoolBound'
    <3>1. Leave(t) /\ (UNCHANGED seenActive \/ EndAcquire(t))
      BY <2>3, ZenonT(60) DEF BailAtLimit, TimeOut, ConnectErr, DropOnError, ResetErr, FailAcquire
    <3> QED
      BY <1>s, <1>l, <2>0, <3>1, Zenon DEF Checking, Leave, Goto
  <2>4. ASSUME NEW t \in Clients, TimeOutNotified(t) \/ NotifyReturned(t) PROVE PoolBound'
    BY <1>n, <2>0, <2>4 DEF TimeOutNotified, NotifyReturned
  <2>5. ASSUME UNCHANGED <<pc, key, seenActive>> PROVE PoolBound'
    BY <1>q, <2>0, <2>5, Zenon
  <2>6. ASSUME NEW t \in Clients, EvictHead(t) \/ DeadlinePasses(t) PROVE PoolBound'
    BY <2>5, <2>6 DEF EvictHead, DeadlinePasses
  <2>7. ASSUME NEW c \in Conns, Expire(c) PROVE PoolBound'
    BY <2>5, <2>7 DEF Expire
  <2>8. CASE UNCHANGED vars
    BY <2>5, <2>8 DEF vars
  <2> QED
    BY <1>2, <1>3, <1>4, <1>5, <1>6, <2>1, <2>2, <2>3, <2>4, <2>6, <2>7, <2>8, Zenon DEF Next
<1> QED
  BY <1>1, <1>6

\* The sockets of a pool and those about to be opened for it are fewer than its limit
\* plus the number of clients served at a time, however the loads of the counters, resets and failing sessions interleave.
THEOREM PoolOverrunBounded == Spec => []PerPoolOvershoot
<1>1. Init => PoolBound
  <2> SUFFICES ASSUME Init, NEW k \in Keys PROVE BoundAt(k)
    BY DEF PoolBound
  <2>1. OpenOf(k) = {} /\ Candidates(k) = {}
    BY PoolAssumption DEF Init, OpenOf, Candidates, MayConnect
  <2> QED
    BY <2>1, FS_EmptySet, FiniteParts, PoolAssumption DEF BoundAt
<1>2. IInv /\ PoolBound /\ [Next]_vars => PoolBound'
  BY BoundStep
<1>3. PoolBound => PerPoolOvershoot
  <2> SUFFICES ASSUME PoolBound, NEW k \in Keys
               PROVE  Cardinality({c \in Conns : keyOf[c] = k})
                        + Cardinality({t \in Clients : key[t] = k /\ pc[t] = "connect"})
                        < MaxPerPool + Cardinality(Clients)
    BY DEF PerPoolOvershoot
  <2> DEFINE Going == {t \in Clients : key[t] = k /\ pc[t] = "connect"}
  <2>1. Going \subseteq Candidates(k)
    BY DEF Candidates, MayConnect
  <2>2. Cardinality(Going) \in Nat /\ Cardinality(Going) <= Cardinality(Candidates(k))
    BY <2>1, LimitSets, FS_Subset, FS_CardinalityType, Zenon
  <2> HIDE DEF Going
  <2>3. Cardinality(OpenOf(k)) + Cardinality(Going) < MaxPerPool + Cardinality(Clients)
    BY <2>2, LimitSets, FiniteParts, PoolAssumption DEF PoolBound, BoundAt
  <2> QED
    BY <2>3 DEF OpenOf, Going
<1> QED
  BY <1>1, <1>2, <1>3, Inductive, PTL DEF Spec

=============================================================================
