-------------------------------- MODULE Pool --------------------------------
(***************************************************************************)
(* PoolManager (src/src/pool/mod.rs): acquire and release of backend       *)
(* connections, run by one task per client connection on a multi-threaded  *)
(* runtime.                                                                *)
(*                                                                         *)
(* Every access to state shared between tasks is a step of its own: the    *)
(* critical section on a pool's idle queue (one step per iteration of its  *)
(* loop), each load of a counter, the poll of the Notify, the completion   *)
(* of an awaited connect or reset.  What lies between two accesses is      *)
(* local to the task and belongs to the step before it.                    *)
(*                                                                         *)
(* Sockets are identified so that the counters the code keeps can be       *)
(* compared with the sockets that exist: place and keyOf are the sockets'  *)
(* own state, everything else is state of the program.                     *)
(***************************************************************************)
EXTENDS Integers, Sequences, FiniteSets, Functions

CONSTANTS
  Clients,      \* client tasks that can run at the same time
  Keys,         \* pool keys: (host, port, database, user)
  Conns,        \* identities of backend sockets
  NoConn,       \* a task that owns no socket
  NoKey,        \* a task without a client, a socket that is closed
  MaxPerPool,   \* pool.max_connections_per_pool
  MaxTotal      \* pool.max_total_connections

ASSUME PoolAssumption ==
  /\ Clients # {} /\ IsFiniteSet(Clients)
  /\ IsFiniteSet(Conns)
  /\ NoConn \notin Conns
  /\ NoKey \notin Keys
  /\ MaxPerPool \in Nat
  /\ MaxTotal \in Nat

VARIABLES
  idle,         \* Pool.idle: the queue of pooled connections, per key
  expired,      \* pooled connections whose lifetime or idle timeout has run out
  active,       \* Pool.active_count, per key
  total,        \* PoolManager.total_server_connections
  permit,       \* Pool.waiters: the one permit a Notify stores, per key
  waiters,      \* Pool.waiters: tasks waiting on the Notify, first come first
  place,        \* where each socket is
  keyOf,        \* the key each open socket was opened and authenticated for
  pc,           \* where each client task is
  key,          \* the pool key of each client
  conn,         \* the server connection each task owns
  seenTotal,    \* acquire's local total
  seenActive,   \* acquire's local load of active_count
  late          \* acquire's deadline has passed

queueVars  == <<idle, expired>>
countVars  == <<active, total>>
notifyVars == <<permit, waiters>>
sockVars   == <<place, keyOf>>
localVars  == <<seenTotal, seenActive, late>>
vars == <<queueVars, countVars, notifyVars, sockVars, pc, key, conn, localVars>>

\* The program points of a client task.
Before  == {"try", "scan", "total", "active", "len", "wait", "parked", "woken"}
PC      == Before \cup {"absent", "connect", "serving", "reset", "notify"}

\* "lost": closed by the drop of its TcpStream, but still counted by the pool.
Places  == {"closed", "idle", "held", "resetting", "lost"}

TypeOK ==
  /\ idle \in [Keys -> Seq(Conns)]
  /\ expired \in SUBSET Conns
  /\ active \in [Keys -> Nat]
  /\ total \in Nat
  /\ permit \in [Keys -> BOOLEAN]
  /\ waiters \in [Keys -> Seq(Clients)]
  /\ place \in [Conns -> Places]
  /\ keyOf \in [Conns -> Keys \cup {NoKey}]
  /\ pc \in [Clients -> PC]
  /\ key \in [Clients -> Keys \cup {NoKey}]
  /\ conn \in [Clients -> Conns \cup {NoConn}]
  /\ seenTotal \in [Clients -> Nat]
  /\ seenActive \in [Clients -> Nat]
  /\ late \in [Clients -> BOOLEAN]

Init ==
  /\ idle = [k \in Keys |-> <<>>]
  /\ expired = {}
  /\ active = [k \in Keys |-> 0]
  /\ total = 0
  /\ permit = [k \in Keys |-> FALSE]
  /\ waiters = [k \in Keys |-> <<>>]
  /\ place = [c \in Conns |-> "closed"]
  /\ keyOf = [c \in Conns |-> NoKey]
  /\ pc = [t \in Clients |-> "absent"]
  /\ key = [t \in Clients |-> NoKey]
  /\ conn = [t \in Clients |-> NoConn]
  /\ seenTotal = [t \in Clients |-> 0]
  /\ seenActive = [t \in Clients |-> 0]
  /\ late = [t \in Clients |-> FALSE]

-----------------------------------------------------------------------------
(* Steps shared by the operations. *)

Goto(t, l) == pc' = [pc EXCEPT ![t] = l]

\* No task is inside the loop of acquire that runs under pool.idle.lock().
IdleUnlocked(k) == \A t \in Clients : ~(pc[t] = "scan" /\ key[t] = k)

\* acquire is over: its locals die.
EndAcquire(t) ==
  /\ seenTotal' = [seenTotal EXCEPT ![t] = 0]
  /\ seenActive' = [seenActive EXCEPT ![t] = 0]
  /\ late' = [late EXCEPT ![t] = FALSE]

\* The task of client t ends; another client may take the slot.
Leave(t) ==
  /\ Goto(t, "absent")
  /\ key' = [key EXCEPT ![t] = NoKey]
  /\ conn' = [conn EXCEPT ![t] = NoConn]

\* acquire fails: handle_client reports the error and ends.
FailAcquire(t) == Leave(t) /\ EndAcquire(t)

\* The socket is closed and its slot in the global count given back.
CloseCounted(c) ==
  /\ place' = [place EXCEPT ![c] = "closed"]
  /\ keyOf' = [keyOf EXCEPT ![c] = NoKey]
  /\ total' = total - 1

\* Notify::notify_one on behalf of task t, which ends: the longest waiting
\* task is woken, or the permit is stored if nobody waits.
NotifyOneAndLeave(t) ==
  LET k == key[t] IN
  /\ IF waiters[k] = <<>>
     THEN /\ permit' = [permit EXCEPT ![k] = TRUE]
          /\ pc' = [pc EXCEPT ![t] = "absent"]
          /\ UNCHANGED waiters
     ELSE /\ waiters' = [waiters EXCEPT ![k] = Tail(@)]
          /\ pc' = [pc EXCEPT ![t] = "absent", ![Head(waiters[k])] = "woken"]
          /\ UNCHANGED permit
  /\ key' = [key EXCEPT ![t] = NoKey]
  /\ conn' = [conn EXCEPT ![t] = NoConn]

-----------------------------------------------------------------------------
(* acquire *)

\* A client has sent its startup message and password; acquire finds or
\* creates the pool of its key.
Accept(t, k) ==
  /\ pc[t] = "absent"
  /\ Goto(t, "try")
  /\ key' = [key EXCEPT ![t] = k]
  /\ UNCHANGED <<queueVars, countVars, notifyVars, sockVars, conn, localVars>>

LockIdle(t) ==
  /\ pc[t] = "try"
  /\ IdleUnlocked(key[t])
  /\ Goto(t, "scan")
  /\ UNCHANGED <<queueVars, countVars, notifyVars, sockVars, key, conn, localVars>>

\* Mutant of EvictHead: also gives back a slot of active_count, as if a client
\* had held the evicted connection.
EvictHeadAsActive(t) ==
  LET k == key[t] IN
  /\ pc[t] = "scan"
  /\ idle[k] # <<>>
  /\ Head(idle[k]) \in expired
  /\ idle' = [idle EXCEPT ![k] = Tail(@)]
  /\ expired' = expired \ {Head(idle[k])}
  /\ CloseCounted(Head(idle[k]))
  /\ active' = [active EXCEPT ![k] = @ - 1]
  /\ UNCHANGED <<notifyVars, pc, key, conn, localVars>>

\* The head of the queue is past its lifetime or idle timeout: it is closed.
EvictHead(t) ==
  LET k == key[t] IN
  /\ pc[t] = "scan"
  /\ idle[k] # <<>>
  /\ Head(idle[k]) \in expired
  /\ idle' = [idle EXCEPT ![k] = Tail(@)]
  /\ expired' = expired \ {Head(idle[k])}
  /\ CloseCounted(Head(idle[k]))
  /\ UNCHANGED <<active, notifyVars, pc, key, conn, localVars>>

\* Mutant of TakeHead: two pool keys that differ in the user only are taken for
\* the same (an Eq of PoolKey that forgets a field).
TakeHeadAnyUser(t) ==
  \E k \in Keys :
    LET c == Head(idle[k]) IN
    /\ pc[t] = "scan"
    /\ idle[k] # <<>>
    /\ c \notin expired
    /\ idle' = [idle EXCEPT ![k] = Tail(@)]
    /\ active' = [active EXCEPT ![key[t]] = @ + 1]
    /\ place' = [place EXCEPT ![c] = "held"]
    /\ conn' = [conn EXCEPT ![t] = c]
    /\ Goto(t, "serving")
    /\ EndAcquire(t)
    /\ UNCHANGED <<expired, total, notifyVars, keyOf, key>>

\* The head of the queue is handed to the client.
TakeHead(t) ==
  LET k == key[t]
      c == Head(idle[k]) IN
  /\ pc[t] = "scan"
  /\ idle[k] # <<>>
  /\ c \notin expired
  /\ idle' = [idle EXCEPT ![k] = Tail(@)]
  /\ active' = [active EXCEPT ![k] = @ + 1]
  /\ place' = [place EXCEPT ![c] = "held"]
  /\ conn' = [conn EXCEPT ![t] = c]
  /\ Goto(t, "serving")
  /\ EndAcquire(t)
  /\ UNCHANGED <<expired, total, notifyVars, keyOf, key>>

ScanEmpty(t) ==
  /\ pc[t] = "scan"
  /\ idle[key[t]] = <<>>
  /\ Goto(t, "total")
  /\ UNCHANGED <<queueVars, countVars, notifyVars, sockVars, key, conn, localVars>>

LoadTotal(t) ==
  /\ pc[t] = "total"
  /\ seenTotal' = [seenTotal EXCEPT ![t] = total]
  /\ Goto(t, "active")
  /\ UNCHANGED <<queueVars, countVars, notifyVars, sockVars, key, conn, seenActive, late>>

LoadActive(t) ==
  /\ pc[t] = "active"
  /\ seenActive' = [seenActive EXCEPT ![t] = active[key[t]]]
  /\ Goto(t, "len")
  /\ UNCHANGED <<queueVars, countVars, notifyVars, sockVars, key, conn, seenTotal, late>>

\* Mutants of RoomSeen: one of the comparisons is off by one (> for >=).
RoomSeenGlobalOff(t) ==
  /\ seenTotal[t] <= MaxTotal
  /\ seenActive[t] + Len(idle[key[t]]) < MaxPerPool

RoomSeenPerPoolOff(t) ==
  /\ seenTotal[t] < MaxTotal
  /\ seenActive[t] + Len(idle[key[t]]) <= MaxPerPool

\* The limits as the task sees them: a total and an active count loaded in
\* earlier steps, and the length of the idle queue now.
RoomSeen(t) ==
  /\ seenTotal[t] < MaxTotal
  /\ seenActive[t] + Len(idle[key[t]]) < MaxPerPool

\* Both limits leave room: connect.
GoConnect(t) ==
  /\ pc[t] = "len"
  /\ IdleUnlocked(key[t])
  /\ RoomSeen(t)
  /\ Goto(t, "connect")
  /\ UNCHANGED <<queueVars, countVars, notifyVars, sockVars, key, conn, localVars>>

\* A limit is reached: wait for a connection to be returned to this pool.
GoWait(t) ==
  /\ pc[t] = "len"
  /\ IdleUnlocked(key[t])
  /\ ~RoomSeen(t)
  /\ ~late[t]
  /\ Goto(t, "wait")
  /\ seenTotal' = [seenTotal EXCEPT ![t] = 0]
  /\ seenActive' = [seenActive EXCEPT ![t] = 0]
  /\ UNCHANGED <<queueVars, countVars, notifyVars, sockVars, key, conn, late>>

\* A limit is reached and the deadline has passed.
BailAtLimit(t) ==
  /\ pc[t] = "len"
  /\ IdleUnlocked(key[t])
  /\ ~RoomSeen(t)
  /\ late[t]
  /\ FailAcquire(t)
  /\ UNCHANGED <<queueVars, countVars, notifyVars, sockVars>>

\* First poll of waiters.notified(): consume the permit or queue up.
Poll(t) ==
  LET k == key[t] IN
  /\ pc[t] = "wait"
  /\ IF permit[k]
     THEN /\ permit' = [permit EXCEPT ![k] = FALSE]
          /\ Goto(t, "try")
          /\ UNCHANGED waiters
     ELSE /\ waiters' = [waiters EXCEPT ![k] = Append(@, t)]
          /\ Goto(t, "parked")
          /\ UNCHANGED permit
  /\ UNCHANGED <<queueVars, countVars, sockVars, key, conn, localVars>>

\* Mutant of Resume: the deadline is computed inside the loop.
ResumeNewDeadline(t) ==
  /\ pc[t] = "woken"
  /\ Goto(t, "try")
  /\ late' = [late EXCEPT ![t] = FALSE]
  /\ UNCHANGED <<queueVars, countVars, notifyVars, sockVars, key, conn, seenTotal, seenActive>>

\* The notified() branch of the select is taken: back to the top of the loop.
Resume(t) ==
  /\ pc[t] = "woken"
  /\ Goto(t, "try")
  /\ UNCHANGED <<queueVars, countVars, notifyVars, sockVars, key, conn, localVars>>

\* Time passes the deadline of an acquire.
DeadlinePasses(t) ==
  /\ pc[t] \in Before
  /\ ~late[t]
  /\ late' = [late EXCEPT ![t] = TRUE]
  /\ UNCHANGED <<queueVars, countVars, notifyVars, sockVars, pc, key, conn, seenTotal, seenActive>>

\* A queue without its i-th element.
RemoveAt(s, i) == SubSeq(s, 1, i - 1) \o SubSeq(s, i + 1, Len(s))

\* The sleep branch of the select is taken by a task that was not notified;
\* dropping the Notified future takes the task out of the queue.
TimeOut(t) ==
  LET k == key[t] IN
  /\ late[t]
  /\ \/ pc[t] = "wait" /\ UNCHANGED waiters
     \/ /\ pc[t] = "parked"
        /\ \E i \in 1 .. Len(waiters[k]) :
             /\ waiters[k][i] = t
             /\ waiters' = [waiters EXCEPT ![k] = RemoveAt(@, i)]
  /\ FailAcquire(t)
  /\ UNCHANGED <<queueVars, countVars, permit, sockVars>>

\* The sleep branch is taken although a notification has arrived: dropping
\* the Notified future passes the notification on.
TimeOutNotified(t) ==
  /\ pc[t] = "woken"
  /\ late[t]
  /\ NotifyOneAndLeave(t)
  /\ EndAcquire(t)
  /\ UNCHANGED <<queueVars, countVars, sockVars>>

\* connect_backend succeeds with a new socket c.
ConnectOk(t, c) ==
  LET k == key[t] IN
  /\ pc[t] = "connect"
  /\ place[c] = "closed"
  /\ place' = [place EXCEPT ![c] = "held"]
  /\ keyOf' = [keyOf EXCEPT ![c] = k]
  /\ total' = total + 1
  /\ active' = [active EXCEPT ![k] = @ + 1]
  /\ conn' = [conn EXCEPT ![t] = c]
  /\ Goto(t, "serving")
  /\ EndAcquire(t)
  /\ UNCHANGED <<queueVars, notifyVars, key>>

ConnectErr(t) ==
  /\ pc[t] = "connect"
  /\ FailAcquire(t)
  /\ UNCHANGED <<queueVars, countVars, notifyVars, sockVars>>

-----------------------------------------------------------------------------
(* The end of a session *)

\* Mutant of Release: the connection is pooled without having been reset.
ReleaseUnreset(t) ==
  LET k == key[t] IN
  /\ pc[t] = "serving"
  /\ IdleUnlocked(k)
  /\ active' = [active EXCEPT ![k] = @ - 1]
  /\ idle' = [idle EXCEPT ![k] = Append(@, conn[t])]
  /\ place' = [place EXCEPT ![conn[t]] = "idle"]
  /\ conn' = [conn EXCEPT ![t] = NoConn]
  /\ Goto(t, "notify")
  /\ UNCHANGED <<expired, total, notifyVars, keyOf, key, localVars>>

\* handle_client leaves its proxy loop normally and calls release.
Release(t) ==
  /\ pc[t] = "serving"
  /\ active' = [active EXCEPT ![key[t]] = @ - 1]
  /\ place' = [place EXCEPT ![conn[t]] = "resetting"]
  /\ Goto(t, "reset")
  /\ UNCHANGED <<queueVars, total, notifyVars, keyOf, key, conn, localVars>>

\* handle_client leaves through the ? operator (a read, a write or a parse
\* failed): server_conn is dropped, release is not called.
DropOnError(t) ==
  /\ pc[t] = "serving"
  /\ place' = [place EXCEPT ![conn[t]] = "lost"]
  /\ Leave(t)
  /\ UNCHANGED <<queueVars, countVars, notifyVars, keyOf, localVars>>

\* reset_connection succeeds: the socket goes to the back of the idle queue
\* with fresh time stamps.
ResetOk(t) ==
  LET k == key[t] IN
  /\ pc[t] = "reset"
  /\ IdleUnlocked(k)
  /\ idle' = [idle EXCEPT ![k] = Append(@, conn[t])]
  /\ place' = [place EXCEPT ![conn[t]] = "idle"]
  /\ conn' = [conn EXCEPT ![t] = NoConn]
  /\ Goto(t, "notify")
  /\ UNCHANGED <<expired, countVars, notifyVars, keyOf, key, localVars>>

\* Mutant of ResetErr: the global count is not given back.
ResetErrUncounted(t) ==
  /\ pc[t] = "reset"
  /\ place' = [place EXCEPT ![conn[t]] = "closed"]
  /\ keyOf' = [keyOf EXCEPT ![conn[t]] = NoKey]
  /\ Leave(t)
  /\ UNCHANGED <<queueVars, countVars, notifyVars, localVars>>

\* reset_connection fails: the socket is closed; nobody is notified.
ResetErr(t) ==
  /\ pc[t] = "reset"
  /\ CloseCounted(conn[t])
  /\ Leave(t)
  /\ UNCHANGED <<queueVars, active, notifyVars, localVars>>

NotifyReturned(t) ==
  /\ pc[t] = "notify"
  /\ NotifyOneAndLeave(t)
  /\ UNCHANGED <<queueVars, countVars, sockVars, localVars>>

\* Time passes the lifetime or the idle timeout of a pooled connection.
Expire(c) ==
  /\ place[c] = "idle"
  /\ c \notin expired
  /\ expired' = expired \cup {c}
  /\ UNCHANGED <<idle, countVars, notifyVars, sockVars, pc, key, conn, localVars>>

-----------------------------------------------------------------------------
Next ==
  \/ \E t \in Clients :
       \/ \E k \in Keys : Accept(t, k)
       \/ LockIdle(t) \/ EvictHead(t) \/ TakeHead(t) \/ ScanEmpty(t)
       \/ LoadTotal(t) \/ LoadActive(t)
       \/ GoConnect(t) \/ GoWait(t) \/ BailAtLimit(t)
       \/ Poll(t) \/ Resume(t)
       \/ DeadlinePasses(t) \/ TimeOut(t) \/ TimeOutNotified(t)
       \/ \E c \in Conns : ConnectOk(t, c)
       \/ ConnectErr(t)
       \/ Release(t) \/ DropOnError(t)
       \/ ResetOk(t) \/ ResetErr(t) \/ NotifyReturned(t)
  \/ \E c \in Conns : Expire(c)

Spec == Init /\ [][Next]_vars

-----------------------------------------------------------------------------
(* Fairness: the runtime polls a runnable task again (weak fairness of the   *)
(* task's next step), timers fire, and parking_lot's mutexes are eventually  *)
(* fair (strong fairness for the steps that need the lock of the idle        *)
(* queue).  Nothing is assumed of clients, of backends or of a connect in    *)
(* progress.                                                                 *)

Fairness ==
  \A t \in Clients :
    /\ SF_vars(LockIdle(t) \/ GoConnect(t) \/ GoWait(t) \/ BailAtLimit(t))
    /\ WF_vars(\/ EvictHead(t) \/ TakeHead(t) \/ ScanEmpty(t)
               \/ LoadTotal(t) \/ LoadActive(t)
               \/ Poll(t) \/ Resume(t) \/ TimeOut(t) \/ TimeOutNotified(t)
               \/ NotifyReturned(t))
    /\ WF_vars(DeadlinePasses(t))

FairSpec == Spec /\ Fairness

-----------------------------------------------------------------------------
(* Properties *)

\* The idle queue of a pool holds the pooled sockets of its key, each once.
QueueOwnership ==
  \A k \in Keys :
    /\ Range(idle[k]) = {c \in Conns : place[c] = "idle" /\ keyOf[c] = k}
    /\ IsInjective(idle[k])

\* A task that serves a client or resets a connection owns a socket of its
\* key, and no other task does.
TaskOwnership ==
  \A t \in Clients :
    /\ pc[t] \in {"serving", "reset"} <=> conn[t] \in Conns
    /\ pc[t] = "serving" => place[conn[t]] = "held"
    /\ pc[t] = "reset" => place[conn[t]] = "resetting"
    /\ conn[t] \in Conns => keyOf[conn[t]] = key[t]
    /\ \A u \in Clients : conn[t] = conn[u] /\ conn[t] \in Conns => t = u

\* A socket outside a queue that was not dropped has a task that owns it; only
\* pooled sockets can have run out of time.
SocketOwnership ==
  \A c \in Conns :
    /\ place[c] \in {"held", "resetting"} => \E t \in Clients : conn[t] = c
    /\ place[c] = "closed" <=> keyOf[c] = NoKey
    /\ c \in expired => place[c] = "idle"

\* Every open socket is in exactly one place: the idle queue of the pool of
\* its own key (once), or the local variable of one task of a client with that
\* key, which serves the client with it or resets it.  (pool/mod.rs: acquire
\* pops what it hands out, release pushes what it has reset.)
Ownership == QueueOwnership /\ TaskOwnership /\ SocketOwnership

\* The sockets that PoolManager.total_server_connections and
\* Pool.active_count stand for.
Counted   == {c \in Conns : place[c] # "closed"}
InUse(k)  == {c \in Conns : keyOf[c] = k /\ place[c] \in {"held", "lost"}}

\* The atomics add up: the global count is the number of sockets that were
\* connected and not given back, the count of a pool the number of sockets its
\* clients hold or have dropped without release.  In particular no fetch_sub
\* ever takes an unsigned counter below zero.
Accounting ==
  /\ total = Cardinality(Counted)
  /\ \A k \in Keys : active[k] = Cardinality(InUse(k))

\* Tasks that have seen room under the global limit and may still connect.
Admitted ==
  {t \in Clients : \/ pc[t] \in {"active", "len"} /\ seenTotal[t] < MaxTotal
                   \/ pc[t] = "connect"}

\* How far the global limit can be overrun by tasks that checked it before the
\* others connected: by less than the number of clients served at a time.
GlobalOvershoot == total + Cardinality(Admitted) < MaxTotal + Cardinality(Clients)

\* The same for a pool's own limit, which is compared with counters loaded at
\* different times and does not see connections that are being reset: the
\* sockets of a pool and the tasks that are about to add one.
PerPoolOvershoot ==
  \A k \in Keys :
    Cardinality({c \in Conns : keyOf[c] = k})
      + Cardinality({t \in Clients : key[t] = k /\ pc[t] = "connect"})
      < MaxPerPool + Cardinality(Clients)

\* Every acquire leaves the wait for capacity: it returns a pooled connection,
\* gives up at its deadline, or goes on to connect_backend.
AcquireDecides ==
  \A t \in Clients : pc[t] \in Before ~> pc[t] \in {"serving", "absent", "connect"}

\* The Notify queue of a pool holds each waiting task of its own key once, and
\* a task has a key exactly while it has a client.
Waiting ==
  /\ \A t \in Clients : pc[t] = "absent" <=> key[t] = NoKey
  /\ \A k \in Keys :
       /\ \A t \in Range(waiters[k]) : pc[t] = "parked" /\ key[t] = k
       /\ IsInjective(waiters[k])

-----------------------------------------------------------------------------
(* The pool implements leases.  A socket dropped by a failing session is    *)
(* closed as far as its clients can tell.                                   *)

LeaseStatus ==
  [c \in Conns |-> CASE place[c] \in {"closed", "lost"} -> "closed"
                     [] place[c] = "held" -> "lent"
                     [] place[c] = "resetting" -> "cleaning"
                     [] place[c] = "idle" -> "shelved"]
LeaseTenant == [c \in Conns |-> IF place[c] = "lost" THEN NoKey ELSE keyOf[c]]
LeaseHolds  == [t \in Clients |-> IF pc[t] = "serving" THEN conn[t] ELSE NoConn]

L == INSTANCE Lease WITH Tenants <- Keys, NoTenant <- NoKey,
       status <- LeaseStatus, tenant <- LeaseTenant,
       client <- key, holds <- LeaseHolds

\* Each step of acquire, release and a failing session is a step of the lease
\* protocol or invisible to it: no connection is ever lent to two clients, to a
\* client of another key, or again before it has been reset.
ImplementsLease == L!Spec

-----------------------------------------------------------------------------
(* Statements of the documentation and comments that the code does not keep *)

\* pool/mod.rs: "Wait for a connection to be returned": nobody waits for the
\* return of a connection to a pool that has one, unless a task that was
\* notified or has yet to notify is about to see to it.
NoStrandedWaiter ==
  \A k \in Keys :
    waiters[k] # <<>> /\ idle[k] # <<>> =>
      \E t \in Clients : key[t] = k /\ pc[t] \in {"notify", "woken", "try", "scan"}
=============================================================================
