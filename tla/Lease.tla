-------------------------------- MODULE Lease --------------------------------
(***************************************************************************)
(* What a connection pool promises, without limits, queues or counters: a  *)
(* backend connection is opened for one tenant, serves at most one client  *)
(* at a time, serves only clients of the tenant it was opened for, and is  *)
(* cleaned between two clients.                                            *)
(***************************************************************************)
CONSTANTS Clients, Tenants, Conns, NoConn, NoTenant

VARIABLES
  status,     \* "closed", "lent", "cleaning" or "shelved"
  tenant,     \* the tenant an open connection belongs to
  client,     \* the tenant of each client that is present
  holds       \* the connection lent to each client

vars == <<status, tenant, client, holds>>

Init ==
  /\ status = [c \in Conns |-> "closed"]
  /\ tenant = [c \in Conns |-> NoTenant]
  /\ client = [t \in Clients |-> NoTenant]
  /\ holds = [t \in Clients |-> NoConn]

\* A client of tenant k arrives.
Arrive(t, k) ==
  /\ client[t] = NoTenant
  /\ client' = [client EXCEPT ![t] = k]
  /\ UNCHANGED <<status, tenant, holds>>

\* A client that holds nothing goes away.
Depart(t) ==
  /\ holds[t] = NoConn
  /\ client' = [client EXCEPT ![t] = NoTenant]
  /\ UNCHANGED <<status, tenant, holds>>

Open(t, c) ==
  /\ client[t] # NoTenant /\ holds[t] = NoConn
  /\ status[c] = "closed"
  /\ status' = [status EXCEPT ![c] = "lent"]
  /\ tenant' = [tenant EXCEPT ![c] = client[t]]
  /\ holds' = [holds EXCEPT ![t] = c]
  /\ UNCHANGED client

Lend(t, c) ==
  /\ client[t] # NoTenant /\ holds[t] = NoConn
  /\ status[c] = "shelved" /\ tenant[c] = client[t]
  /\ status' = [status EXCEPT ![c] = "lent"]
  /\ holds' = [holds EXCEPT ![t] = c]
  /\ UNCHANGED <<tenant, client>>

GiveBack(t) ==
  /\ holds[t] # NoConn
  /\ status' = [status EXCEPT ![holds[t]] = "cleaning"]
  /\ holds' = [holds EXCEPT ![t] = NoConn]
  /\ UNCHANGED <<tenant, client>>

Shelve(c) ==
  /\ status[c] = "cleaning"
  /\ status' = [status EXCEPT ![c] = "shelved"]
  /\ UNCHANGED <<tenant, client, holds>>

\* A connection nobody holds is closed; the client t that gave it back may
\* go away in the same step.
Discard(c) ==
  /\ status[c] \in {"cleaning", "shelved"}
  /\ status' = [status EXCEPT ![c] = "closed"]
  /\ tenant' = [tenant EXCEPT ![c] = NoTenant]
  /\ UNCHANGED holds
  /\ \/ UNCHANGED client
     \/ \E t \in Clients :
          holds[t] = NoConn /\ client' = [client EXCEPT ![t] = NoTenant]

\* A client goes away and the connection it holds is closed with it.
Abandon(t) ==
  /\ holds[t] # NoConn
  /\ status' = [status EXCEPT ![holds[t]] = "closed"]
  /\ tenant' = [tenant EXCEPT ![holds[t]] = NoTenant]
  /\ holds' = [holds EXCEPT ![t] = NoConn]
  /\ client' = [client EXCEPT ![t] = NoTenant]

Next ==
  \/ \E t \in Clients : \/ \E k \in Tenants : Arrive(t, k)
                        \/ \E c \in Conns : Open(t, c) \/ Lend(t, c)
                        \/ Depart(t) \/ GiveBack(t) \/ Abandon(t)
  \/ \E c \in Conns : Shelve(c) \/ Discard(c)

Spec == Init /\ [][Next]_vars
=============================================================================
