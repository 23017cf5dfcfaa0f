------------------------------ MODULE Monitor ------------------------------
(***************************************************************************)
(* DbSizeMonitor (src/src/monitor/mod.rs): the periodic size check, and    *)
(* the sessions that handle_client registers with it.                      *)
(*                                                                         *)
(* The monitor task and the client tasks share three concurrent maps       *)
(* (db_sizes, db_limits, sessions) and one atomic flag per session.  Each  *)
(* access to a map is a step of its own, so that a registration can fall   *)
(* between any two steps of a check.                                       *)
(***************************************************************************)
EXTENDS Integers, FiniteSets

CONSTANTS
  Sessions,       \* session ids, each used once (SESSION_ID_COUNTER)
  Databases,
  None,           \* Option::None
  MaxBytes,       \* bound on sizes and limits
  DefaultLimit    \* monitor.default_max_db_size_bytes, 0 = unlimited

Bytes == 0 .. MaxBytes

ASSUME MonitorAssumption ==
  /\ MaxBytes \in Nat
  /\ DefaultLimit \in Bytes
  /\ None \notin Bytes
  /\ None \notin Databases

VARIABLES
  real,           \* the true size of each database, which its server knows
  db_sizes,       \* the last measured size of each database
  db_limits,      \* the limit a client last registered for each database
  sessions,       \* ids of the entries in the session registry
  pc,             \* where the client task of each session is
  db,             \* its database
  max_db_size,    \* its startup parameter
  over_limit,     \* its flag
  mpc,            \* where the monitor task is
  todo,           \* databases this check has still to measure
  pending,        \* registry entries this check has still to visit
  peak            \* history: the largest size ever measured

sessionVars == <<pc, db, max_db_size>>
vars == <<real, db_sizes, db_limits, sessions, sessionVars,
          over_limit, mpc, todo, pending, peak>>

TypeOK ==
  /\ real \in [Databases -> Bytes]
  /\ db_sizes \in [Databases -> Bytes \cup {None}]
  /\ db_limits \in [Databases -> Bytes \cup {None}]
  /\ sessions \in SUBSET Sessions
  /\ pc \in [Sessions -> {"new", "greeting", "registering", "live", "gone"}]
  /\ db \in [Sessions -> Databases \cup {None}]
  /\ \A s \in Sessions : db[s] = None <=> pc[s] = "new"
  /\ max_db_size \in [Sessions -> Bytes \cup {None}]
  /\ over_limit \in [Sessions -> BOOLEAN]
  /\ mpc \in {"sleep", "connect", "query", "flags"}
  /\ todo \in SUBSET Databases
  /\ pending \in SUBSET sessions
  /\ peak \in [Databases -> Bytes]

Init ==
  /\ real \in [Databases -> Bytes]
  /\ db_sizes = [d \in Databases |-> None]
  /\ db_limits = [d \in Databases |-> None]
  /\ sessions = {}
  /\ pc = [s \in Sessions |-> "new"]
  /\ db = [s \in Sessions |-> None]
  /\ max_db_size = [s \in Sessions |-> None]
  /\ over_limit = [s \in Sessions |-> FALSE]
  /\ mpc = "sleep"
  /\ todo = {}
  /\ pending = {}
  /\ peak = [d \in Databases |-> 0]

-----------------------------------------------------------------------------
(* Limits *)

\* The limit handle_client registers a session with; 0 means unlimited.
effective_limit(s) == IF max_db_size[s] # None THEN max_db_size[s] ELSE DefaultLimit

\* size > limit, for a size that may not have been measured yet.
Exceeds(size, limit) == size # None /\ size > limit

-----------------------------------------------------------------------------
(* A client session *)

\* Mutant of LimitsWith: the limit of the session is not made known to the monitor.
LimitsWithout(d, m) == db_limits

\* register_limit.
LimitsWith(d, m) == [db_limits EXCEPT ![d] = IF m # None THEN m ELSE @]

\* A client has its backend connection; register_limit overwrites whatever
\* limit another client has registered for the database.
Begin(s, d, m) ==
  /\ pc[s] = "new"
  /\ pc' = [pc EXCEPT ![s] = "greeting"]
  /\ db' = [db EXCEPT ![s] = d]
  /\ max_db_size' = [max_db_size EXCEPT ![s] = m]
  /\ db_limits' = LimitsWith(d, m)
  /\ UNCHANGED <<real, db_sizes, sessions, over_limit,
                 mpc, todo, pending, peak>>

\* A write of the greeting fails: handle_client returns.
GreetingFails(s) ==
  /\ pc[s] = "greeting"
  /\ pc' = [pc EXCEPT ![s] = "gone"]
  /\ UNCHANGED <<real, db_sizes, db_limits, sessions, db,
                 max_db_size, over_limit, mpc, todo, pending, peak>>

\* Mutant of FirstFlag: a limit of 0 is compared like any other.
FirstFlagZeroLimit(s) == Exceeds(db_sizes[db[s]], effective_limit(s))

FirstFlag(s) == effective_limit(s) > 0 /\ Exceeds(db_sizes[db[s]], effective_limit(s))

\* register_session, first half: the flag starts from the size known now.
ReadSize(s) ==
  /\ pc[s] = "greeting"
  /\ pc' = [pc EXCEPT ![s] = "registering"]
  /\ over_limit' = [over_limit EXCEPT ![s] = FirstFlag(s)]
  /\ UNCHANGED <<real, db_sizes, db_limits, sessions, db,
                 max_db_size, mpc, todo, pending, peak>>

\* register_session, second half: the entry is inserted.  An iteration over
\* the map that is under way may or may not come across it.
InsertSession(s) ==
  /\ pc[s] = "registering"
  /\ pc' = [pc EXCEPT ![s] = "live"]
  /\ sessions' = sessions \cup {s}
  /\ \/ UNCHANGED pending
     \/ mpc = "flags" /\ pending' = pending \cup {s}
  /\ UNCHANGED <<real, db_sizes, db_limits, db, max_db_size,
                 over_limit, mpc, todo, peak>>

\* Mutant of Remaining: the check goes through a copy of the registry and still
\* visits the entry.
RemainingCopy(s) == pending

\* What a check has still to visit when an entry is removed.
Remaining(s) == pending \ {s}

\* The proxy loop ends normally: unregister_session.
Unregister(s) ==
  /\ pc[s] = "live"
  /\ pc' = [pc EXCEPT ![s] = "gone"]
  /\ sessions' = sessions \ {s}
  /\ pending' = Remaining(s)
  /\ UNCHANGED <<real, db_sizes, db_limits, db, max_db_size,
                 over_limit, mpc, todo, peak>>

\* The proxy loop ends with an error: handle_client returns through the ?
\* operator and unregister_session is not called.
FailSession(s) ==
  /\ pc[s] = "live"
  /\ pc' = [pc EXCEPT ![s] = "gone"]
  /\ UNCHANGED <<real, db_sizes, db_limits, sessions, db,
                 max_db_size, over_limit, mpc, todo, pending, peak>>

-----------------------------------------------------------------------------
(* check_all_sizes *)

\* A tick with something to check: the databases of db_limits are listed.
Tick ==
  /\ mpc = "sleep"
  /\ todo' = {d \in Databases : db_limits[d] # None}
  /\ todo' # {}
  /\ mpc' = "connect"
  /\ UNCHANGED <<real, db_sizes, db_limits, sessions, sessionVars,
                 over_limit, pending, peak>>

ConnectOk ==
  /\ mpc = "connect"
  /\ mpc' = "query"
  /\ UNCHANGED <<real, db_sizes, db_limits, sessions, sessionVars,
                 over_limit, todo, pending, peak>>

ConnectErr ==
  /\ mpc = "connect"
  /\ mpc' = "sleep"
  /\ todo' = {}
  /\ UNCHANGED <<real, db_sizes, db_limits, sessions, sessionVars,
                 over_limit, pending, peak>>

QueryOk(d) ==
  /\ mpc = "query"
  /\ d \in todo
  /\ todo' = todo \ {d}
  /\ db_sizes' = [db_sizes EXCEPT ![d] = real[d]]
  /\ peak' = [peak EXCEPT ![d] = IF real[d] > @ THEN real[d] ELSE @]
  /\ UNCHANGED <<real, db_limits, sessions, sessionVars, over_limit, mpc, pending>>

QueryErr(d) ==
  /\ mpc = "query"
  /\ d \in todo
  /\ todo' = todo \ {d}
  /\ UNCHANGED <<real, db_sizes, db_limits, sessions, sessionVars,
                 over_limit, mpc, pending, peak>>

StartFlags ==
  /\ mpc = "query"
  /\ todo = {}
  /\ mpc' = "flags"
  /\ pending' = sessions
  /\ UNCHANGED <<real, db_sizes, db_limits, sessions, sessionVars,
                 over_limit, todo, peak>>

\* Mutants of NewFlag: the flag is only ever raised; the size is compared with >=
\* instead of >.
NewFlagRaiseOnly(s) == over_limit[s] \/ FirstFlag(s)
NewFlagAtLimit(s) ==
  IF effective_limit(s) = 0 \/ db_sizes[db[s]] = None THEN over_limit[s]
  ELSE db_sizes[db[s]] >= effective_limit(s)

NewFlag(s) ==
  IF effective_limit(s) = 0 \/ db_sizes[db[s]] = None THEN over_limit[s]
  ELSE db_sizes[db[s]] > effective_limit(s)

\* The flag of one registered session is recomputed.
VisitSession(s) ==
  /\ mpc = "flags"
  /\ s \in pending
  /\ pending' = pending \ {s}
  /\ over_limit' = [over_limit EXCEPT ![s] = NewFlag(s)]
  /\ UNCHANGED <<real, db_sizes, db_limits, sessions, sessionVars,
                 mpc, todo, peak>>

EndCheck ==
  /\ mpc = "flags"
  /\ pending = {}
  /\ mpc' = "sleep"
  /\ UNCHANGED <<real, db_sizes, db_limits, sessions, sessionVars,
                 over_limit, todo, pending, peak>>

-----------------------------------------------------------------------------
\* A database grows or shrinks, whoever writes to it.
Resize(d, n) ==
  /\ real' = [real EXCEPT ![d] = n]
  /\ UNCHANGED <<db_sizes, db_limits, sessions, sessionVars,
                 over_limit, mpc, todo, pending, peak>>

Check ==
  \/ Tick \/ ConnectOk \/ ConnectErr
  \/ \E d \in Databases : QueryOk(d) \/ QueryErr(d)
  \/ StartFlags \/ (\E s \in Sessions : VisitSession(s)) \/ EndCheck

Next ==
  \/ \E s \in Sessions :
       \/ \E d \in Databases, m \in Bytes \cup {None} : Begin(s, d, m)
       \/ GreetingFails(s) \/ ReadSize(s) \/ InsertSession(s)
       \/ Unregister(s) \/ FailSession(s)
  \/ Check
  \/ \E d \in Databases, n \in Bytes : Resize(d, n)

Spec == Init /\ [][Next]_vars

\* The monitor task is never abandoned (main spawns it for the life of the
\* process), and the server of the sizes is not down for good: connecting to
\* it and measuring a database succeed again and again.
Fairness ==
  /\ WF_vars(Check)
  /\ SF_vars(ConnectOk)
  /\ \A d \in Databases : SF_vars(QueryOk(d))

FairSpec == Spec /\ Fairness

-----------------------------------------------------------------------------
(* Properties *)

\* A session without a limit is never flagged, whatever limits other sessions
\* have registered for its database (two-tier design, section 3).
UnlimitedNeverFlagged == \A s \in Sessions : effective_limit(s) = 0 => ~over_limit[s]

\* A flag is only raised by a measurement: some check has found the database
\* of a flagged session larger than that session's own limit.
FlagWitnessed ==
  \A s \in Sessions : over_limit[s] => peak[db[s]] > effective_limit(s)

Over(s)  == pc[s] = "live" /\ max_db_size[s] # None
            /\ effective_limit(s) > 0 /\ real[db[s]] > effective_limit(s)
Under(s) == pc[s] = "live" /\ max_db_size[s] # None
            /\ real[db[s]] <= effective_limit(s)

\* A session whose database stays above the limit it asked for is flagged in
\* the end and stays flagged, even if it registered in the middle of a check.
FlagRaised == \A s \in Sessions : <>[]Over(s) => <>[]over_limit[s]

\* A session whose database stays within its limit is released in the end.
FlagCleared == \A s \in Sessions : <>[]Under(s) => <>[]~over_limit[s]

\* The limit the slow loop compares with: a default of 0 is no limit, a parameter
\* of 0 is one of zero bytes.
max_size(s) ==
  CASE max_db_size[s] # None -> max_db_size[s]
    [] max_db_size[s] = None /\ DefaultLimit > 0 -> DefaultLimit
    [] OTHER -> None

\* What the slow loop of a session finds when it compares the measured size.
MeasuredOver(s) ==
  db[s] # None /\ max_size(s) # None /\ Exceeds(db_sizes[db[s]], max_size(s))

Gg(s) == INSTANCE Gauge WITH over <- MeasuredOver(s), flag <- over_limit[s]

\* To a session, registrations, checks and measurements are steps of Gauge: the flag
\* and the measured size never change together, and the flag is only ever set to
\* what the measured size says at that moment.  This is all Proxy assumes.
ImplementsGauge ==
  /\ \A s \in Sessions : Gg(s)!Init
  /\ [][\A s \in Sessions : Gg(s)!Next \/ UNCHANGED <<MeasuredOver(s), over_limit[s]>>]_vars

-----------------------------------------------------------------------------
(* Statements of the documentation that the code does not keep *)

\* config.rs: "Default max DB size if not specified in connection string
\* (bytes, 0 = unlimited).": a session without max_db_size is flagged in the
\* end when its database stays above the default.
DefaultEnforced ==
  \A s \in Sessions :
    <>[](pc[s] = "live" /\ max_db_size[s] = None /\ DefaultLimit > 0
         /\ real[db[s]] > DefaultLimit)
      => <>[]over_limit[s]
=============================================================================
