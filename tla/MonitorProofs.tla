--------------------------- MODULE MonitorProofs ---------------------------
(***************************************************************************)
(* What a flag means, for any number of sessions and databases and any     *)
(* sizes and limits.                                                       *)
(***************************************************************************)
EXTENDS Monitor, TLAPS

\* A size in db_sizes has been measured, so the peak is at least as high.
Measured == \A d \in Databases : db_sizes[d] # None => db_sizes[d] <= peak[d]

\* Until register_session reads the size, a session has no flag.
FreshUnflagged == \A s \in Sessions : pc[s] \in {"new", "greeting"} => ~over_limit[s]

\* The registry holds sessions that have been registered.
Registered == \A s \in sessions : pc[s] \in {"live", "gone"}

IInv ==
  /\ TypeOK /\ Registered /\ Measured /\ FreshUnflagged
  /\ UnlimitedNeverFlagged /\ FlagWitnessed

\* The empty maps and the absence of sessions satisfy the invariant.
LEMMA InitIInv == Init => IInv
BY MonitorAssumption
DEF Init, IInv, TypeOK, Registered, Measured, FreshUnflagged, UnlimitedNeverFlagged, FlagWitnessed,
    Bytes

\* The limit of a session is a number of bytes.
LEMMA LimitType ==
  ASSUME TypeOK, NEW s \in Sessions
  PROVE  effective_limit(s) \in Bytes
BY MonitorAssumption DEF TypeOK, effective_limit

\* Every step of a session and of a check keeps the state well-typed.
LEMMA TypeStep == TypeOK /\ [Next]_vars => TypeOK'
<1> SUFFICES ASSUME TypeOK, [Next]_vars PROVE TypeOK'
  OBVIOUS
<1> USE MonitorAssumption DEF TypeOK, sessionVars
<1>1. ASSUME NEW s \in Sessions, NEW d \in Databases, NEW m \in Bytes \cup {None},
             Begin(s, d, m)
      PROVE  TypeOK'
  BY <1>1 DEF Begin, LimitsWith
<1>2. ASSUME NEW s \in Sessions, GreetingFails(s) PROVE TypeOK'
  BY <1>2 DEF GreetingFails
<1>3. ASSUME NEW s \in Sessions, ReadSize(s) PROVE TypeOK'
  BY <1>3 DEF ReadSize, FirstFlag, Exceeds
<1>4. ASSUME NEW s \in Sessions, InsertSession(s) PROVE TypeOK'
  BY <1>4 DEF InsertSession
<1>5. ASSUME NEW s \in Sessions, Unregister(s) PROVE TypeOK'
  BY <1>5 DEF Unregister, Remaining
<1>6. ASSUME NEW s \in Sessions, FailSession(s) PROVE TypeOK'
  BY <1>6 DEF FailSession
<1>7. ASSUME Check PROVE TypeOK'
  <2>1. CASE Tick
    BY <2>1 DEF Tick
  <2>2. CASE ConnectOk
    BY <2>2 DEF ConnectOk
  <2>3. CASE ConnectErr
    BY <2>3 DEF ConnectErr
  <2>4. ASSUME NEW d \in Databases, QueryOk(d) PROVE TypeOK'
    BY <2>4 DEF QueryOk
  <2>5. ASSUME NEW d \in Databases, QueryErr(d) PROVE TypeOK'
    BY <2>5 DEF QueryErr
  <2>6. CASE StartFlags
    BY <2>6 DEF StartFlags
  <2>7. ASSUME NEW s \in Sessions, VisitSession(s) PROVE TypeOK'
    <3> DEFINE limit == effective_limit(s)
               size  == db_sizes[db[s]]
    <3>1. CASE limit = 0 \/ size = None
      BY <2>7, <3>1 DEF VisitSession, NewFlag
    <3>2. CASE ~(limit = 0 \/ size = None)
      <4>1. over_limit' = [over_limit EXCEPT ![s] = (size > limit)]
        BY <2>7, <3>2 DEF VisitSession, NewFlag
      <4>2. over_limit' \in [Sessions -> BOOLEAN]
        BY <4>1
      <4> QED
        BY <2>7, <4>2 DEF VisitSession, NewFlag
    <3> QED
      BY <3>1, <3>2
  <2>8. CASE EndCheck
    BY <2>8 DEF EndCheck
  <2> QED
    BY <1>7, <2>1, <2>2, <2>3, <2>4, <2>5, <2>6, <2>7, <2>8 DEF Check
<1>8. ASSUME NEW d \in Databases, NEW n \in Bytes, Resize(d, n) PROVE TypeOK'
  BY <1>8 DEF Resize
<1>9. CASE UNCHANGED vars
  BY <1>9 DEF vars
<1> QED
  BY <1>1, <1>2, <1>3, <1>4, <1>5, <1>6, <1>7, <1>8, <1>9 DEF Next

\* The steps that only move a session on or only concern the monitor's own
\* bookkeeping leave the meaning of the flags alone.
LEMMA FlagsQuiet ==
  ASSUME IInv, UNCHANGED <<db_sizes, peak, db, max_db_size, over_limit>>,
         \A s \in Sessions : pc'[s] \in {"new", "greeting"} => pc[s] \in {"new", "greeting"}
  PROVE  (Measured /\ FreshUnflagged /\ UnlimitedNeverFlagged /\ FlagWitnessed)'
BY DEF IInv, Measured, FreshUnflagged, UnlimitedNeverFlagged, FlagWitnessed, effective_limit

\* register_session and the check give a session a flag only for a limit above
\* zero that the known size exceeds.
LEMMA FlagsSet ==
  ASSUME IInv, NEW s \in Sessions, NEW f \in BOOLEAN,
         pc[s] # "new",
         f => \/ over_limit[s]
              \/ /\ effective_limit(s) > 0
                 /\ db_sizes[db[s]] # None
                 /\ db_sizes[db[s]] > effective_limit(s),
         over_limit' = [over_limit EXCEPT ![s] = f],
         UNCHANGED <<db_sizes, peak, db, max_db_size>>,
         \A t \in Sessions : pc'[t] \in {"new", "greeting"} => pc[t] \in {"new", "greeting"} /\ t # s
  PROVE  (Measured /\ FreshUnflagged /\ UnlimitedNeverFlagged /\ FlagWitnessed)'
<1>1. /\ over_limit \in [Sessions -> BOOLEAN]
      /\ db[s] \in Databases
  BY DEF IInv, TypeOK
<1>2. over_limit'[s] = f /\ \A t \in Sessions \ {s} : over_limit'[t] = over_limit[t]
  BY <1>1
<1>3. \A t \in Sessions : effective_limit(t)' = effective_limit(t)
  BY DEF effective_limit
<1>4. /\ effective_limit(s) \in Int
      /\ db_sizes[db[s]] # None => db_sizes[db[s]] \in Int
      /\ peak[db[s]] \in Int
  BY <1>1, LimitType, MonitorAssumption DEF IInv, TypeOK, Bytes
<1>5. Measured'
  BY DEF IInv, Measured
<1>6. FreshUnflagged'
  BY <1>2 DEF IInv, FreshUnflagged
<1>7. UnlimitedNeverFlagged'
  BY <1>2, <1>3, <1>4 DEF IInv, UnlimitedNeverFlagged
<1>8. f => peak[db[s]] > effective_limit(s)
  BY <1>1, <1>4 DEF IInv, FlagWitnessed, Measured
<1>9. FlagWitnessed'
  BY <1>2, <1>3, <1>8 DEF IInv, FlagWitnessed
<1> QED
  BY <1>5, <1>6, <1>7, <1>9

\* Only InsertSession puts a session into the registry, and nothing takes a
\* registered session back to where it was not.
LEMMA RegisteredStep == IInv /\ [Next]_vars => Registered'
<1> SUFFICES ASSUME IInv, [Next]_vars PROVE Registered'
  OBVIOUS
<1> USE DEF IInv, TypeOK, Registered, sessionVars
<1>1. ASSUME NEW s \in Sessions, NEW d \in Databases, NEW m \in Bytes \cup {None},
             Begin(s, d, m)
      PROVE  Registered'
  BY <1>1 DEF Begin, LimitsWith
<1>2. ASSUME NEW s \in Sessions,
             \/ GreetingFails(s) \/ ReadSize(s) \/ InsertSession(s)
             \/ Unregister(s) \/ FailSession(s)
      PROVE  Registered'
  BY <1>2 DEF GreetingFails, ReadSize, FirstFlag, InsertSession, Unregister, Remaining, FailSession
<1>3. ASSUME UNCHANGED <<sessions, pc>> PROVE Registered'
  BY <1>3
<1>4. ASSUME Check PROVE UNCHANGED <<sessions, pc>>
  BY <1>4 DEF Check, Tick, ConnectOk, ConnectErr, QueryOk, QueryErr, StartFlags,
              VisitSession, NewFlag, EndCheck
<1>5. ASSUME NEW d \in Databases, NEW n \in Bytes, Resize(d, n)
      PROVE  UNCHANGED <<sessions, pc>>
  BY <1>5 DEF Resize
<1>6. CASE UNCHANGED vars
  BY <1>6, <1>3 DEF vars
<1> QED
  BY <1>1, <1>2, <1>3, <1>4, <1>5, <1>6 DEF Next

\* Every step preserves what a flag means.
LEMMA FlagsStep ==
  IInv /\ [Next]_vars => (Measured /\ FreshUnflagged /\ UnlimitedNeverFlagged /\ FlagWitnessed)'
<1> DEFINE Flags == Measured /\ FreshUnflagged /\ UnlimitedNeverFlagged /\ FlagWitnessed
<1> SUFFICES ASSUME IInv, [Next]_vars PROVE Flags'
  OBVIOUS
<1>0. TypeOK
  BY DEF IInv
<1>1. ASSUME NEW s \in Sessions, NEW d \in Databases, NEW m \in Bytes \cup {None},
             Begin(s, d, m)
      PROVE  Flags'
  <2>1. /\ ~over_limit[s]
        /\ \A t \in Sessions \ {s} :
             /\ effective_limit(t)' = effective_limit(t)
             /\ db'[t] = db[t]
             /\ pc'[t] = pc[t]
    BY <1>1, <1>0 DEF Begin, LimitsWith, IInv, TypeOK, FreshUnflagged, effective_limit
  <2>2. UNCHANGED <<over_limit, db_sizes, peak>>
    BY <1>1 DEF Begin, LimitsWith
  <2> QED
    BY <2>1, <2>2 DEF IInv, Measured, FreshUnflagged, UnlimitedNeverFlagged, FlagWitnessed
<1>2. ASSUME NEW s \in Sessions,
             GreetingFails(s) \/ InsertSession(s) \/ Unregister(s) \/ FailSession(s)
      PROVE  Flags'
  <2>1. UNCHANGED <<db_sizes, peak, db, max_db_size, over_limit>>
    BY <1>2 DEF GreetingFails, InsertSession, Unregister, Remaining, FailSession
  <2>2. \A t \in Sessions : pc'[t] \in {"new", "greeting"} => pc[t] \in {"new", "greeting"}
    BY <1>2, <1>0 DEF TypeOK, GreetingFails, InsertSession, Unregister, Remaining, FailSession
  <2> QED
    BY <2>1, <2>2, FlagsQuiet
<1>3. ASSUME NEW s \in Sessions, ReadSize(s) PROVE Flags'
  <2> DEFINE limit == effective_limit(s)
             f == limit > 0 /\ Exceeds(db_sizes[db[s]], limit)
  <2>1. f \in BOOLEAN /\ over_limit' = [over_limit EXCEPT ![s] = f]
    BY <1>3 DEF ReadSize, FirstFlag
  <2>2. f => /\ limit > 0
             /\ db_sizes[db[s]] # None
             /\ db_sizes[db[s]] > limit
    BY DEF Exceeds
  <2>3. /\ pc[s] # "new"
        /\ UNCHANGED <<db_sizes, peak, db, max_db_size>>
        /\ pc' = [pc EXCEPT ![s] = "registering"]
    BY <1>3 DEF ReadSize, FirstFlag
  <2>4. \A t \in Sessions :
          pc'[t] \in {"new", "greeting"} => pc[t] \in {"new", "greeting"} /\ t # s
    BY <2>3, <1>0 DEF TypeOK
  <2> HIDE DEF f
  <2>5. f => \/ over_limit[s]
             \/ /\ effective_limit(s) > 0
                /\ db_sizes[db[s]] # None
                /\ db_sizes[db[s]] > effective_limit(s)
    BY <2>2
  <2> QED
    BY <2>1, <2>3, <2>4, <2>5, FlagsSet, Zenon
<1>4. ASSUME NEW d \in Databases, QueryOk(d) PROVE Flags'
  <2>1. /\ UNCHANGED <<pc, db, max_db_size, over_limit>>
        /\ \A s \in Sessions : effective_limit(s)' = effective_limit(s)
    BY <1>4 DEF QueryOk, sessionVars, effective_limit
  <2>2. \A e \in Databases :
          /\ peak'[e] \in Int /\ peak[e] \in Int /\ peak'[e] >= peak[e]
          /\ db_sizes'[e] # None => db_sizes'[e] <= peak'[e]
    BY <1>4, <1>0, MonitorAssumption DEF QueryOk, TypeOK, IInv, Measured, Bytes
  <2>3. \A s \in Sessions : effective_limit(s) \in Int
    BY <1>0, LimitType, MonitorAssumption DEF Bytes
  <2>4. \A s \in Sessions : over_limit[s] => db[s] \in Databases
    BY <1>0 DEF IInv, TypeOK, FreshUnflagged
  <2> QED
    BY <2>1, <2>2, <2>3, <2>4
    DEF IInv, Measured, FreshUnflagged, UnlimitedNeverFlagged, FlagWitnessed
<1>5. ASSUME NEW s \in Sessions, VisitSession(s) PROVE Flags'
  <2> DEFINE limit == effective_limit(s)
             size  == db_sizes[db[s]]
  <2>1. /\ pc[s] \in {"live", "gone"}
        /\ UNCHANGED <<db_sizes, peak, pc, db, max_db_size>>
    BY <1>5, <1>0 DEF VisitSession, NewFlag, sessionVars, IInv, TypeOK, Registered
  <2>2. CASE limit = 0 \/ size = None
    <3>1. over_limit' = over_limit
      BY <1>5, <1>0, <2>2 DEF VisitSession, NewFlag, TypeOK
    <3> QED
      BY <2>1, <3>1, FlagsQuiet
  <2>3. CASE limit # 0 /\ size # None
    <3> DEFINE f == size > limit
    <3>1. limit \in Nat /\ size \in Nat
      BY <2>1, <2>3, <1>0, LimitType, MonitorAssumption DEF TypeOK, Bytes
    <3>2. /\ f \in BOOLEAN
          /\ over_limit' = [over_limit EXCEPT ![s] = f]
      <4>1. f \in BOOLEAN
        BY <3>1
      <4>2. over_limit' = [over_limit EXCEPT ![s] = f]
        BY <1>5, <2>3, Zenon DEF VisitSession, NewFlag
      <4> QED
        BY <4>1, <4>2
    <3>3. f => limit > 0 /\ size # None /\ size > limit
      BY <2>3, <3>1
    <3> HIDE DEF f
    <3>4. f => \/ over_limit[s]
               \/ /\ effective_limit(s) > 0
                  /\ db_sizes[db[s]] # None
                  /\ db_sizes[db[s]] > effective_limit(s)
      BY <3>3
    <3>5. \A t \in Sessions :
            pc'[t] \in {"new", "greeting"} => pc[t] \in {"new", "greeting"} /\ t # s
      BY <2>1
    <3>6. pc[s] # "new"
      BY <2>1
    <3> QED
      BY <2>1, <3>2, <3>4, <3>5, <3>6, FlagsSet, Zenon
  <2> QED
    BY <2>2, <2>3
<1>6. ASSUME UNCHANGED <<db_sizes, peak, pc, db, max_db_size, over_limit>> PROVE Flags'
  BY <1>6, FlagsQuiet
<1>7. ASSUME \/ Tick \/ ConnectOk \/ ConnectErr \/ StartFlags \/ EndCheck
             \/ \E d \in Databases : QueryErr(d)
             \/ \E d \in Databases, n \in Bytes : Resize(d, n)
             \/ UNCHANGED vars
      PROVE  UNCHANGED <<db_sizes, peak, pc, db, max_db_size, over_limit>>
  BY <1>7 DEF Tick, ConnectOk, ConnectErr, StartFlags, EndCheck, QueryErr, Resize,
              vars, sessionVars
<1> QED
  BY <1>1, <1>2, <1>3, <1>4, <1>5, <1>6, <1>7 DEF Next, Check

\* The invariant is inductive.
THEOREM MonitorInductive == Spec => []IInv
<1>1. IInv /\ [Next]_vars => IInv'
  BY TypeStep, RegisteredStep, FlagsStep DEF IInv
<1> QED
  BY InitIInv, <1>1, PTL DEF Spec

\* The monitor's maps keep their types, a session has a database from its startup
\* message on, and a check has only registered sessions left to visit.
THEOREM MonitorTypeCorrect == Spec => []TypeOK
<1>1. IInv => TypeOK
  BY DEF IInv
<1> QED
  BY MonitorInductive, <1>1, PTL

\* No registration and no check ever flags a session without a limit, whatever
\* the other sessions of the database asked for.
THEOREM UnlimitedStaysFast == Spec => []UnlimitedNeverFlagged
<1>1. IInv => UnlimitedNeverFlagged
  BY DEF IInv
<1> QED
  BY MonitorInductive, <1>1, PTL

\* A flagged session's database has been measured above that session's limit.
THEOREM FlagsAreWitnessed == Spec => []FlagWitnessed
<1>1. IInv => FlagWitnessed
  BY DEF IInv
<1> QED
  BY MonitorInductive, <1>1, PTL

-----------------------------------------------------------------------------
(* The monitor implements Gauge for each session *)

GaugeStep(s) == Gg(s)!Next \/ UNCHANGED <<MeasuredOver(s), over_limit[s]>>

\* A step that sets no flag is a measurement to a session, or nothing.
LEMMA NoFlagSet ==
  ASSUME NEW s \in Sessions, over_limit'[s] = over_limit[s]
  PROVE  GaugeStep(s)
<1>1. MeasuredOver(s) \in BOOLEAN /\ MeasuredOver(s)' \in BOOLEAN
  BY DEF MeasuredOver
<1>2. MeasuredOver(s)' = MeasuredOver(s) \/ MeasuredOver(s)' = ~MeasuredOver(s)
  BY <1>1
<1> QED
  BY <1>2 DEF GaugeStep, Gg!Next, Gg!Measure

\* A step that sets a flag to what the size known at the time says, and leaves sizes
\* and limits alone, is a step of Gauge for every session.
LEMMA FlagSetFromSize ==
  ASSUME TypeOK, NEW s \in Sessions, NEW t \in Sessions,
         UNCHANGED <<db_sizes, db, max_db_size>>,
         db[s] # None, effective_limit(s) > 0,
         over_limit' = [over_limit EXCEPT ![s] = FirstFlag(s)]
  PROVE  GaugeStep(t)
<1>1. CASE t # s
  <2>1. over_limit'[t] = over_limit[t]
    BY <1>1 DEF TypeOK
  <2> QED
    BY <2>1, NoFlagSet
<1>2. CASE t = s
  <2>1. MeasuredOver(s)' = MeasuredOver(s)
    BY DEF MeasuredOver, max_size, Exceeds
  <2>2. over_limit'[s] = FirstFlag(s)
    BY DEF TypeOK
  <2>3. max_size(s) = effective_limit(s) /\ max_size(s) # None
    BY LimitType, MonitorAssumption DEF max_size, effective_limit, TypeOK
  <2>5. MeasuredOver(s) = FirstFlag(s)
    BY <2>3 DEF MeasuredOver, FirstFlag
  <2>4. over_limit'[s] = MeasuredOver(s)
    BY <2>2, <2>5
  <2> QED
    BY <1>2, <2>1, <2>4 DEF GaugeStep, Gg!Next, Gg!Raise
<1> QED
  BY <1>1, <1>2

\* Registrations and checks set flags from sizes; nothing else sets them.
LEMMA StepIsGaugeStep ==
  ASSUME IInv, [Next]_vars, NEW t \in Sessions
  PROVE  GaugeStep(t)
<1>0. TypeOK
  BY DEF IInv
<1>1. ASSUME NEW s \in Sessions, ReadSize(s) PROVE GaugeStep(t)
  <2>1. db[s] # None
    BY <1>0, <1>1 DEF ReadSize, TypeOK
  <2>2. CASE effective_limit(s) > 0
    BY <1>0, <1>1, <2>1, <2>2, FlagSetFromSize, Zenon DEF ReadSize
  <2>3. CASE ~(effective_limit(s) > 0)
    <3>1. ~over_limit[s] /\ ~FirstFlag(s)
      BY <1>0, <2>3, LimitType, MonitorAssumption DEF IInv, UnlimitedNeverFlagged, FirstFlag, Bytes
    <3>2. over_limit' = [over_limit EXCEPT ![s] = FirstFlag(s)]
      BY <1>1 DEF ReadSize
    <3>3. FirstFlag(s) = FALSE /\ over_limit[s] = FALSE
      BY <1>0, <3>1 DEF TypeOK, FirstFlag
    <3>4. over_limit'[t] = over_limit[t]
      BY <1>0, <3>2, <3>3 DEF TypeOK
    <3> QED
      BY <3>4, NoFlagSet
  <2> QED
    BY <2>2, <2>3
<1>2. ASSUME NEW s \in Sessions, VisitSession(s) PROVE GaugeStep(t)
  <2>1. /\ UNCHANGED <<db_sizes, db, max_db_size>>
        /\ over_limit' = [over_limit EXCEPT ![s] = NewFlag(s)]
    BY <1>2 DEF VisitSession, sessionVars
  <2>2. db[s] \in Databases
    BY <1>0, <1>2 DEF VisitSession, IInv, TypeOK, Registered
  <2>3. CASE effective_limit(s) = 0 \/ db_sizes[db[s]] = None
    <3>1. over_limit'[t] = over_limit[t]
      BY <1>0, <2>1, <2>3 DEF NewFlag, TypeOK
    <3> QED
      BY <3>1, NoFlagSet
  <2>4. CASE effective_limit(s) # 0 /\ db_sizes[db[s]] # None
    <3>1. effective_limit(s) > 0
      BY <1>0, <2>4, LimitType, MonitorAssumption DEF Bytes
    <3>2. NewFlag(s) = FirstFlag(s)
      BY <2>4, <3>1 DEF NewFlag, FirstFlag, Exceeds
    <3>3. over_limit' = [over_limit EXCEPT ![s] = FirstFlag(s)]
      BY <2>1, <3>2
    <3> QED
      BY <1>0, <2>1, <2>2, <3>1, <3>3, FlagSetFromSize, MonitorAssumption, Zenon
  <2> QED
    BY <2>3, <2>4
<1>3. ASSUME ~(\E s \in Sessions : ReadSize(s) \/ VisitSession(s)) PROVE over_limit' = over_limit
  BY <1>3 DEF Next, Check, Begin, GreetingFails, InsertSession, Unregister, FailSession,
              Tick, ConnectOk, ConnectErr, QueryOk, QueryErr, StartFlags, EndCheck, Resize, vars
<1>4. CASE over_limit' = over_limit
  BY <1>4, NoFlagSet
<1> QED
  BY <1>1, <1>2, <1>3, <1>4

\* What a session sees of the monitor is a Gauge, however many sessions register,
\* whatever limits they choose and however checks and registrations interleave.
THEOREM MonitorImplementsGauge == Spec => ImplementsGauge
<1>1. Init => \A s \in Sessions : Gg(s)!Init
  BY DEF Init, MeasuredOver, Gg!Init
<1>2. IInv /\ [Next]_vars => [\A s \in Sessions : GaugeStep(s)]_vars
  BY StepIsGaugeStep
<1>3. Spec => [][\A s \in Sessions : GaugeStep(s)]_vars
  BY <1>2, MonitorInductive, PTL DEF Spec
<1> QED
  BY <1>1, <1>3, PTL DEF Spec, ImplementsGauge, GaugeStep
=============================================================================
