------------------------------- MODULE Proxy -------------------------------
(***************************************************************************)
(* The proxy loops of a client session (src/src/protocol/frontend.rs), the *)
(* switch between them, and the reset of the connection when the session   *)
(* ends (src/src/protocol/backend.rs).  One backend connection is followed *)
(* through the sessions that use it.                                       *)
(*                                                                         *)
(* Streams consist of message halves (Framing); reads that end inside a    *)
(* half are the subject of Scanner.  The client and the server are the     *)
(* environment: a client that is Polite sends a request when the last one  *)
(* has been answered and disconnects when nothing is outstanding; others   *)
(* send and disconnect at any time.  The size monitor is seen through      *)
(* Gauge, which Monitor implements.                                        *)
(***************************************************************************)
EXTENDS Framing, FiniteSets, Functions

CONSTANTS
  Kinds,        \* the kinds of messages clients send
  MaxSends,     \* how many messages they send
  MaxSessions,  \* how many clients use the connection, one after the other
  Polite,       \* clients wait for answers
  AllowShrink   \* monitor.allow_shrink_operations_when_overlimit

\* Simple queries by what their text does; "latin" is not UTF-8.
Query == {"write", "shrink", "begin", "end", "latin"}

ASSUME ProxyAssumption ==
  /\ Kinds \subseteq Query \cup {"parse", "sync", "terminate"}
  /\ MaxSends \in Nat /\ MaxSessions \in Nat
  /\ Polite \in BOOLEAN /\ AllowShrink \in BOOLEAN

VARIABLES
  cNet, cClosed,            \* sent by the client and not yet read; it has closed
  sNet, sClosed,            \* the same for the server
  toServer, served,         \* written to the server; how much of it is processed
  toClient,                 \* written to the client of this session
  tx,                       \* the server's transaction: idle, rw, ro or failed
  sends, last, base,        \* messages sent by clients, the kind of the last, how
                            \* many of them before this session
  session, no,              \* this session; messages the server has sent in it
  mode, at,                 \* the loop that runs; its select or an inner while
  client_buf, server_buf,   \* ProxyBuffers; server_buf is also reset_connection's buf
  pending,                  \* transition_pending
  injected,                 \* transaction_read_only_injected
  skip,                     \* the scanner is inside a message
  over, flag,               \* see Gauge
  dropped, missed,          \* history: requests thrown away; an idle status not seen;
  misread                   \* the directions in which a loop has cut the stream wrongly

clientVars == <<cNet, cClosed, sends, last, base, session>>
serverVars == <<sClosed, served, tx, no>>
gaugeVars  == <<over, flag>>
loopVars   == <<mode, at, client_buf, server_buf, pending, injected, skip, dropped, missed, misread>>
vars == <<clientVars, serverVars, gaugeVars, sNet, toServer, toClient, loopVars>>

G == INSTANCE Gauge

Init ==
  /\ cNet = <<>> /\ cClosed = FALSE /\ sNet = <<>> /\ sClosed = FALSE
  /\ toServer = <<>> /\ served = 0 /\ toClient = <<>> /\ tx = "idle"
  /\ sends = 0 /\ last = "none" /\ base = 0 /\ session = 1 /\ no = 0
  /\ mode = "fast" /\ at = "select"
  /\ client_buf = <<>> /\ server_buf = <<>>
  /\ pending = FALSE /\ injected = FALSE /\ skip = FALSE
  /\ over \in BOOLEAN /\ flag \in BOOLEAN
  /\ dropped = {} /\ missed = FALSE /\ misread = {}

-----------------------------------------------------------------------------
(* The environment *)

Talking == mode \in {"fast", "slow"}

\* The last request answered to this client.
Answers == {base} \cup {u.msg.ans : u \in {v \in Range(toClient) :
                              v.msg.kind = "ready" /\ v.part = 2}}
Waiting == sends > base /\ sends \notin Answers

ClientSends(k) ==
  /\ Talking /\ ~cClosed /\ sends < MaxSends /\ last # "terminate"
  /\ Polite => ~Waiting \/ (last = "parse" /\ k \in {"parse", "sync"})
  /\ sends' = sends + 1
  /\ last' = k
  /\ cNet' = cNet \o Parts([id |-> sends + 1, kind |-> k, via |-> "client"])
  /\ UNCHANGED <<cClosed, base, session, serverVars, gaugeVars, sNet, toServer, toClient, loopVars>>

\* The client disconnects; an impolite one perhaps in the middle of a message.
ClientCloses(n) ==
  /\ Talking /\ ~cClosed
  /\ Polite => (~Waiting \/ last = "terminate") /\ n = Len(cNet)
  /\ cClosed' = TRUE
  /\ cNet' = SubSeq(cNet, 1, n)
  /\ UNCHANGED <<sends, last, base, session, serverVars, gaugeVars, sNet, toServer, toClient, loopVars>>

\* The next request is there as a whole.  A server that receives anything else in
\* its place can only close the connection.
Ready ==
  /\ served + 2 <= Len(toServer)
  /\ toServer[served + 1].part = 1 /\ toServer[served + 2].part = 2
  /\ toServer[served + 1].msg = toServer[served + 2].msg
  /\ toServer[served + 1].msg.via # "garbled"
Request == toServer[served + 1].msg

\* "SET TRANSACTION READ ONLY; ..." makes its own transaction, or the rest of
\* the open one, read only; in a failed transaction it is an error itself.
ReadOnly(r) == r.via = "wrapped" \/ tx = "ro"
Fails(r) ==
  \/ tx = "failed" /\ r.kind # "sync" /\ (r.kind # "end" \/ r.via = "wrapped")
  \/ ReadOnly(r) /\ r.kind \in {"write", "shrink", "latin", "parse"}
  \/ r.kind = "discard" /\ tx # "idle"
After(r) ==
  CASE Fails(r) -> IF tx = "idle" THEN "idle" ELSE "failed"
    [] r.kind = "end" -> "idle"
    [] ~Fails(r) /\ r.kind = "begin" -> IF ReadOnly(r) THEN "ro" ELSE "rw"
    [] OTHER -> IF tx = "rw" /\ ReadOnly(r) THEN "ro" ELSE tx

\* The server processes a request and answers it: with a result or an error,
\* and with ReadyForQuery unless it belongs to an extended query.
ServerAnswers ==
  LET r      == Request
      result == IF r.kind = "sync" THEN <<>> ELSE <<IF Fails(r) THEN "error" ELSE "ok">>
      kinds  == result \o (IF r.kind = "parse" THEN <<>> ELSE <<"ready">>)
      msg(i) == [no |-> no + i, kind |-> kinds[i], idle |-> After(r) = "idle", ans |-> r.id] IN
  /\ ~sClosed /\ Ready /\ r.kind # "terminate"
  /\ served' = served + 2
  /\ tx' = After(r)
  /\ no' = no + Len(kinds)
  /\ sNet' = IF Len(kinds) = 1 THEN sNet \o Parts(msg(1)) ELSE sNet \o Parts(msg(1)) \o Parts(msg(2))
  /\ UNCHANGED <<clientVars, sClosed, gaugeVars, toServer, toClient, loopVars>>

\* The server closes the connection: on Terminate, or because it goes down.
ServerCloses ==
  /\ ~sClosed
  /\ sClosed' = TRUE
  /\ UNCHANGED <<clientVars, served, tx, no, gaugeVars, sNet, toServer, toClient, loopVars>>

\* Between sessions nobody looks at the gauge.
MonitorStep ==
  /\ Talking
  /\ G!Next
  /\ UNCHANGED <<clientVars, serverVars, sNet, toServer, toClient, loopVars>>

-----------------------------------------------------------------------------
(* fast_proxy_loop *)

FastClientRead(n) ==
  /\ mode = "fast"
  /\ pending' = (pending \/ flag)
  /\ toServer' = toServer \o client_buf \o SubSeq(cNet, 1, n)
  /\ client_buf' = <<>>
  /\ cNet' = From(cNet, n)
  /\ UNCHANGED <<cClosed, sends, last, base, session, serverVars, gaugeVars, sNet, toClient, mode, at,
                 server_buf, injected, skip, dropped, missed, misread>>

\* Mutants: the scanner forgets between two reads that it is inside a message;
\* it wants another byte after the status; it does not wait for the status; it takes
\* any ReadyForQuery for idle.
HeadersForgetful(data) == {i \in DOMAIN data : i % 2 = 1}
ScannedStrict(data) == {i \in DOMAIN data : i + 1 < Len(data) /\ data[i].msg.kind = "ready"
                                            /\ data[i].part = 1}
ScannedEarly(data) == {i \in DOMAIN data : data[i].msg.kind = "ready" /\ data[i].part = 1}
SawReady(data) == \E i \in DOMAIN data : i < Len(data) /\ data[i].msg.kind = "ready"
                                          /\ data[i].part = 1

\* scan: where the headers are, if the scanner is right about where it is, and
\* the ReadyForQuery messages whose status it looks at.
Headers(data) == {i \in DOMAIN data : i % 2 = IF skip THEN 0 ELSE 1}
Scanned(data) == {i \in Headers(data) : i < Len(data) /\ data[i].msg.kind = "ready"}
SawIdle(data) ==
  \E i \in Scanned(data) : data[i].msg.idle /\ \A j \in Scanned(data) : j <= i

\* The scanner is right about it.  One that is not takes any bytes for headers and
\* for a status.
Aligned(data) == "server" \notin misread /\ (skip <=> data[1].part = 2)

FastServerRead(n) ==
  LET data == server_buf \o SubSeq(sNet, 1, n) IN
  /\ mode = "fast"
  /\ skip' \in IF Aligned(data) THEN {Len(data) \in Headers(data)} ELSE BOOLEAN
  /\ toClient' = toClient \o data
  /\ server_buf' = <<>>
  /\ sNet' = From(sNet, n)
  /\ \/ /\ pending /\ (Aligned(data) => SawIdle(data))
        /\ mode' = "slow" /\ pending' = FALSE /\ injected' = FALSE /\ missed' = FALSE
     \/ /\ ~(pending /\ Aligned(data) /\ SawIdle(data))
        /\ missed' = (missed \/ (pending /\ skip /\ data[1].msg.kind = "ready"))
        /\ UNCHANGED <<mode, pending, injected>>
  /\ UNCHANGED <<clientVars, serverVars, gaugeVars, toServer, at, client_buf, dropped, misread>>

-----------------------------------------------------------------------------
(* slow_proxy_loop *)

SlowClientRead(n) ==
  /\ mode = "slow" /\ at = "select"
  /\ client_buf' = client_buf \o SubSeq(cNet, 1, n)
  /\ cNet' = From(cNet, n)
  /\ at' = "client"
  /\ UNCHANGED <<cClosed, sends, last, base, session, serverVars, gaugeVars, sNet, toServer, toClient,
                 mode, server_buf, pending, injected, skip, dropped, missed, misread>>

\* Mutant of Verdict: the branch for the extended protocol is missing.
VerdictSimpleOnly(m) ==
  CASE m.kind \notin Query \cup {"parse"} -> "other"
    [] ~over -> "under"
    [] over /\ m.kind = "shrink" /\ AllowShrink -> "shrink"
    [] over /\ m.kind \in {"latin", "parse"} -> "dropped"
    [] OTHER -> "wrapped"

\* What becomes of a message of the client.
Verdict(m) ==
  CASE m.kind \notin Query \cup {"parse"} -> "other"
    [] ~over -> "under"
    [] over /\ m.kind = "shrink" /\ AllowShrink -> "shrink"
    [] over /\ m.kind = "latin" -> "dropped"
    [] over /\ m.kind = "parse" -> "extended"
    [] OTHER -> "wrapped"

Notice == Parts([no |-> 0, kind |-> "notice", idle |-> FALSE, ans |-> 0])

SlowClientMessage ==
  LET m == client_buf[1].msg
      v == Verdict(m) IN
  /\ mode = "slow" /\ at = "client" /\ Whole(client_buf)
  /\ client_buf' = From(client_buf, 2)
  /\ toServer' = IF v = "dropped" THEN toServer ELSE toServer \o Parts([m EXCEPT !.via = v])
  /\ toClient' = IF v = "wrapped" /\ ~injected THEN toClient \o Notice ELSE toClient
  /\ injected' = CASE v = "wrapped" -> TRUE
                   [] v \in {"other", "under"} -> FALSE
                   [] OTHER -> injected
  /\ dropped' = IF v = "dropped" THEN dropped \cup {m} ELSE dropped
  /\ UNCHANGED <<clientVars, serverVars, gaugeVars, sNet, mode, at, server_buf, pending,
                 skip, missed, misread>>

\* The server branch of the select, and the read of reset_connection.
ServerRead(n) ==
  /\ mode \in {"slow", "reset"} /\ at = "select"
  /\ server_buf' = server_buf \o SubSeq(sNet, 1, n)
  /\ sNet' = From(sNet, n)
  /\ at' = "server"
  /\ UNCHANGED <<clientVars, serverVars, gaugeVars, toServer, toClient, mode, client_buf,
                 pending, injected, skip, dropped, missed, misread>>

SlowServerMessage ==
  LET m == server_buf[1].msg IN
  /\ mode = "slow" /\ at = "server" /\ Whole(server_buf)
  /\ server_buf' = From(server_buf, 2)
  /\ toClient' = toClient \o Parts(m)
  /\ IF m.kind = "ready" /\ m.idle /\ ~flag
     THEN mode' = "fast" /\ at' = "select"
     ELSE UNCHANGED <<mode, at>>
  /\ UNCHANGED <<clientVars, serverVars, gaugeVars, sNet, toServer, client_buf, pending,
                 injected, skip, dropped, missed, misread>>

-----------------------------------------------------------------------------
(* The end of a session and reset_connection *)

\* handle_client leaves its loops: what is local to them, or on its way to or from
\* the client, is gone.
LeaveLoops ==
  /\ cNet' = <<>> /\ toClient' = <<>> /\ client_buf' = <<>> /\ server_buf' = <<>>
  /\ pending' = FALSE /\ injected' = FALSE /\ skip' = FALSE
  /\ dropped' = {} /\ missed' = FALSE /\ misread' = {}

DiscardAll == Parts([id |-> 0, kind |-> "discard", via |-> "reset"])

\* A read returns 0: the connection is released, and DISCARD ALL sent on it.
EndSession ==
  /\ Talking /\ at = "select"
  /\ \/ cClosed /\ cNet = <<>>
     \/ sClosed /\ sNet = <<>>
  /\ mode' = "reset"
  /\ LeaveLoops
  /\ toServer' = toServer \o DiscardAll
  /\ UNCHANGED <<cClosed, sends, last, base, session, serverVars, gaugeVars, sNet, at>>

\* A write to a closed socket fails: the server connection is dropped.
Drop ==
  /\ Talking /\ (cClosed \/ sClosed)
  /\ mode' = "closed" /\ at' = "select"
  /\ LeaveLoops
  /\ UNCHANGED <<cClosed, sends, last, base, session, serverVars, gaugeVars, sNet, toServer>>

\* reset_connection reads the end of the stream.
ResetEof ==
  /\ mode = "reset" /\ at = "select" /\ sClosed /\ sNet = <<>>
  /\ mode' = "closed"
  /\ UNCHANGED <<clientVars, serverVars, gaugeVars, sNet, toServer, toClient, at, client_buf,
                 server_buf, pending, injected, skip, dropped, missed, misread>>

\* Mutant of ResetVerdict: any answer will do.
ResetVerdictEarly(k) == IF k = "error" THEN "closed" ELSE "pooled"

\* The first ReadyForQuery or ErrorResponse decides.
ResetVerdict(k) == CASE k = "ready" -> "pooled" [] k = "error" -> "closed" [] OTHER -> "reset"

ResetMessage ==
  /\ mode = "reset" /\ at = "server" /\ Whole(server_buf)
  /\ mode' = ResetVerdict(server_buf[1].msg.kind)
  /\ IF mode' = "reset"
     THEN server_buf' = From(server_buf, 2) /\ UNCHANGED at
     ELSE server_buf' = <<>> /\ at' = "select"
  /\ UNCHANGED <<clientVars, serverVars, gaugeVars, sNet, toServer, toClient, client_buf,
                 pending, injected, skip, dropped, missed, misread>>

\* The inner while of either direction is over.
Buffer == IF at = "client" THEN client_buf ELSE server_buf
NoMessage ==
  /\ mode \in {"slow", "reset"} /\ at # "select" /\ Partial(Buffer)
  /\ at' = "select"
  /\ UNCHANGED <<clientVars, serverVars, gaugeVars, sNet, toServer, toClient, mode, client_buf,
                 server_buf, pending, injected, skip, dropped, missed, misread>>

\* A loop is about to take bytes for a header that are none: those of a payload, or
\* what follows a piece it has cut wrongly before.
Misread ==
  /\ mode \in {"slow", "reset"} /\ at # "select"
  /\ Unframed(Buffer) \/ (at \in misread /\ Buffer # <<>>)

\* Their length is out of range, or so large that the loop waits for the rest.
Misframe ==
  /\ Misread
  /\ mode' \in {mode, "closed"} /\ at' = "select"
  /\ UNCHANGED <<clientVars, serverVars, gaugeVars, sNet, toServer, toClient, client_buf,
                 server_buf, pending, injected, skip, dropped, missed, misread>>

\* Their length is that of a piece which is there.  It is forwarded, perhaps without
\* the end of a half; if it looks like a query, it is rewritten, or dropped when it
\* is not UTF-8, and the half it ends in is spoilt with it.
Garbled(s) == [i \in DOMAIN s |-> [s[i] EXCEPT !.msg.via = "garbled"]]
MiscutClient(n) ==
  /\ Misread /\ mode = "slow" /\ at = "client"
  /\ client_buf' = From(client_buf, n)
  /\ \/ /\ toServer' = toServer \o SubSeq(client_buf, 1, n)
        /\ injected' \in {FALSE, over /\ injected}
        /\ UNCHANGED toClient
     \/ /\ over /\ n > 0
        /\ toServer' = toServer \o Garbled(SubSeq(client_buf, 1, n))
        /\ toClient' = IF injected THEN toClient ELSE toClient \o Notice
        /\ injected' = TRUE
     \/ over /\ n > 0 /\ UNCHANGED <<toServer, toClient, injected>>
  /\ misread' = misread \cup {"client"}
  /\ UNCHANGED <<clientVars, serverVars, gaugeVars, sNet, mode, at, server_buf, pending, skip,
                 dropped, missed>>

\* What the server sends is forwarded as it is; a piece may look like an idle
\* ReadyForQuery.
MiscutServer(n) ==
  /\ Misread /\ mode = "slow" /\ at = "server"
  /\ server_buf' = From(server_buf, n)
  /\ toClient' = toClient \o SubSeq(server_buf, 1, n)
  /\ \/ ~flag /\ mode' = "fast" /\ at' = "select"
     \/ UNCHANGED <<mode, at>>
  /\ misread' = misread \cup {"server"}
  /\ UNCHANGED <<clientVars, serverVars, gaugeVars, sNet, toServer, client_buf, pending, injected,
                 skip, dropped, missed>>

\* reset_connection may take the piece for a ReadyForQuery or an ErrorResponse.
MiscutReset(n) ==
  /\ Misread /\ mode = "reset" /\ at = "server"
  /\ \/ server_buf' = From(server_buf, n) /\ UNCHANGED <<mode, at>>
     \/ server_buf' = <<>> /\ mode' \in {"pooled", "closed"} /\ at' = "select"
  /\ misread' = misread \cup {"server"}
  /\ UNCHANGED <<clientVars, serverVars, gaugeVars, sNet, toServer, toClient, client_buf, pending,
                 injected, skip, dropped, missed>>

\* acquire hands the pooled connection to the next client.
Reuse ==
  /\ mode = "pooled" /\ session < MaxSessions
  /\ session' = session + 1
  /\ mode' = "fast"
  /\ cClosed' = FALSE /\ last' = "none" /\ base' = sends /\ no' = 0
  /\ toServer' = From(toServer, served) /\ served' = 0
  /\ over' \in BOOLEAN /\ flag' = over'
  /\ UNCHANGED <<cNet, sends, sClosed, tx, sNet, toClient, at, client_buf, server_buf, pending,
                 injected, skip, dropped, missed, misread>>

-----------------------------------------------------------------------------
Loops ==
  \/ \E n \in 1 .. Len(cNet) : FastClientRead(n) \/ SlowClientRead(n)
  \/ \E n \in 1 .. Len(sNet) : FastServerRead(n) \/ ServerRead(n)
  \/ SlowClientMessage \/ SlowServerMessage \/ ResetMessage
  \/ NoMessage \/ Misframe \/ EndSession \/ ResetEof
  \/ \E n \in 0 .. Len(client_buf) : MiscutClient(n)
  \/ \E n \in 0 .. Len(server_buf) : MiscutServer(n) \/ MiscutReset(n)

Next ==
  \/ \E k \in Kinds : ClientSends(k)
  \/ \E n \in 0 .. Len(cNet) : ClientCloses(n)
  \/ ServerAnswers \/ ServerCloses \/ MonitorStep
  \/ Loops \/ Drop \/ Reuse

Spec == Init /\ [][Next]_vars

\* The task of the session keeps running, and the server answers what it has
\* received and closes the connection when asked to.
Fairness ==
  /\ WF_vars(Loops)
  /\ WF_vars(ServerAnswers)
  /\ WF_vars(Ready /\ Request.kind = "terminate" /\ ServerCloses)

FairSpec == Spec /\ Fairness

-----------------------------------------------------------------------------
(* Properties *)

\* The halves in a stream by their number: requests after the first b, and what the
\* server has sent.
RequestKeys(s, b) ==
  [i \in {j \in DOMAIN s : s[j].msg.id > b} |-> 2 * s[i].msg.id + s[i].part]
AnswerKeys(s) ==
  [i \in {j \in DOMAIN s : s[j].msg.kind # "notice"} |-> 2 * s[i].msg.no + s[i].part]

\* The halves of the messages numbered by ids, each once and in order.
Complete(keys, ids) ==
  /\ \A i, j \in DOMAIN keys : i < j => keys[i] < keys[j]
  /\ Range(keys) = {2 * id + p : id \in ids, p \in {1, 2}}

\* What the client has sent is on its way to the server, or there: in order,
\* nothing lost or repeated, across every switch between the loops, as long as the
\* slow loop has not taken the middle of a message for a header.  The only other
\* exception are queries whose text it cannot read.
ServerGetsAll ==
  Talking /\ ~cClosed /\ "client" \notin misread =>
    /\ Complete(RequestKeys(toServer \o client_buf \o cNet, base),
                (base + 1 .. sends) \ {m.id : m \in dropped})
    /\ \A m \in dropped : m.kind = "latin"

\* What the server has sent is on its way to the client, or there, in order and
\* once.
ClientGetsAll ==
  Talking => Complete(AnswerKeys(toClient \o server_buf \o sNet), 1 .. no)

\* Whenever the fast loop runs, the scanner is right about whether the next half
\* is a header, although it has not seen what the slow loop forwarded: as long as
\* that was cut where the messages end.
ScannerAligned ==
  mode = "fast" /\ "server" \notin misread /\ server_buf \o sNet # <<>> =>
    (skip <=> (server_buf \o sNet)[1].part = 2)

\* No loop takes the middle of a message for a header, although each starts where
\* another one, which forwards what it reads, happened to stop.  This needs clients
\* that wait for their answers.
NeverMisread == misread = {} /\ ~Misread

\* The loops are only switched when the server is outside a transaction and has
\* answered everything (two-tier design: "No mid-transaction transitions").
SwitchIdle ==
  [][{mode, mode'} = {"fast", "slow"} => tx = "idle" /\ ~Waiting']_vars

\* Once the fast loop has seen the flag, at most the transaction under way gets
\* through: a client that is idle again is in the slow loop, unless the status of
\* a ReadyForQuery was the first byte of a read.
Enforced == mode = "fast" /\ pending /\ ~missed => Waiting \/ tx # "idle"

\* A client only receives answers to its own requests, whoever used the connection
\* before.  This needs clients that wait for their answers before they leave.
OwnAnswers == \A u \in Range(toClient) : u.msg.kind # "notice" => u.msg.ans > base

\* Every request is answered, unless the session ends or the slow loop drops it.
Answered ==
  Talking /\ Waiting /\ last \notin {"parse", "terminate"}
    ~> ~Talking \/ ~Waiting \/ \E m \in dropped : m.id = sends

\* reset_connection comes to an end.
ResetDecides == mode = "reset" ~> mode # "reset"

-----------------------------------------------------------------------------
(* Statements of the documentation and comments that the code does not keep *)

\* frontend.rs, notice to the client: "DELETE/TRUNCATE are still allowed.": no
\* shrinking statement is refused because its transaction was made read only.
ShrinkPermitted == ~sClosed /\ Ready /\ Request.via = "shrink" => tx # "ro"

\* pool/mod.rs: "Reset connection state before returning to pool": what the last client
\* has left behind, when it is whole messages, does not reach the next one.
ResetCleans == misread = {} => OwnAnswers

\* frontend.rs: "Shared buffers passed between fast and slow proxy loops to
\* prevent data loss when transitioning mid-stream.": what the slow loop leaves in
\* server_buf reaches the client.
LeftoverForwarded == mode = "fast" /\ server_buf # <<>> /\ misread = {} ~> server_buf = <<>> \/ ~Talking
=============================================================================
