----------------------------- MODULE Handshake -----------------------------
(***************************************************************************)
(* A client session until its proxy loops begin: the startup and password  *)
(* phases of handle_client (src/src/protocol/frontend.rs), connect_backend *)
(* with its authentication exchange (src/src/protocol/backend.rs), the     *)
(* greeting, and the size limit the client asks for, which                 *)
(* parse_size_limit (src/src/config.rs) reads.                             *)
(*                                                                         *)
(* The client and the server are the environment.  Both follow the         *)
(* protocol: they wait for the answer to what they have sent.  Their       *)
(* messages arrive in pieces (Framing).  What acquire does with the pool   *)
(* is the subject of Pool; what follows the greeting, of Proxy.            *)
(***************************************************************************)
EXTENDS Framing, Functions

CONSTANTS
  Sizes,          \* size texts a client may send
  Options,        \* options texts, as sequences of settings of max_db_size
  None,
  Kilo,           \* 1024
  Word,           \* one more than the largest u64
  DefaultLimit    \* monitor.default_max_db_size_bytes

\* A size text is a number, or something that is not one (None), and a suffix;
\* pad: the number has a sign or leading zeros.  NoSize also stands for a missing
\* text, and Zero is the text "0", which "00" and "+0" are not.
NoSize == [num |-> None, unit |-> "", pad |-> FALSE]
Zero   == [num |-> 0, unit |-> "", pad |-> FALSE]

\* "--max_db_size=..." and "-c max_db_size=..." in the options.
Settings == [form : {"--", "-c"}, size : Sizes]

ASSUME HandshakeAssumption ==
  /\ Kilo \in Nat \ {0} /\ Word \in Nat \ {0}
  /\ DefaultLimit \in 0 .. Word - 1 /\ None \notin Nat
  /\ Options \subseteq Seq(Settings)

VARIABLES
  cl,                   \* the client: its last message
  cNet, cClosed,        \* what of them is not yet read; it has disconnected
  toClient,             \* what it has been sent
  sNet, sClosed,        \* the same for the server
  toServer,             \* messages for the server that it has not yet answered
  srv,                  \* the last message of the server
  phase, at,            \* where handle_client is; at a read or behind it
  buf, request,         \* its buffer; the startup message
  step, authenticated,  \* where connect_backend is
  sbuf,                 \* its buffer
  registered, limit     \* what register_limit and register_session are given

clientVars  == <<cl, cNet, cClosed>>
serverVars  == <<sNet, sClosed, srv>>
backendVars == <<step, authenticated, sbuf>>
limitVars   == <<registered, limit>>
vars == <<clientVars, serverVars, backendVars, limitVars, toClient, toServer,
          phase, at, buf, request>>

Init ==
  /\ cl = "new" /\ cNet = <<>> /\ cClosed = FALSE /\ toClient = <<>>
  /\ sNet = <<>> /\ sClosed = FALSE /\ toServer = <<>> /\ srv = "none"
  /\ phase = "startup" /\ at = "read" /\ buf = <<>> /\ request = None
  /\ step = "none" /\ authenticated = FALSE /\ sbuf = <<>>
  /\ registered = None /\ limit = None

-----------------------------------------------------------------------------
(* The client *)

\* What a client may send when: an SSLRequest, a CancelRequest or a startup
\* message first, everything else when it is asked for; after "S" it starts TLS.
Turn(k) ==
  CASE k \in {"ssl", "cancel"} -> cl = "new"
    [] k \in {"startup", "unreadable"} -> cl = "new" \/ (cl = "ssl" /\ "N" \in Range(toClient))
    [] k = "hello" -> cl = "ssl" /\ "S" \in Range(toClient)
    [] OTHER -> cl = "startup" /\ "password?" \in Range(toClient)

\* "unreadable" is a startup message that parse_startup_params rejects: too short, or
\* not UTF-8; "garbled" is anything but a password where one is asked for.
Startups == [kind : {"startup"}, version : {"3.0", "other"}, size : Sizes, options : Options]
Messages == Startups \cup [kind : {"ssl", "cancel", "hello", "unreadable", "password", "garbled"}]

ClientSends(m) ==
  /\ ~cClosed /\ phase # "closed" /\ Turn(m.kind)
  /\ cl' = m.kind
  /\ cNet' = cNet \o Parts(m)
  /\ UNCHANGED <<cClosed, serverVars, backendVars, limitVars, toClient, toServer,
                 phase, at, buf, request>>

\* The client goes away, perhaps before all of its message has got through.
ClientCloses(n) ==
  /\ ~cClosed /\ phase \notin {"proxy", "closed"}
  /\ cClosed' = TRUE
  /\ cNet' = SubSeq(cNet, 1, n)
  /\ UNCHANGED <<cl, serverVars, backendVars, limitVars, toClient, toServer,
                 phase, at, buf, request>>

-----------------------------------------------------------------------------
(* The server *)

\* The end of a successful authentication; notices may come before the server is
\* ready, and so may an error such as an unknown database.
Welcomes == {<<"auth_ok", "status", "key", "ready">>, <<"auth_ok", "notice", "key", "ready">>,
             <<"auth_ok", "error">>}

\* How a server may answer a message; "auth_bad" is any authentication request
\* that connect_backend does not support or cannot verify.
Answers(k) ==
  {<<"error">>} \cup
  CASE k = "startup"       -> Welcomes \cup {<<a>> : a \in {"cleartext", "md5", "sasl", "auth_bad"}}
    [] k = "password"      -> Welcomes
    [] k = "sasl_initial"  -> {<<"sasl_continue">>, <<"auth_bad">>}
    [] k = "sasl_response" -> {<<"sasl_final">> \o w : w \in Welcomes} \cup {<<"auth_bad">>}
    [] k = "discard"       -> {<<"complete", "ready">>}

\* A notice may come before any of them.
Replies(k) == Answers(k) \cup {<<"notice">> \o a : a \in Answers(k)}

\* A sequence of kinds as halves of messages.
Halves(ks) ==
  [i \in 1 .. 2 * Len(ks) |-> [msg |-> [kind |-> ks[(i + 1) \div 2]], part |-> 2 - (i % 2)]]

ServerAnswers ==
  /\ ~sClosed /\ toServer # <<>>
  /\ toServer' = Tail(toServer)
  /\ \E ks \in Replies(Head(toServer)) : sNet' = sNet \o Halves(ks) /\ srv' = ks[Len(ks)]
  /\ UNCHANGED <<clientVars, sClosed, backendVars, limitVars, toClient, phase, at, buf, request>>

ServerCloses ==
  /\ phase = "connect" /\ ~sClosed
  /\ sClosed' = TRUE
  /\ UNCHANGED <<clientVars, sNet, srv, backendVars, limitVars, toClient, toServer,
                 phase, at, buf, request>>
-----------------------------------------------------------------------------
(* The size limit *)

multiplier(unit) ==
  CASE unit = "TB" -> Kilo * Kilo * Kilo * Kilo
    [] unit = "GB" -> Kilo * Kilo * Kilo
    [] unit = "MB" -> Kilo * Kilo
    [] unit = "KB" -> Kilo
    [] OTHER -> 1

\* Mutant: "0" is taken for a limit like any other.
parse_size_limit_zero(t) ==
  IF t.num \notin 0 .. Word - 1 THEN None ELSE (t.num * multiplier(t.unit)) % Word

\* A lone "0" is no limit, nor is anything that is not a u64.  The product wraps
\* around, as it does in a release build.
parse_size_limit(t) ==
  IF t = Zero \/ t.num \notin 0 .. Word - 1 THEN None
  ELSE (t.num * multiplier(t.unit)) % Word

\* The words of options are looked at one by one, and "-c max_db_size=..." is two
\* words, so that of the two prefixes only "--max_db_size=" is ever found; the first
\* word that has it decides.
OptionSize(settings) ==
  LET found == {i \in DOMAIN settings : settings[i].form = "--"} IN
  IF found = {} THEN NoSize
  ELSE settings[CHOOSE i \in found : \A j \in found : i <= j].size

max_db_size(r) ==
  IF parse_size_limit(r.size) # None THEN parse_size_limit(r.size)
  ELSE parse_size_limit(OptionSize(r.options))

effective_limit(r) == IF max_db_size(r) # None THEN max_db_size(r) ELSE DefaultLimit

-----------------------------------------------------------------------------
(* handle_client: startup and password *)

ClientRead(n) ==
  /\ phase \in {"startup", "password"} /\ at = "read"
  /\ buf' = buf \o SubSeq(cNet, 1, n)
  /\ cNet' = From(cNet, n)
  /\ at' = "loop"
  /\ UNCHANGED <<cl, cClosed, serverVars, backendVars, limitVars, toClient, toServer,
                 phase, request>>

ClientEof ==
  /\ phase \in {"startup", "password"} /\ at = "read" /\ cClosed /\ cNet = <<>>
  /\ phase' = "closed"
  /\ UNCHANGED <<clientVars, serverVars, backendVars, limitVars, toClient, toServer, at, buf, request>>

\* The buffer holds a message.  The first bytes of a TLS handshake read as the length
\* of a message that never comes.
Arrived == at = "loop" /\ Whole(buf) /\ buf[1].msg.kind # "hello"

NotArrived ==
  /\ phase \in {"startup", "password"} /\ at = "loop" /\ ~Arrived
  /\ at' = "read"
  /\ UNCHANGED <<clientVars, serverVars, backendVars, limitVars, toClient, toServer,
                 phase, buf, request>>

\* With a TLS acceptor the answer is "S"; without one it is "N", and the buffer is
\* emptied.
SslRequest(reply) ==
  /\ phase = "startup" /\ Arrived /\ buf[1].msg.kind = "ssl"
  /\ buf' = IF reply = "S" THEN From(buf, 2) ELSE <<>>
  /\ toClient' = Append(toClient, reply)
  /\ at' = "read"
  /\ UNCHANGED <<clientVars, serverVars, backendVars, limitVars, toServer, phase, request>>

CancelRequest ==
  /\ phase = "startup" /\ Arrived /\ buf[1].msg.kind = "cancel"
  /\ phase' = "closed"
  /\ UNCHANGED <<clientVars, serverVars, backendVars, limitVars, toClient, toServer, at, buf, request>>

Startup ==
  LET r == buf[1].msg IN
  /\ phase = "startup" /\ Arrived /\ r.kind = "startup"
  /\ buf' = From(buf, 2)
  /\ request' = r
  /\ at' = "read"
  /\ IF r.version = "3.0"
     THEN phase' = "password" /\ toClient' = Append(toClient, "password?")
     ELSE phase' = "closed" /\ toClient' = Append(toClient, "error")
  /\ UNCHANGED <<clientVars, serverVars, backendVars, limitVars, toServer>>

\* parse_startup_params fails: handle_client ends without a word.
UnreadableStartup ==
  /\ phase = "startup" /\ Arrived /\ buf[1].msg.kind = "unreadable"
  /\ buf' = From(buf, 2)
  /\ phase' = "closed"
  /\ UNCHANGED <<clientVars, serverVars, backendVars, limitVars, toClient, toServer, at, request>>

Password ==
  /\ phase = "password" /\ Arrived
  /\ buf' = From(buf, 2)
  /\ phase' = IF buf[1].msg.kind = "password" THEN "acquire" ELSE "closed"
  /\ UNCHANGED <<clientVars, serverVars, backendVars, limitVars, toClient, toServer, at, request>>

-----------------------------------------------------------------------------
(* acquire and connect_backend *)

\* An idle connection of the pool: its server said ReadyForQuery when it was reset,
\* but if that was the end of an earlier answer, DISCARD ALL is still unanswered.
AcquirePooled ==
  /\ phase = "acquire"
  /\ phase' = "greet" /\ srv' = "ready"
  /\ toServer' \in {<<>>, <<"discard">>}
  /\ UNCHANGED <<clientVars, sNet, sClosed, backendVars, limitVars, toClient, at, buf, request>>

\* acquire gives up, or the server cannot be reached: the client is told.
AcquireErr ==
  /\ phase = "acquire"
  /\ phase' = "closed" /\ toClient' = Append(toClient, "error")
  /\ UNCHANGED <<clientVars, serverVars, backendVars, limitVars, toServer, at, buf, request>>

Connect ==
  /\ phase = "acquire"
  /\ phase' = "connect" /\ step' = "auth" /\ at' = "read"
  /\ toServer' = <<"startup">>
  /\ UNCHANGED <<clientVars, serverVars, authenticated, sbuf, limitVars, toClient, buf, request>>

BackendRead(n) ==
  /\ phase = "connect" /\ at = "read"
  /\ sbuf' = sbuf \o SubSeq(sNet, 1, n)
  /\ sNet' = From(sNet, n)
  /\ at' = "loop"
  /\ UNCHANGED <<clientVars, sClosed, srv, step, authenticated, limitVars, toClient, toServer,
                 phase, buf, request>>

\* connect_backend fails, and acquire with it.
BackendEof ==
  /\ phase = "connect" /\ at = "read" /\ sClosed /\ sNet = <<>>
  /\ phase' = "closed" /\ toClient' = Append(toClient, "error")
  /\ UNCHANGED <<clientVars, serverVars, backendVars, limitVars, toServer, at, buf, request>>

Auth == {"auth_ok", "cleartext", "md5", "sasl", "sasl_continue", "sasl_final", "auth_bad"}

\* What connect_backend answers to a message of the server.
Answer(st, k) ==
  CASE st = "auth" /\ k \in {"cleartext", "md5"} -> <<"password">>
    [] st = "auth" /\ k = "sasl" -> <<"sasl_initial">>
    [] st = "scram_first" /\ k = "sasl_continue" -> <<"sasl_response">>
    [] OTHER -> <<>>

\* Mutant: the first loop ends connect_backend.
NextStepAtOk(st, k) == IF k \in {"auth_ok", "ready"} THEN "done" ELSE IF k = "error" THEN "failed" ELSE st

\* Where it goes next: "auth" is the first loop, "after" the one behind it, and the
\* two steps of SCRAM have loops of their own inside the first.
NextStep(st, k) ==
  CASE k = "error" -> "failed"
    [] k = "ready" /\ st \in {"auth", "after"} -> "done"
    [] k \in Auth /\ st = "auth" ->
         CASE k \in {"auth_ok", "cleartext", "md5"} -> "auth"
           [] k = "sasl" -> "scram_first"
           [] OTHER -> "failed"
    [] k \in Auth /\ st = "scram_first" -> IF k = "sasl_continue" THEN "scram_final" ELSE "failed"
    [] k \in Auth /\ st = "scram_final" -> IF k \in {"sasl_final", "auth_ok"} THEN "auth" ELSE "failed"
    [] OTHER -> st

\* A message of the server is taken from the buffer.  The loops of SCRAM read again
\* before they look at the buffer, the others when it holds no further message.
BackendMessage ==
  LET k    == sbuf[1].msg.kind
      next == NextStep(step, k) IN
  /\ phase = "connect" /\ at = "loop" /\ Whole(sbuf)
  /\ sbuf' = From(sbuf, 2)
  /\ step' = next
  /\ authenticated' = (authenticated \/ (step = "auth" /\ k = "auth_ok"))
  /\ at' = IF next \in {"scram_first", "scram_final"} THEN "read" ELSE "loop"
  /\ toServer' = toServer \o Answer(step, k)
  /\ phase' = CASE next = "done" -> "greet" [] next = "failed" -> "closed" [] OTHER -> phase
  /\ toClient' = IF next = "failed" THEN Append(toClient, "error") ELSE toClient
  /\ UNCHANGED <<clientVars, serverVars, limitVars, buf, request>>

BackendNoMessage ==
  /\ phase = "connect" /\ at = "loop" /\ Partial(sbuf)
  /\ at' = "read"
  /\ step' = IF step = "auth" /\ authenticated THEN "after" ELSE step
  /\ UNCHANGED <<clientVars, serverVars, authenticated, sbuf, limitVars, toClient, toServer,
                 phase, buf, request>>

-----------------------------------------------------------------------------
(* The greeting *)

Greeting == <<"auth_ok", "status", "key", "ready">>

\* register_limit, the greeting, register_session.
Greet ==
  /\ phase = "greet"
  /\ phase' = "proxy"
  /\ registered' = max_db_size(request)
  /\ toClient' = toClient \o Greeting
  /\ limit' = effective_limit(request)
  /\ UNCHANGED <<clientVars, serverVars, backendVars, toServer, at, buf, request>>

\* A write of the greeting fails.
GreetFails ==
  /\ phase = "greet" /\ cClosed
  /\ phase' = "closed"
  /\ registered' = max_db_size(request)
  /\ UNCHANGED <<clientVars, serverVars, backendVars, limit, toClient, toServer, at, buf, request>>

-----------------------------------------------------------------------------
Session ==
  \/ \E n \in 1 .. Len(cNet) : ClientRead(n)
  \/ ClientEof \/ NotArrived
  \/ \E reply \in {"N", "S"} : SslRequest(reply)
  \/ CancelRequest \/ Startup \/ UnreadableStartup \/ Password
  \/ AcquirePooled \/ AcquireErr \/ Connect
  \/ \E n \in 1 .. Len(sNet) : BackendRead(n)
  \/ BackendEof \/ BackendMessage \/ BackendNoMessage
  \/ Greet \/ GreetFails

Next ==
  \/ \E m \in Messages : ClientSends(m)
  \/ \E n \in 0 .. Len(cNet) : ClientCloses(n)
  \/ ServerAnswers \/ ServerCloses
  \/ Session

Spec == Init /\ [][Next]_vars

\* The task of the session keeps running (acquire has a deadline), and the server
\* answers what it is sent.  Nothing is assumed of the client.
FairSpec == Spec /\ WF_vars(Session) /\ WF_vars(ServerAnswers)

-----------------------------------------------------------------------------
(* Properties *)

\* When connect_backend hands over a connection, the server is ready and all it has
\* said has been read: the first thing the proxy loops forward to the client is an
\* answer to the client, and what was left in the buffer of connect_backend, which is
\* thrown away, was nothing.  (Of a connection from the pool this cannot be said:
\* see AcquirePooled, and OwnAnswers in Proxy.)
HandoverClean ==
  phase \in {"greet", "proxy"} /\ step = "done" =>
    srv = "ready" /\ sNet = <<>> /\ sbuf = <<>> /\ toServer = <<>>

\* What a client waits for after which of its messages.
Expected == [ssl |-> {"N", "S"}, hello |-> {"tls"}, startup |-> {"password?", "error"},
             password |-> {"ready", "error"}]
Awaiting == cl \in DOMAIN Expected /\ Expected[cl] \cap Range(toClient) = {}

\* A loop of SCRAM has taken a notice and reads again, although the message it waits
\* for is already in the buffer.
Overlooked == phase = "connect" /\ step \in {"scram_first", "scram_final"} /\ at = "read" /\ Whole(sbuf)

\* A client that follows the protocol and stays gets the next message of the handshake
\* or an error, however its messages and those of the server are cut into reads and
\* whatever authentication the server asks for.  There are two ways to wait for ever: to
\* begin TLS after "S", which the README of the repository lists as not implemented,
\* and a server that sends a notice together with a message of SCRAM.
ClientAnswered == Awaiting ~> (~Awaiting \/ cClosed \/ cl = "hello" \/ []Overlooked)

\* The number of bytes a text stands for; the text "0" and what is not a u64 ask for
\* nothing.
UnitBytes(unit) ==
  CASE unit = "KB" -> Kilo
    [] unit = "MB" -> Kilo * Kilo
    [] unit = "GB" -> Kilo * Kilo * Kilo
    [] unit = "TB" -> Kilo * Kilo * Kilo * Kilo
    [] OTHER -> 1
Wanted(t) == IF t = Zero \/ t.num \notin 0 .. Word - 1 THEN None ELSE t.num * UnitBytes(t.unit)

\* What a client asks for: by the parameter max_db_size, or else by the first setting
\* of it in the options, in either form.
ByParameter == Wanted(request.size) # None \/ request.options = <<>>
Asked == Wanted(IF ByParameter THEN request.size ELSE request.options[1].size)

\* A session has registered for its database, and is restricted by, exactly the
\* number of bytes its client asked for, and by the default if it asked for nothing.
\* Two cases are left out, in which the code does something else: "-c max_db_size=" in
\* the options is not found, and a number of bytes that no u64 can hold wraps around.
LimitHonoured ==
  phase = "proxy" /\ (ByParameter \/ request.options[1].form = "--") =>
    IF Asked = None THEN registered = None /\ limit = DefaultLimit
    ELSE Asked < Word => registered = Asked /\ limit = Asked
=============================================================================
