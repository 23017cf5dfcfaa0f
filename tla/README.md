# Verification of PgMux

TLA+ models of PgMux, a PostgreSQL connection multiplexer written in Rust
(`src/src/`), with TLC runs on small instances and TLAPS proofs for all
instances. `PROJECT.json` is the machine-readable index: components, runs,
mutants, the map from definitions to source lines, findings, hazards, theorems.

## The system

| Part | Source | What it does | Modelled by |
|---|---|---|---|
| Connection pool | `pool/mod.rs` | hands out and takes back backend connections per (host, port, database, user), with a per-pool and a global limit, a deadline, expiry of pooled connections | `Pool`, `Lease` |
| Size monitor | `monitor/mod.rs` | measures databases every interval, keeps a registry of sessions, raises and clears one flag per session | `Monitor`, `Gauge` |
| Scanner | `protocol/messages.rs` | finds `ReadyForQuery` in a raw server stream | `Scanner` (bytes), `Proxy` (halves) |
| Client session | `protocol/frontend.rs`, `handle_client` | startup, password, acquire, greeting, register, proxy, unregister, release | `Handshake`, then `Proxy`; its shared effects in `Pool` and `Monitor` |
| Proxy loops | `protocol/frontend.rs` | fast: raw forwarding; slow: parse and rewrite queries of sessions over their limit | `Proxy` |
| Backend connection | `protocol/backend.rs` | authentication exchange; `DISCARD ALL` on return | `Handshake`; `Proxy` |
| Messages | `protocol/messages.rs` | framing and builders | `Framing`, `Scanner` |
| Configuration | `config.rs` | limits and timeouts, `parse_size_limit` | constants; an operator of `Handshake` |
| Metrics, admin server, TLS, auth, main | `admin/`, `tls/`, `auth/`, `main.rs` | output, HTML, file loading, spawning tasks | not modelled |

How they interact: `main` spawns one monitor task and, per accepted client, one
`handle_client` task. Tasks run on several threads and meet in the pool (a map
of pools, each with a locked queue, atomic counters and a `Notify`), and in the
monitor (three concurrent maps and the atomic flags). Everything else is local
to a task, and each client task talks to one client and one server.

The modules divide the system along these lines. `Pool` and `Monitor` have many
tasks and treat what a task does with its sockets as single steps. `Handshake` and
`Proxy` follow the sockets of one session, message by message, and see the shared
parts through what `Pool` and `Monitor` promise: an acquire ends (`AcquireDecides`)
with a connection that nobody else uses (`Lease`), and the size and the flag behave
like a `Gauge`, which `Monitor` is shown to implement.

## The modules

### Pool

One process per client slot. `pc` is where the task is; the labels are the
points between two accesses to shared state.

| Action | Code in `pool/mod.rs` (unless noted) |
|---|---|
| `Accept` | entry of `acquire`, 64-77 |
| `LockIdle`, `EvictHead`, `TakeHead`, `ScanEmpty` | the loop under `pool.idle.lock()`, 79-111, one step per iteration |
| `LoadTotal`, `LoadActive` | 114, 115-116 |
| `GoConnect`, `GoWait`, `BailAtLimit` | the length of the queue and the two comparisons, 116-151 |
| `Poll`, `Resume`, `TimeOut`, `TimeOutNotified`, `DeadlinePasses` | the `select!` between the `Notify` and the deadline, 126-133, 143-150 |
| `ConnectOk`, `ConnectErr` | 153-171 |
| `Release`, `ResetOk`, `ResetErr`, `NotifyReturned` | `release`, 176-209 |
| `DropOnError` | the `?` exits of `handle_client` after `acquire` (`frontend.rs` 208-296): the socket is dropped, `release` is not called |
| `Expire` | time passing the lifetime or the idle timeout of a pooled connection |

Sockets have identities (`Conns`), which the code does not have; they make it
possible to say what the counters count. `place` is "lost" for a socket that was
closed by `DropOnError` and is still counted.

Modelled from its use: tokio's `Notify` (waiters in order of arrival, at most one
stored permit, a notification dropped with its future is passed on) and the
random choice of `select!` between two ready branches. Counters are accessed with
relaxed ordering; each access is one atomic step and the order of a task's own
accesses is kept. `ConnectOk` raises the two counters in one step: no task reads
both in a way that tells the orders apart beyond what the split loads already
allow.

`Lease` says what a pool promises, with no queue, limit or counter: a connection
serves one client at a time, only clients of the tenant it was opened for, and is
cleaned between two clients. `Pool` implements it under the mapping `LeaseStatus`,
`LeaseTenant`, `LeaseHolds` (the lost socket is a closed one).

### Monitor

Sessions are identified by their id and used once. The monitor task goes through
`sleep`, `connect`, `query`, `flags`. `Begin` is `register_limit`; `ReadSize` and
`InsertSession` are the two halves of `register_session`; `Unregister` and
`FailSession` are the two ways a session ends. `Tick` to `EndCheck` are
`check_all_sizes`, one step per access to a map. `Resize` is the database itself.
`peak`, the largest size measured, is a history variable. `max_size` and `MeasuredOver`
are the comparison of the slow loop, which is not quite the one of the flag. A session inserted while
the registry is iterated may or may not be visited, as with a concurrent map.

`Gauge` is what one session sees of this: whether the last measured size exceeds its
limit (`over`, what the slow loop compares) and its flag (`flag`, what the switch
looks at). They change one at a time, and the flag only to what the size says at
that moment; nothing is promised about how soon.

The metrics (`db_size_bytes`, `db_size_limit_bytes`, `db_over_limit`) are left out:
nothing reads them.

### Scanner

Byte level, with the real header of five bytes. `ServerSends` appends an encoded
message to the stream, `Read(n)` delivers the next `n` bytes, and each iteration of the
loop in `scan` is one step (`SkipPayload`, `PartialHeader`, `WholeHeader`). The reference
is the position of the messages in the stream (`Start`, `End`), which the history
variable `ends` records. `MessagesAssumption` says what a server sends: bytes, with a
length that fits a positive `i32`. What `scan` returns is compared with the most recent
`ReadyForQuery` whose status byte is in the data of the call (`MostRecent`). The documented
meaning, `ScanReportsEveryIdle`, is violated (`scanner_split`); `ScanReportsIdle` says what
holds.

### Framing

A stream is a sequence of message halves, header and payload. A read delivers any
number of them, so it can end inside a message. `Whole`, `Partial` and `Unframed` are
the three outcomes of `try_read_message` and `try_read_message_with_raw`.

### Handshake

One session up to the greeting. `ClientRead` and the actions that follow it are the
loops of phases 1 and 2 of `handle_client`; `SslRequest` answers "S" or "N", as an
acceptor is configured or not; `Startup` reads the parameters. `AcquirePooled`,
`AcquireErr` and `Connect` are the outcomes of `acquire`. `BackendRead`,
`BackendMessage`, `BackendNoMessage` and `BackendEof` are `connect_backend`: `step`
says which of its four read loops it is in ("auth", the two of SCRAM, "after"), and
`Answer` and `NextStep` are its `match`. The SCRAM loops read before they look at the
buffer and take one message per read; the other two empty the buffer first.

A size text is a number (or not a number), written plainly or not ("00" is not "0"), and a
unit, which `multiplier` turns into a factor. `Kilo` stands for 1024 and `Word` for 2^64, so
that the wrap-around of the product is within TLC's integers. Options are a sequence of
settings of `max_db_size`, in the form `--max_db_size=` or `-c max_db_size=`;
`OptionSize` looks for them word by word, as the code does, and so finds the first form
only. The reference of `LimitHonoured` (`Wanted`, `Asked`) is what the texts mean, not what
the code reads in them.

The server answers with any authentication method and any outcome, an error after
`AuthenticationOk` included, and a notice may come before each of its messages. Client and
server wait for the answer to what they have sent, as the protocol demands; the client
may leave at any time, in the middle of a message too, or send a startup message that
`parse_startup_params` rejects. A connection from the pool may still owe the answer to
`DISCARD ALL` (see `proxy_reset`): `HandoverClean` is about the connections that
`connect_backend` opens.

Three things are known not to hold, and are named in the properties as exceptions:
a client that begins TLS after "S" waits for ever, and so does one whose server sends a
notice in the same read as a message of SCRAM (`Overlooked`); a limit given as
`-c max_db_size=`, or of 2^64 bytes and more, is not the one asked for.

### Proxy

One backend connection and the sessions that use it one after the other. `mode` is
the loop that runs ("fast", "slow", "reset" for `reset_connection`) or where the
connection ended up ("pooled", "closed"); `at` is the `select!` or one of the inner
`while` loops.

| Action | Code in `frontend.rs` (unless noted) |
|---|---|
| `FastClientRead`, `FastServerRead` | the two branches of `fast_proxy_loop`, 319-352, scanner and switch included |
| `SlowClientRead`, `SlowClientMessage` | the client branch of `slow_proxy_loop`, 376-448; `Verdict` is the decision about a message |
| `ServerRead`, `SlowServerMessage` | its server branch, 450-470; `ServerRead` is also the read of `reset_connection` |
| `NoMessage` | `try_read_message_with_raw` returns `None` |
| `Misframe`, `MiscutClient`, `MiscutServer`, `MiscutReset` | it takes the middle of a message for a header (`messages.rs` 82-105): the length it reads is out of range or not there yet, or that of a piece, which is forwarded, rewritten, dropped or taken for a `ReadyForQuery` |
| `EndSession`, `Drop` | a read returns 0: `release`; a write fails: the socket is dropped |
| `ResetMessage`, `ResetEof` | `reset_connection` (`backend.rs` 243-270) |
| `Reuse` | `acquire` gives the pooled connection to the next client |

Queries are told apart by what the program and the server make of them: "write",
"shrink" (`is_shrink_operation`), "begin", "end", and "latin" for a text that
`extract_query_text` cannot read; "parse" and "sync" stand for the extended protocol.
The server is modelled as far as the prefix `SET TRANSACTION READ ONLY;` matters: its
transaction is idle, read-write, read-only or failed. `dropped` (queries the slow loop
threw away), `missed` (a `ReadyForQuery` whose status began a read, which the
scanner does not see) and `misread` (the directions in which a loop has cut a message
wrongly) are history variables. After a wrong cut the loop may go on anywhere: as long as a
direction is in `misread`, its next piece may be cut anywhere again, and the scanner,
once it is not aligned, may report anything. `scanner.transaction_status` is left
out: nothing reads it.

## The runs

| Run | Instance | Shows |
|---|---|---|
| `pool` | 2 clients, 2 keys, 2 sockets, limits 1 per pool / 2 global, fair | `TypeOK`, `Ownership`, `Accounting`, `PerPoolOvershoot`, `GlobalOvershoot`, `ImplementsLease`, `AcquireDecides` |
| `monitor` | 2 sessions, 1 database, sizes and limits 0..2, no default, fair | `TypeOK`, `UnlimitedNeverFlagged`, `FlagWitnessed`, `FlagRaised`, `FlagCleared`, `ImplementsGauge` |
| `scanner` | streams of up to 3 messages, payloads of 0, 1 and 6 bytes, all splits | `InSync`, `ScanReportsIdle` |
| `handshake` | 1 client, 8 size texts, 4 options texts, words of 6 bits, fair | `HandoverClean`, `LimitHonoured`, `ClientAnswered` |
| `proxy` | 2 clients that wait for answers, 3 messages in all, fair | `ServerGetsAll`, `ClientGetsAll`, `ScannerAligned`, `NeverMisread`, `Enforced`, `OwnAnswers`, `SwitchIdle`, `Answered`, `ResetDecides` |
| `proxy_pipelined` | 1 client that sends and leaves at any time, extended queries included, 3 messages | `ServerGetsAll`, `ClientGetsAll`, `ScannerAligned` |
| `pool_stranded` | 4 clients, limits 2 / 2 | violated: `NoStrandedWaiter` |
| `monitor_default` | 1 session, default limit 1, fair | violated: `DefaultEnforced` |
| `scanner_split` | streams of up to 3 messages, all splits | violated: `ScanReportsEveryIdle` |
| `proxy_shrink` | 1 client, 3 messages | violated: `ShrinkPermitted` |
| `proxy_reset` | 2 clients, 2 messages, the first does not wait for its answer | violated: `ResetCleans` |
| `proxy_leftover` | 1 client that sends 3 messages without waiting, fair | violated: `LeftoverForwarded` |

The violated properties are sentences of the documentation or of comments that the
code does not keep; `PROJECT.json` quotes each ("findings"). `ResetCleans` is `OwnAnswers`
for connections on which no message was cut wrongly: it holds for clients that wait for
their answers before they leave. In `proxy_pipelined`, `ServerGetsAll` and `ScannerAligned`
claim nothing of a direction in which the slow loop has cut a message wrongly: from then
on bytes can be changed. `ClientGetsAll` has no such condition, because the bytes of the
server are forwarded as they are, wherever they are cut. For clients that wait for their
answers it never comes to that (`NeverMisread`).

**Why the bounds are enough.** The pool's overruns need two clients that have passed
a check before either has connected; both properties count those clients with the
sockets, so that an overrun is a state before the sockets are opened. Two keys show that connections
stay with their key. All safety properties of the runs that pass are proved for any
number of clients, keys, sockets, sessions and messages (see the proofs), so for them
the bounds only matter as a first test. The lost
wake-up of `NoStrandedWaiter` needs four clients: the same instance with three has no
violation (98,731 states). For the
monitor, sizes 0..2 contain a size below, at and above a limit of 1; two sessions
are needed for one to overwrite the other's limit. For the scanner, a message
before and after a `ReadyForQuery`, an empty payload and a payload that begins
like a `ReadyForQuery`. For the proxy, three messages are what a transaction with one
statement takes, or a query in each of fast, slow and fast again; each answer has two
messages, so a read can end inside either or between them. For the handshake, the
size texts contain a missing one, "0", "00", "0KB", one with and one without a unit, one
whose product does not fit and one that does not fit itself; the options, both forms and a
text that is not a size before one that is.

**Symmetry** is used in `pool_stranded` only (client slots, sockets and keys are
interchangeable), never with liveness.

**Deadlock** is checked except where a run ends: the scanner's stream, the handshake
and the proxy's last session.

**Fairness.** `Pool!Fairness`: every step a task can take without another task or
the network is eventually taken (the runtime polls runnable tasks, timers fire);
steps that need the lock of the idle queue are strongly fair, because parking_lot
hands a contended lock over eventually. Nothing is assumed of clients, of the
backend, or of a connect in progress, which is why `AcquireDecides` ends at
`connect`. `Monitor!Fairness`: the monitor task keeps running (`main` never stops
it), and the server it asks is not down for good: connecting and measuring succeed
again and again (strong fairness). `Handshake!FairSpec` and `Proxy!Fairness`: the task of
the session is polled while it can do something, and the server answers what it has
received and closes when it gets `Terminate`; clients may stop at any point.

## The proofs

Every invariant, the action property and both refinements of the passing runs are proved,
from `PoolAssumption`, `MonitorAssumption`, `MessagesAssumption`, `HandshakeAssumption`
and `ProxyAssumption`: the types of the constants, special values that are not members of
the sets they stand beside, and finite sets of clients (at least one) and sockets, with
no bound on their sizes. TLC evaluates these assumptions in the runs.

| Module | Theorems |
|---|---|
| `PoolProofs` | lemmas: queues, `Waiting`, `Ownership`, the steps of `Lease` |
| `PoolTheorems` | `TypeCorrect`, `SocketsHaveOneOwner`, `CountersAddUp`, `LimitOverrunBounded`, `PoolOverrunBounded`, `PoolImplementsLease` |
| `MonitorProofs` | `MonitorTypeCorrect`, `UnlimitedStaysFast`, `FlagsAreWitnessed`, `MonitorImplementsGauge` |
| `ScannerProofs` | `ScannerInSync`, `ScannerReportsIdle` |
| `HandshakeProofs` | `LimitsAreHonoured`, `HandoverIsClean` |
| `ProxyProofs` | `NothingLostToServer` |
| `ProxyAnswers` | lemmas: what each step does to the answers and the scanner |
| `ProxySessions` | `NothingLostToClient`, `ScannerStaysAligned`, `FramesAreKept`, `AnswersAreOwn`, `LimitIsEnforced`, `SwitchesWhenIdle` |

**Pool.** The inductive invariant is `IInv == TypeOK /\ Waiting /\ Ownership /\ Accounting
/\ GlobalOvershoot`. None of the conjuncts is inductive alone: a counter is lowered
only by a task that owns a counted socket (`Accounting` needs `Ownership`, and
`TypeOK` needs `Accounting` for `Nat`); that a notification goes to a task that
waits needs `Waiting`; `GlobalOvershoot` compares the count with the tasks that
have seen room: a task that sees room joins them when the count is below the
limit, and each connect moves one task from the second term to the first. Each
conjunct has lemmas per kind of step (`OwnershipTake`, `OwnershipConnect`, ...).

`PoolOverrunBounded` needs another argument, because the count of one pool is put
together from two reads at different times, and connections being reset are in neither.
What bounds the overrun is that a task compares only after it has found the idle queue
empty: at that moment every socket of the pool is in the hands of another task or lost,
and lost ones stay in the active count. `PoolBound` says that the sockets of a pool and
the tasks that may still connect are together fewer than the limit plus the clients.

`PoolImplementsLease`: the initial states map to initial states, one lemma per abstract
action shows which steps of the pool are that action, and all others leave the mapped
state unchanged.

**Monitor.** The invariant adds that known sizes are at most the peak (`Measured`), that
a session has no flag before it is registered (`FreshUnflagged`), and that the registry
holds registered sessions (`Registered`). For `MonitorImplementsGauge`, a step that sets
no flag is a measurement or nothing to a session (`NoFlagSet`); `ReadSize` and
`VisitSession` set a flag to what the size says (`FlagSetFromSize`).

**Scanner.** `Codec` shows that `from_be_bytes` reads back the length `encode` wrote
(`BigEndian`). The invariant is that the stream is the encoding of the messages sent
(`Layout`), `InSync`, that `saw_idle` is right for the bytes consumed so far (`IdleSoFar`),
and that the scanner stands right before a status byte only at an end of the data
(`SkippedFirst`), which is what makes the exception in `ScanReportsIdle` the only one.

**Handshake.** `LimitKept` ties what is registered to the startup message; the rest
compares what the code reads in the texts with what they mean, and is the arithmetic of a
product modulo `Word`. For the handover the invariant describes the
conversation (`Talk`): at most one message awaits its answer, nothing is unread while one
does, and in what is unread only the last message can be one that ends
`connect_backend` or that it answers. So when it ends, nothing is left.

**Proxy.** Three layers, each of which uses the one before.

- `RInv` (`ProxyProofs`): types, both directions framed counted from their end
  (`WholeMessages`), nothing of a session left after it (`Left`), and `ServerGetsAll`. It
  holds for all clients, those that pipeline and leave at any point included; but
  `ServerGetsAll` says nothing after a message of the client was cut wrongly.
- `AInv` (`ProxyAnswers`): `ClientGetsAll`, and the scanner is inside a message exactly
  when an odd number of halves is still to come (`SkipParity`), unless the slow loop has
  cut an answer wrongly. Otherwise the slow loop forwards
  whole messages, which does not change the parity: that is why a scanner that has not
  seen them is still aligned.
- `LInv` (`ProxySessions`), for polite clients: client and server take turns
  (`Lockstep`), so that the `ReadyForQuery` on its way is the last thing on its way; then the
  reset reads the answer to its own `DISCARD ALL` (`Resetting`) and a pooled connection
  owes nothing (`Quiet`), from which the next session starts. A switch to the slow loop
  finds nothing on its way in either direction, and the loop takes whole messages, so it and
  the reset are always between two messages (`InFrame`): that is `FramesAreKept`, which
  makes `ServerGetsAll` and `ScannerAligned` unconditional for these clients.

`NothingLostToClient` and `ScannerStaysAligned` are stated under `Handed`, polite clients or
the first session of a connection, and `FramesAreKept`, `AnswersAreOwn`, `LimitIsEnforced`
and `SwitchesWhenIdle` under `Polite`. These are the cases the runs check, and each property is
violated in a small instance without them. An impolite client leaves answers unread,
`reset_connection` takes the wrong `ReadyForQuery` for its own, and the next session
begins with an answer that is not its own, or in the middle of one (`proxy_reset`); and
one that pipelines is owed answers, and may be in the middle of a message, when the
loops are switched.

**Only model-checked.** `AcquireDecides`, `FlagRaised`, `FlagCleared`, `ClientAnswered`,
`Answered` and `ResetDecides` are liveness properties; fairness and `ENABLED` are out of the
prover's reach. The six violated properties are shown by counterexamples.

## Observed, without a run

Disagreements met while modelling that are not among the runs.

- Pool: the global limit and the limit of a pool (`config.rs` 34, 37) can be overrun,
  by as much as the overshoot properties say; a session that fails closes its socket
  without giving its slot back, so the count of open connections includes it; `release`
  restarts the lifetime of a connection (`pool/mod.rs` 195); a failed reset or an
  eviction frees capacity and wakes nobody, and a return wakes only clients of its own
  key although the global limit is shared; the deadline of `acquire` does not cover
  `connect_backend`; the extra startup parameters of a client are not applied when it
  gets a pooled connection.
- Monitor: a session that registers during a check can keep a flag computed from the
  previous size until the next check; a session that fails stays in the registry; a
  `max_db_size` of 0 is "unlimited" for the session and "zero bytes" for the gauge and
  the warning.
- Handshake: the prefix `-c max_db_size=` (`frontend.rs` 131) cannot match, since the text
  has been split at white space before; a text "0" means the default limit, and "00" and
  "0KB" no limit; a product that exceeds 64 bits wraps around in a release build, to a
  smaller limit or to 0, which is none; a `CancelRequest` is read and not forwarded; with a TLS acceptor the session
  answers "S" and then takes the TLS handshake for a message that never ends; a notice
  that arrives together with a SCRAM message makes `connect_backend` wait for ever.
- Proxy: the measured size may pass the limit while the slow loop is in a transaction,
  which then becomes read only half way; with pipelining the switch can come in the
  middle of a message of either side, so that a client message passes unparsed, a
  notice is written inside a server message, and the slow loop takes a payload for a
  header, with which it may rewrite or drop a part of a message; while the database is over its limit, a
  query that is not UTF-8 is dropped, and a failed transaction cannot be ended with
  `ROLLBACK`, because the prefix fails first; `reset_connection` never succeeds after
  `Terminate`, which makes the server close; it can wait for ever if the client left in
  the middle of a message.

## Not modelled

Metrics, the admin pages and `get_stats`, `total_connections`, `get_all_db_info` read
state and change none. `Config::load`, the certificate loading of `tls/mod.rs` and
`main` are I/O and wiring; the auth module has no code. The text of errors
(`parse_error_fields`), cryptography (MD5, the SCRAM messages) and the byte layout of
the built messages other than their frames are left out of the models: no decision of
the program depends on them. The ages of pooled connections are left out of `Pool`,
where any of them may have expired.
