# RustProxy in TLA+

A verification development for RustProxy: TLA+ models of its services, TLC
configurations that check them on small instances, and TLAPS proofs of the main
safety properties for every value of the constants. `PROJECT.json` lists the
components, the runs, the mutants that show each property can fail, the source
lines behind every definition, the findings, the hazards and the theorems.

## The system

| Part | Source (`crates/`) | Module |
|---|---|---|
| Node life cycle, health rules (pure) | `control-plane/src/model.rs`, `health.rs` | `Health` |
| Node registry, HTTP handlers, health sweep | `control-plane/src/registry.rs`, `service.rs`, `api.rs`, `server.rs`, `metrics.rs` | `ControlPlane`, `NodeLifecycle` |
| Agents together with the control plane | `node/src/server.rs`, `cp_client.rs` | `Cluster` (extends `ControlPlane`) |
| Routing score and selection (pure) | `control-plane/src/routing.rs`, `model.rs` | `Routing` (extends `Health`) |
| Bandwidth allocators and guards | `control-plane/src/bandwidth.rs`, `service.rs` | `BandwidthAllocator`, `Reservations` |
| Selection with bandwidth | `control-plane/src/service.rs` | `Admission` (extends `Routing`, `BandwidthAllocator`) |
| Rate limiter | `control-plane/src/bandwidth.rs` | `RateLimiter` |
| Node agent server | `node/src/server.rs` | `NodeServer` |
| Gateway server | `gateway/src/gateway.rs` | `Gateway` |
| One proxied session over both hops | `gateway/src/handler.rs`, `node/src/handler.rs`, `protocol/src/handshake.rs` | `Session` |
| Relay timeout | `gateway/src/relay.rs` | `Relay` |
| SOCKS5 messages as bytes (pure) | `protocol/src/` | `Codecs` |
| The handshakes of both hops, byte by byte | `gateway/src/handler.rs`, `node/src/handler.rs`, `rustproxy-bin/examples/loadgen.rs` | `Handshake` (extends `Codecs`) |
| Metrics endpoint, configuration, logging, command line | `gateway/src/metrics_server.rs`, `common/`, `rustproxy-bin/` | not modelled |

A client speaks SOCKS5 to the gateway, which asks the control plane for a node
and chains a CONNECT through it. Node agents register with the control plane
and send heartbeats; a background sweep marks silent nodes offline; operators
drain nodes.

## How the modules correspond to the code

**ControlPlane.** The node table has one variable per column that a decision
depends on. Every SQL statement commits on its own and handlers run
concurrently, so a handler is a task that takes one step per statement:
`register` is upsert, read, publish; `heartbeat` is read, update, perhaps
`set_state`, read, publish; `drain` is update, read, publish. The sweep reads
the clock, then the table, then updates one row at a time. `Abort`,
`SweepFails` and `Restart` are a failing statement or a client that goes away,
a sweep that stops half way, and a control plane that restarts. Time stamps are
stored in whole seconds (`Truncated`). `beat`, `heard` and `settled` are
history variables. Bandwidth and latency are in `Routing`; the columns for
address and bytes decide nothing and are left out.

**NodeLifecycle** is the state machine of `model.rs` as an abstract
specification; `ControlPlane` implements it when handlers do not overlap.

**Cluster** adds agents to `ControlPlane`: each registers once per life, beats
at least once per interval, may die at any moment and be started again while a
call of its former life is still being served. It assumes that a request takes
less than a tick. Its configuration assumption,
`(MaxFaults + 1) * HeartbeatInterval + Second <= OfflineTimeout`, is what an
operator has to keep to tolerate that many lost heartbeats in a row.

**BandwidthAllocator** has one step per atomic access of `try_reserve` and
`BandwidthGuard::drop`, with an exchange that may fail for no reason, and u64
arithmetic (`MaxU64` is a constant). There is one counter per node; the service
makes an allocator on first use and keeps its ceiling (`try_reserve` includes
the look-up). **Reservations** is the atomic promise.

**Routing** has one operator per function of `routing.rs`. A score is an exact
fraction. `select` keeps the last of equal nodes (`max_by`), `First` the first
(`sort_by` is stable).

**Admission** is `select_with_bandwidth`: a call lists the table once, and then
tries one node after the other while rows change and other calls reserve and
drop. The table is any table: rows are replaced by `UpdateRow`.

**RateLimiter** is the bucket behind `&mut self`, with whole tokens and ticks.
`Observe` starts the measured window at an arbitrary moment. `acquire` rounds
its sleep up to a tick, the model's form of the code's minimum sleep.

**NodeServer** and **Gateway** are the accept loops, one task per connection
with a step per access to shared state, the FIFO semaphore, the shutdown token
and the drain. When `run` returns the process ends and what still runs is cut
off. The gateway counts references to the semaphore, the agent counts
connections in `NodeStats`; that difference decides what each drain waits for.

**Session** is one connection through both handlers. A stream is a sequence of
frames; a frame that is not expected or does not parse fails the read, and any
await may time out. The client may pipeline its frames, leave some out and get
them wrong. `nt` and `gc` keep everything delivered to target and client.
`copied` is what `copy_bidirectional` counts, `recorded` what a hop adds to its
metrics, which it does only for a relay that ends well.

**Codecs** has the serializers and parsers of the protocol crate as operators
on sequences of bytes, and for each reading function of the handlers how many
bytes it wants next, given what it has. A parser returns the set of its result,
empty for any error.

**Handshake** runs the two handlers and a client on streams of bytes that
arrive in any portions. A frame is read by one `read_exact` per stage, accepted
or refused as a whole, and answered. `written` is what was written to a stream,
`arrived` and `pos` how much of it has arrived and was read, `buf` what its
reader has of the current frame; `ends` and `taken` are history: where frames
end and how many were accepted. Timeouts stay in `Session`.

**Relay** is the timeout around `copy_bidirectional`. `idle` is a history
variable.

## Runs

Passing runs:

| Run | Checks | Distinct states |
|---|---|---|
| `control_plane` | `GaugeFollows`, `HeartbeatClassifies`, `ImplementsLifecycle`, two nodes, one handler or sweep at a time, one failure | 3,838,804 |
| `cluster` | `ClusterTypeOK`, `NoFalseOffline`, `SelectableWasHeard`, `DrainSticks`, `SweepIsExact`, `DeadNodeLeaves`, `LiveNodeServes`, an agent with two lives, an operator, handlers and sweep interleaved, one failure | 476,396 |
| `bandwidth` | `AdmissionTypeOK`, `CounterIsSum`, `NeverOverCommitted`, `NoDominatedChoice`, `ImplementsReservations`, `RefusalMeansFull`, three callers on two nodes, one changed row | 322,517 |
| `rate_limiter` | `TypeOK`, `WindowBound`, `SleepsOnce`, `AcquireReturns` | 59,480 |
| `node_server` | `TypeOK`, `ReportedLoadFits`, `DrainSparesCounted`, `EveryoneIsServed`, `ShutdownCompletes` | 9,992 |
| `gateway` | `CeilingHolds`, `DrainWaits`, `EveryoneIsServed`, `ShutdownCompletes` | 1,066 |
| `session` | `SuccessMeansConnected`, `OneReply`, `CredentialsFirst`, `PayloadIntact`, `HopsAgree`, `EverySessionEnds` | 88,624 |
| `handshake` | `Aligned`, `DestinationKept`, `ParsersAgree`, `RightVerdict`, `HandshakeCompletes`, 72 kinds of client with and without authentication | 148,972 |

What they show: only a node that has been heard is ever offered to a gateway,
and a drain that no handler in flight overlaps is never undone; the sweep is
less than a second early and never late; without overlap the handlers follow
the documented life cycle, leave the class that the row calls for, and the
gauge shows the table except for nodes that the sweep took offline. An agent in
its first life is not taken out of service by a lost heartbeat or a restart of
the control plane, a dead one leaves for good unless it is started again.
Reservations never exceed the ceiling and behave as if atomic, also when lists
are stale; a node refuses only when its slots are taken, and neither way of
choosing passes over a better node. The bucket keeps its rate over every
window. Neither server admits more than its limit, and both exit after Ctrl-C.
A client is told "succeeded" only when its target is connected, gets one reply,
is let through only after its credentials, and its data arrives in order even
when it was sent ahead of the answers; two hops that both count a session count
the same. On the level of bytes, every frame is read to its last byte and no
further, however the stream was cut; the node gets the address that the client
sent; a client that follows the protocol gets through and others are turned
away, and nobody waits for a byte that is not going to be sent.

Runs that show a disagreement between the code and what its comments say (each
is a finding in `PROJECT.json`, with the quoted line):

| Run | Property that fails | What happens |
|---|---|---|
| `drain_race` | `DrainingStaysDraining` | a heartbeat handler that read the row before a drain overwrites the drain |
| `restarted_node` | `FirstBeatBeforeOffline` | a node that registers again is swept on its old heartbeat, and then stays offline |
| `node_drain` | `DrainWaits` | a connection between the shutdown check and its count is cut off |
| `relay_idle` | `TornDownOnlyWhenIdle` | the timeout counts from the start of the relay |

Other disagreements met while reading the code, which no run is about:

* `service.rs:164` says that the sweep leaves draining nodes alone; a node
  drained after the sweep's snapshot is marked offline.
* `service.rs:164-166` says that the agent takes a drained node offline; it has
  no call for that.
* `control-plane/src/metrics.rs:53` documents the health gauge; the sweep does
  not publish the states it writes.
* `node/src/server.rs:72` says that a failed registration is retried in the
  heartbeat loop; the loop only sends heartbeats, which the control plane
  ignores for an unknown node. This is why `LiveNodeServes` excepts a node
  without a row after a failure.
* The repository's `README.md:49` says that traffic is reported; nothing feeds
  the byte counters of `NodeStats` that heartbeats carry. `model.rs:80-83` calls
  the columns cumulative; a heartbeat overwrites them.
* `gateway/src/metrics.rs:32` describes the byte counters; bytes of a relay
  that fails or times out are not recorded (`RelayEnds` in `Session`).
* The agent's metrics describe its upstream counter as "target -> client"; it is
  fed with the first count of `copy_bidirectional`, gateway to target.
* `relay.rs:23` says that the relay completes when one side sends EOF; it
  completes when both have.
* `routing.rs:4-5` says that a tie goes to the first node; `max_by` keeps the
  last, while `select_with_bandwidth` takes the first.
* `handshake.rs:86` says that user name and password are preferred; the code
  looks for "no authentication" first. The services never allow both.
* `service.rs:145-146`: a node that registers again with another limit keeps
  the allocator of its first one, and shares that are rounded down let more
  connections in than the node has slots. The ceiling holds in both cases.
* The comment on the guard's `drop` speaks of a saturating subtraction;
  `fetch_sub` wraps. `CounterIsSum` shows that it never has to.
* `gateway/src/handler.rs:338` reads one byte too many of a node's reply with a
  domain address (`read_reply`). Nodes answer with IPv4 addresses only.

### Bounds

* Two handlers and a sweep are enough for every race above: each involves one
  stale read and one other writer. Two nodes appear where the sweep's order
  matters (`control_plane`), one node with two lives where the races matter
  (`cluster`). Nodes are not symmetric, since the sweep goes through them in
  order; callers in `bandwidth` are.
* `bandwidth`: six rows cover a share that does not divide the limit, a limit
  below the slots, a full node, ties, and a counter at the end of its type
  (`MaxU64` is 7).
* `handshake`: addresses of every type, names of 0, 1 and 255 bytes, text that
  is not UTF-8, unknown versions, methods, commands and types, empty and wrong
  passwords, each with a client that waits and one that does not.
* Clocks stop at `MaxTime`, beyond `OfflineTimeout` with room for a node to be
  heard, swept and heard again. The liveness properties of `Cluster` and
  `RateLimiter` are stated for moments that leave enough time before the clock
  stops.
* Three connections on two permits: one waits while others hold.
* Three data frames each way in `Session`, so that order and loss show.
* `MaxFaults`, `MaxInFlight`, `MaxLives`, `MaxUpdates`, `MaxBytes`, `MaxData` are bounds too; each is named
  where it is declared.

### Fairness

Weak fairness only, for what tokio provides: a ready task is polled, a timer
fires, a `select!` branch that stays ready is taken, a request to the control
plane returns or times out; in `Handshake`, written bytes arrive. Clients, targets and operators owe nothing, and no
failure has to happen. `EveryoneIsServed` has a premise besides, `SessionsEnd`:
every session ends, which `Session` shows. `ShutdownCompletes` has none.

Deadlock checking is off where the process really ends (`NodeServer`,
`Gateway`) or the modelled call returns for good (`Session`, `Handshake`,
`Relay`).

## Proofs

The type invariants of `ControlPlane`, `Gateway`, `Session` and `Handshake` are
proved for every value of the constants and not checked in runs of their own.

Proved with TLAPS, for all values of the constants that satisfy the named
assumptions of the modules:

* `ControlPlaneProofs`: `TypeCorrect`, `SelectableHeard`, `DrainIsFinal`,
  `SweepExact`. The type invariant needs `TaskInv` (a heartbeat handler past its
  first read is about a row that exists). `SelectableWasHeard` needs that a
  handler about to `set_state` has already applied its heartbeat. `DrainSticks`
  is strengthened to: a settled node is draining and nobody holds an earlier
  read that would overwrite it. `SweepIsExact` follows from the stored heartbeat
  being the exact one in whole seconds.
* `ControlPlaneProofs` also: `GaugeIsRight`, `RowsAreConsistent`,
  `LifecycleImplemented`. These three assume `MaxInFlight = 1`: with two handlers
  under way TLC finds counterexamples to each, races like that of `drain_race`.
  The invariant `Serial` says that at most one handler
  or the sweep is under way; that what it has read is still in the table
  (`Current`); that the sweep is left with live nodes only; and, while no
  handler was cut short, that a gauge differs from its row only if the handler
  under way has yet to publish it (`Published`). Each step of a handler then
  maps to a step of `NodeLifecycle` or leaves every state alone.
* `BandwidthProofs`, about `Admission` as a whole: `TypeCorrect`,
  `CounterExact`, `NoOverCommit`, `NoSlotWasted`, `Linearizable`. The sum of the
  reservations is the cardinality of a set of units, so that adding or removing
  a holder is a fact about disjoint finite sets. The refinement maps a
  successful exchange to `Grant` and a refusing load to `Refuse`. `NoSlotWasted`
  counts: guards of one share each that leave no room for another are at least
  as many as the slots, because the share is a quotient rounded down.
  `ChoiceIsSound` shows that a dominating row has the higher score: the score is
  a product of positive fractions, each factor is monotone in its respect
  (`LessLatency`, `Healthier` and its like), and cross-multiplied products of
  integers keep the order, strictly if one factor is strict (`TimesGrows`). The
  order by score and then by id is total and transitive, so a finite list that
  is not empty has a first row; `ListAssumption` (the nodes are finitely many)
  is used here only.
* `RateLimiterProofs`: `BucketInRange`, `RateIsKept`, `OneSleepIsEnough`. The
  inductive invariant says that what was taken plus what the bucket would hold
  now is within the bound; `SleepInv`, that a sleep ends no earlier than the
  missing tokens have accrued, as its length is a quotient rounded up.
* `NodeServerProofs` and `GatewayProofs`: types, `LoadFits`, `CeilingIsKept`, and
  both `DrainIsCareful`. The invariant relates each counter to the cardinality
  of a set of tasks: permits left and permits held add up, the agent's counter
  is the number of counted tasks, and the gateway's reference count is one more
  than the number of live tasks.
* `ControlPlaneProofs` on `Cluster`: `ClusterIsControlPlane` (every cluster step
  is a step of the control plane, so its theorems carry over), `ClusterTypes`,
  `NeverFalselyOffline`. Only these use the assumptions of `Cluster`. The invariant `Fresh` bounds the age of the last
  heartbeat of an agent in its first life by its silence and the heartbeats
  that failures may have cost it, with one more interval while a call is before
  its update. Together with the configuration assumption and the second that a
  stored time stamp loses, no snapshot of the sweep can hold it for stale.
* `SessionProofs`: `TypeCorrect`, `SuccessIsReal`, `CredentialsComeFirst`,
  `RepliesOnce`. Each action is first reduced to a digest: what it does to the
  places of the handlers and to the streams. The invariants are then proved on
  the digests. `Connected` says that a success on its way back, or a handler
  past it, has a connected target; `Asked` that a gateway past the credentials
  has received good ones; `NodeAnswered` and `ClientAnswered` say which frames
  can be on the streams back for each place of the handlers.
* `SessionProofs` also: `PayloadArrivesIntact` and `CountsAgree`, for any amount
  of data. `Carries(s, q, a, b, last)` describes a stream by numbers: `q` frames
  of a handshake, then the data frames `a + 1` to `b`, then ends. The invariant
  `PayloadInv` gives each of the six streams such a description, in which `a` is
  what its reader has counted and `b` what its writer has written: sent by the
  client, copied by the gateway, copied by the node, and back. Nothing
  is said of a stream whose reader has stopped. `Control` and the conjuncts about
  `Shut` say when a handshake is over and who may still write. Each action is first
  reduced to what it moves (`GatewayFlow`, `NodeFlow`, `EndsFlow`), and each
  conjunct is then kept by each of these. The number of data frames among the
  first `i` of a stream is the length of an interval (`DataBetween`), which
  replaces an induction over the sequence.
* `FramingProofs`: `RequestRoundTrip`, `RequestFraming`, for every address,
  name length and port. `Layout` gives each byte of a serialized request by its
  position; parser and reader are then evaluated on it. Addresses that no parser
  accepts are covered too: they are refused.
* `HandshakeProofs`: `TypeCorrect`, `FramingIsExact`, `DestinationIsKept`,
  `ParsersAlwaysAgree`, `VerdictIsRight`, for any set of clients whose lengths
  fit in a byte (`ClientsAssumption`), any reply codes and any settings of the
  gateway that are strings (`ExpectedAssumption`). The invariant `HandshakeInv`
  (defined in `FramingProofs`) names every frame that a stream can carry: `Expect(s, k)` is the `k`-th of
  them, at most three, so that no induction over the stream is needed, and
  `Framed` says that the bytes written are these. `Placed` and `Within` say that
  what a reader holds begins where the last accepted frame ends and stays inside
  the next one. `GatewayInv`, `NodeInv` and `ClientInv` tie the stage of each
  party to the frames it has read and written, and `RightVerdict` is inductive
  together with them. `Paces(p, stage, f)` is what the framing rests on: with
  any part of `f` at hand, the reader asks for bytes of `f` only and is done
  with its last. It is proved for each kind of frame (`GreetingPaces`,
  `CredentialPaces`, `RequestPaces`, `ShortPaces`, `ReplyPaces`), and `Reader`
  carries it over to the streams. One stream is exempt from `Within`: a client
  that sends credentials to a gateway that wants none has them read as a
  request, which is never accepted (`ExemptReader`). Each action is reduced to
  what it does to the streams (`Exchange`, `Listen`, `Idle`, `ReadEffect`) and
  then has one lemma that it keeps `HandshakeInv`.

Only model-checked: everything about liveness (fairness and `ENABLED` are beyond
the prover), and the four runs that show a disagreement. Every invariant and
every action property of a passing run is proved.

## Not modelled

* `adjust_active` and `accumulate_bytes`: single SQL statements that only tests
  call; no handler and no service reaches them.
* The node handler's user name and password branch: `NodeServer::run` passes
  `auth: None`, so it is never taken. The same code in the gateway is modelled.
* Floating point: scores are exact fractions, tokens whole numbers. A rate of
  zero in the rate limiter, which nothing builds.
* The text form of a destination that the node hands to the resolver.
* Which kind of `ProtocolError` a parser returns: every caller turns it into the
  same end of the session.
* The control plane's HTTP layer beyond its handlers: paths, JSON, and requests
  without a valid token, which `authorize` turns away before any statement.
* The metrics endpoint of the gateway (read-only), configuration, logging, the
  command line, and the payload pump of the load generator: input and output
  without state that a property could be about.
