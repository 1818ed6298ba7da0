# RivonClaw, specified

TLA+ models of the concurrent core of RivonClaw, the TLC configurations that
model-check them, and theorems about them that TLAPS proves for every value of
their constants. `PROJECT.json` lists components, runs, mutations, the map from
definitions to source lines, findings, hazards and theorems.

Contents: [1 The system](#1-the-system) ·
[2 Inventory](#2-inventory) ·
[3 Modules](#3-modules) ·
[4 Runs](#4-runs) ·
[5 Fairness](#5-fairness) ·
[6 Findings](#6-findings) ·
[7 Refuted statements](#7-refuted-statements) ·
[8 Proofs](#8-proofs) ·
[9 Abstractions, limits, not modelled](#9-abstractions-limits-not-modelled) ·
[10 Plan](#10-plan)

To run something, in this directory:

    tlc -workers 2 -config MCGatewayLauncher.cfg MCGatewayLauncher
    tlapm OpenClawConnectorProofs.tla

## 1 The system

RivonClaw is a desktop cockpit around the OpenClaw agent gateway. The Electron
main process (`apps/desktop`) spawns the gateway as a child process, talks to it
over a local WebSocket, serves a panel (`apps/panel`) and connects to a cloud
GraphQL backend. Inside the gateway run RivonClaw's plugins (`extensions/*`); one
of them talks to paired phones through a relay.

             cloud backend                         phone
              |  GraphQL, subscriptions              |  WebSocket
              v                                      v
      +---------------- desktop ----------------+  relay
      | AuthSession    BackendSubscriptionClient |    |
      |      \              |  dispatches        |    | RelayTransport
      |       \     EcommerceRelayBridge         |  +-|----- gateway ----------+
      |        \     | CsRunAdmission            |  | MobileSyncEngine (plugin) |
      |         OpenClawConnector ---------------+--+ agents, channels          |
      |          | GatewayRpcClient   WebSocket  |  +---------------------------+
      |          | GatewayLauncher    spawn,     |         ^
      |          +--------------------signals----+---------+
      +------------------------------------------+

Everything is JavaScript: a handler runs to its end or to its next `await`, and
what interleaves are these stretches, timers, process and socket events, and the
other processes. Every model has one action for each such stretch. What makes
the code hard is that nearly every component reads state, awaits, and goes on;
that the gateway, the relay, the phone, the backend and the process itself stop at
any point; and that each layer restarts the ones below it.

## 2 Inventory

| Component | State it keeps | Operations | Talks to | What is hard, and what makes it correct |
|---|---|---|---|---|
| **CS run admission** (`cs-bridge/cs-run-admission.ts`) | queue, slot counter, generation, paused, retired, leases, watchdog | acquire, release, pause, resume, reset, sweep | bridge; holders of leases | late releases of an earlier generation; lost terminal events; requests made on a retired controller. Limit, exact accounting, FIFO, no idle slot, nobody stranded |
| **Gateway launcher** (`packages/gateway/.../launcher.ts`) | state, child, stop completion, backoff timer, restart counter | start, stop, reload, exit handler, timers | the child process; connector, tray, OAuth flow, app start and quit | overlapping starts, stops and restarts while the child exits or backs off. One gateway, stops are complete, crashes repaired |
| **Gateway RPC client** (`rpc-client.ts`) | current socket, attempt, reconnect timer, pending requests | start, stop, connect, challenge, close, reconnect, request | gateway; connector's callbacks | an attempt that fails in two ways at once or in none; late closes of given-up sockets. One reconnect timeline |
| **OpenClaw connector** (`openclaw/openclaw-connector.ts`) | connect generation, client, sidecar probes, runtime status store | start, stop, restart, launcher events, wait for endpoint, client callbacks, probe | launcher, RPC client, services behind the callbacks | everything of the two below while a wait is pending. No client without a gateway, services and store agree with the connection |
| **Mobile relay transport** (`relay-transport.ts`) | socket, rejoin handshake, reconnect timer, pairings | connect, rejoin, join, leave, send | relay; sync engines | what is sent during the handshake is dropped |
| **Mobile sync engine** (`sync-engine.ts`, `mobile/session-reset.ts`) | outbox, history, sequence, ACK timers, processed ids, pending resets, state file | queue, ack, sync, flush, inbound message, reset, load, save | transport, phone, agent, desktop | lossy relay, crash around a save, reset that races its timeout. Nothing unacknowledged is lost, sequence is monotone, one dispatch, truthful reset answers |
| **Account session** (`auth/session.ts`) | tokens, user, kept owner, generation, refresh in flight, keychain | refresh, store, clear, validate, sign in/out, login as member, return | backend, keychain, listeners | state read before and used after an await; keychain and process failures around a rotation. A member is never saved, the owner can return, a restart finds the session |
| **Customer-service bridge lifecycle** (`gateway/connection.ts`, `ecommerce-relay-bridge.ts`, signal buffer and actuator) | bridge, lifecycle generation, starting and suspended flags, pending dispatches, pending runs, catch-ups | start, suspend, resume, stop, replay, sweep of pending runs | admission, subscriptions, gateway events, auth | attempts to start that overlap; dispatches re-queued from later microtasks of a stop. No signal lost by a gateway crash, none kept for another account, no lease without an owner |
| **Customer-service rounds** (`customer-service-session.ts`, `cs-round.ts`) | active round, rounds by run, pending buyer dispatch | dispatch, coalesce, abort, deliver, recover | bridge, admission, gateway, backend | a message supersedes a round in any phase. One voice, nothing of a superseded run is forwarded, only a newer message makes a dispatch give way |
| **Cloud subscription client** (`cloud/backend-subscription-client.ts`) | operations (idle, active, retry_wait, blocked, stopped), transport generation, auth recovery, stall watchdog | register, start, error, complete, recover, credentials changed, restart | backend, auth session | stale attempts, rotation under a live socket, several causes for one restart, dials that hang. Each operation runs on this generation and under this account, and comes back |
| **Mobile pairing and plugin** (`mobile-manager.ts`, `plugin.ts`) | rows, code, allowlist file, requests to the gateway, engines, stale pairings | pair, start sync, stop sync, unpair, remove, report status | engine, transport, backend, gateway | starts and stops of engines await between check and set; requests are sent once. Each active pairing is served and heard |
| Affiliate runs (`affiliate/*`) | sessions, work items, checkpoints | dispatch, deliver, escalate | admission, gateway, backend | as rounds |
| Channels (`channels/*`, `messaging/*`, `channel-weixin`) | account records | add, update, remove, write config | config writer, gateway | order of config writes |
| LLM providers and secrets (`providers/*`, `packages/secrets`) | keys, catalog, OAuth flows | add, activate, refresh, OAuth | keychain, config | an OAuth flow abandoned half way |
| Gateway configuration writer | none between calls | build, write | file | none of its own |
| Updater (`updater/auto-updater.ts`) | idle, downloading, verifying, ready, installing, error | check, download, install | electron-updater | user actions during a download |
| Proxy (`infra/proxy`, `proxy-router`) | sockets | forward | network | I/O only |
| Usage and telemetry | snapshots, batches | record, flush | storage, cloud | lossy by design |
| Local storage (`packages/storage`) | SQLite | one statement per call | managers | synchronous |
| Scene and pixel agents | projection of runs | project | panel | presentation |
| Speech, skills, settings, dependencies, doctor, tray | little | request handlers, installers | panel | sequential |
| Panel (`apps/panel`) | UI state, run tracker | render, send | desktop's HTTP server | run tracker: events out of order |
| Shared packages | none | helpers | all | none |
| Other gateway extensions | none between events | hooks | gateway | none |
| OpenClaw gateway and patches | vendored | | desktop, plugins | environment of the models |
| Build and release scripts | none | tooling | | none |

The rows in bold are modelled. The others are planned (section 10) or left out for
the reason `PROJECT.json` gives. The repository is large and mostly
presentation, generated code, translations and configuration; what is modelled is
the part in which state outlives an `await`.

## 3 Modules

    FifoSemaphore                   Supervisor
         ^ implemented by               ^ implemented by
    CsRunAdmission                GatewayLauncher    GatewayRpc      RelayTransport
         |                                \               /                |
      CsBridge                           OpenClawConnector            MobileSync

      CsRound     AuthSession     SubscriptionClient     MobilePairing

A line is EXTENDS, the arrow a refinement.

| Module | Models | Proofs |
|---|---|---|
| `FifoSemaphore` | abstract: what an admission controller promises | in `CsRunAdmissionProofs` |
| `CsRunAdmission` | class `CsAutomaticRunAdmission` | `CsRunAdmissionProofs` |
| `CsBridge` | the bridge and who starts and stops it, composing the above | `CsBridgeProofs` |
| `CsRound` | classes `CustomerServiceSession` and `CSRound`, one conversation | `CsRoundProofs` |
| `Supervisor` | abstract: what a process supervisor promises | in `OpenClawConnectorProofs` |
| `GatewayLauncher` | class `GatewayLauncher` and its callers | in `OpenClawConnectorProofs` |
| `GatewayRpc` | class `GatewayRpcClient` | in `OpenClawConnectorProofs` |
| `OpenClawConnector` | class `OpenClawConnector`, composing the two above | `OpenClawConnectorProofs` |
| `RelayTransport` | class `RelayTransport` for one pairing | in `MobileSyncProofs` |
| `MobileSync` | class `MobileSyncEngine` on top of it, with phone, relay, state file | `MobileSyncProofs` |
| `MobilePairing` | class `MobileManager` and the plugin's map of engines | `MobilePairingProofs` |
| `AuthSession` | class `AuthSessionManager`, with backend and keychain | `AuthSessionProofs` |
| `SubscriptionClient` | class `BackendSubscriptionClient` on graphql-ws | `SubscriptionClientProofs` |
| `MC...` | the instances for TLC | |

Definitions keep the names of the code (`state`, `stopRequested`, `outbox`,
`BeginStart` for the tail of `start()`). Beside a definition there may be one
whose comment begins with "Mutation:". It is that definition as a plausible bug
would have it; `PROJECT.json` pairs it with the property that must then fail.

### CsRunAdmission

`acquire()` is `AcquireRetired` or `AcquireQueued`; `release()` by an owner is
`Release`, by the watchdog `Sweep`; `Pause`, `Resume`, `Reset` are the methods.
Each action includes the `drain()` its method ends in: `Taken` says in closed form
how many entries the loop takes off the queue, which is why the module can be
proved about; the bridge's proofs use it too. `status` is the state of each caller's promise, `bornIn` the
generation captured by the lease's closure, `released` its `released` flag. Time is
`Age`: a lease becomes older than `leaseMaxAgeMs`.

`FifoSemaphore` is what the callers rely on: clients wait in a queue or hold a slot,
a gate may be closed, everybody may be sent away. It has no counter, generation,
lease, timer or promise. `ImplementsSemaphore` maps the queue, the unreleased
grants of this generation and the two flags to it. That it holds says at once that
service is in the order of arrival, that no slot stays free beside a waiter,
that nobody is admitted while paused and that a reset leaves nobody queued.

### CsBridge

EXTENDS the controller. A request is a call of `dispatchCsConversationSignalNow()`;
`handler` says where each one is (setup, gate, request to the agent, run), for which
signal, on which bridge, and which replay awaits it. `attempt` are the bodies of
`tryStartCsBridge()` and of `resumeAfterGatewayReconnect()` between their awaits;
`fresh` stands for "the lifecycle generation is still the one captured", which is
all the code ever compares. `RpcDrops` (a disconnect), `GatewayStops` (a crash or a stop of
the gateway, which ends its runs) and `AuthChange` are the events `connection.ts` reacts
to, with `RpcConnects` and `TryStart`. What a stop does in later microtasks, when a
rejected admission puts its signal back (`Cancelled`), is a step of its own, which
`Settled` puts before every new event.
`buffer` holds at most one signal of a conversation and `MaxPending` signals in all; when
it is full, `Queue` evicts an older entry, which one is left open. `claims` is what a replay has
taken and no worker has started, `catchUps` the 30 s windows of the bridge. `generation`
of the controller counts stopped bridges. `owed`, `discarded` and `completions` are
history. The watchdog of the controller is left out here: the bridge must return
its leases without it.

### CsRound

One conversation. A call is a dispatch, of a buyer message, of an operator or of
a recovery from a reply that was rejected; the round it creates and the run it
asks for bear its number. An answer may name instead the run of an earlier dispatch of
the same message, which has the same idempotency key (`Answers`), or no run
(`AnswersNoRun`). `round` has the fields of `CSRound` (active run, aborted
ids, tracked runs, the mark that it is to go); `owner` is `roundsByRunId`. A run is first
a placeholder and then what the gateway's answer names. `deliveries` are the
texts on their way to the buyer. `superseded`, `overtaken`, `bailed` and `shared` are
history; `shared` becomes true when a round loses its unfinished run, to another run that
takes the round over or to the disposal of a round that had the run before. It is what the
three properties except (section 7).

### GatewayLauncher

`pc` says where each caller of `start()`, `stop()` and of stop-then-start pairs is
suspended. `Settled` holds when no continuation is due; only then may timers,
process events and new calls happen, as microtasks run first. `Resume` is the
continuation of `start()` behind `await this.stopCompletion`; `Continue` the
`start()` that follows an awaited `stop()`, which runs after all of the former
because `stop()` is one promise further away. `SpawnProcess` has the four outcomes
of a spawn; two of them only with `SpawnFaults`. `live` is what the operating
system has, `proc` what the launcher holds. `Exit` is the exit handler with
`scheduleRestart()` and the resolution of the stop's completion.

`Supervisor` is what those callers rely on: processes that are alive, a stop that was
asked for, a restart that is due, and clients that wait. It has no child, launcher
state, completion, grace period, limit or microtask. `ImplementsSupervisor` maps `live`,
`stopRequested`, `restartTimer` and the suspended callers to it. That it holds says that
a stop returns only when nothing is alive, that nothing starts while a stop is
awaited, and that a restart follows only an end nobody asked for. That a start may take
back a stop somebody made meanwhile (section 7, `StopIsFinal`) is in it too: `Start` is
enabled whenever nobody waits.

### GatewayRpc and OpenClawConnector

A client's `phase` is that of `this.ws`; `connecting` says that an attempt is in
flight and `timer` that the next one is scheduled. `lingering` counts sockets the
client has given up whose `close` is still to come: the handler does not
compare the socket it is called for with the current one, and `LateClose` is
what this does. `Switch` is `stop()` of one client and `start()` of the next.

The connector EXTENDS both. Since events of the launcher are emitted
synchronously, an action such as `GatewayExit` is the launcher's `Exit` and what the
connector's listener does, in one step: `Invalidate` the pending waits, publish the
process state, `DisconnectRpc`. `chains` are the `ready` handlers inside
`waitForWsReady()`, of this `connectGeneration` or of an earlier one. `told` is
which of the connected and disconnected callbacks was fired last. Callers in
`Direct` use the launcher itself, as tray, OAuth flow and the app's start and quit do.

### RelayTransport and MobileSync

`CanSend` is `send()`'s condition, `Connected` is `isConnected()`: they differ during
the rejoin handshake. The engine's containers are sets ordered by `seqOf`, as Maps
keep insertion order; `processed` is a sequence, from which the oldest id goes when it
exceeds `ProcessedLimit`. `saveDue`, `writing`, `snapshot` and `disk` are the chain of
saves: a save copies, then writes in place. A write that fails or is met by a crash
leaves the file written, as it was, or cut (`Outcome`), and the next start takes a cut
file for none. The phone and the relay are external: the phone acknowledges what it
gets and sends again what is not acknowledged; the relay loses anything. A broadcast to the
desktop that throws refuses a reset and leaves its timer behind (`ResetRequest`). Four
variables are history: `owed` (queued, not received, not given up by a rule of the
code or by a crash), `saved` (a completed save held it, and no write was cut since),
`dispatched` and `dispatches`.

### MobilePairing

`row`, `code`, `answers` and `jobs` are the desktop: the SQLite rows, the code on
display, the polls that will report its use, the asynchronous changes of the
allowlist in their steps (read, truncate, write), each with the list it has read. `requests` are the RPC requests in
flight, in order; `Send` forgets a request when the client is not connected, as the
code does. `engine` are the engine objects, `syncEngines`, `stalePairings`, `transport`,
`tokens` and `handlers` the plugin's maps and those of its transport. `engine.start()` and
`engine.stop()` take time: what runs in between finds the maps as they are.
A row is keyed by the `pairingId`, which the phone keeps when it pairs again
(`repo-mobile-pairings.ts:46`). Three variables are history. `overlapped` has the phones whose
last start met an end of their own service or of the shared transport; the next start
that meets none takes a phone out. `crossed` has the phones of which two changes of the
allowlist were under way at once; the next change that is alone takes a phone out. `raced`
says whether two changes, of whatever phones, ever used the file at once.

### AuthSession

One action for each stretch between two awaits, hence a place for each await:
`refreshAt` for `doRefresh()` with `storeTokens()` and
`invalidateRejectedRefreshToken()`, `signIn`, `signOut`, and `switch` for
`loginAsMember()` and `returnToOwner()`. A token is a session and the number of its
rotations; the backend accepts the newest of a session that was not revoked.
`Outdate` is `sessionGeneration += 1`, after which `assertCurrentSession()` throws
away answers. `Due` says that a switch which awaited the refresh goes on first.
`abandoned` and `signedOut` are history: the first names the sessions that no
property promises anything about any more (left by a sign-in or sign-out, or
rotated in an answer or a write that was lost).

### SubscriptionClient

`transport` is one record: the socket, `connected` and `carries` (is it acknowledged,
and under which token), `opening` (the token of the dial), `restarted` (a restart was
asked of this generation), and the watchdog. `op` is the state of each operation; an
active one's attempt is of the present generation of the transport (`current`) or
not (`stale`), which is all that the numbers in the code are compared for. A handler
is one step; what it does to the transport and then to the operations is written
as operators on both (`Armed`, `Closed`, `Restarted` ...), so that the order of the calls
within a handler can be read off. The session part (`token`, `refresh`, `changed`,
`lifecycle`) is the part of `AuthSession` that the client can see, with its listeners
told in later steps. graphql-ws is external and modelled by what the client's code
assumes of it.

## 4 Runs

| Run | Bounds | States | Properties |
|---|---|---|---|
| `admission` | 4 requests, 2 slots, 2 resets | 35,594 | `SlotAccounting`, `NobodyStranded`, `ImplementsSemaphore`, `QueuedIsSettled` |
| `cs_bridge` | 3 calls, 1 slot, 1 stop of a bridge, 2 signals, buffer of 1, 2 overlapping attempts, 1 change of account | 736,959 (symmetry) | `SignalsAreKept`, `DiscardedStaysOut`, `ClosedBridgeAdmitsNobody`, `LeasesAreOwned`, `OneAttempt` |
| `cs_round` | 2 buyer messages, 4 calls | 3,024,015 (symmetry) | `OneVoice`, `OnlyNewerUnlessShared`, `SupersededStaysSilent` |
| `launcher` | 3 callers, 2 processes, 2 restarts, spawn faults | 3,481 | `NoOrphan`, `ImplementsSupervisor`, `StopCompletes`, `CrashIsRepaired` |
| `connector` | 3 callers (1 direct), 2 processes, 2 clients, 2 lingering sockets, 2 probes, spawn faults | 162,445 | `OneReconnectTimeline`, `NoClientWithoutGateway`, `ToldOfTheConnection`, `StoreKnowsTheConnection`, `GatewayIsReached` |
| `mobile_outbox` | 2 messages, outbox 1, history 1, failed and cut writes, 1 crash | 122,914 | `OwedIsKept`, `RetryIsArmed`, `SequenceIsMonotone`, `OutboxDrains` |
| `mobile_reset` | 2 inbound messages, 4 dispatches, 1 remembered id, 2 resets, 1 crash | 150,844 (symmetry) | `ResetAnswersAgree`, `DispatchedOncePerMemory` |
| `mobile_pairing` | 2 phones, 3 engines, 2 polls, 2 allowlist changes at once, 5 inputs | 1,306,676 (symmetry) | `ActiveIsServed`, `JoinedIsServed`, `HearsItsPhone`, `AllowlistSettles` |
| `auth_session` | 1 account, 1 member, 1 rotation of each | 424,196 | `MemberNeverSaved`, `OwnerCanReturn`, `RestartFindsTheSession`, `SwitchEnds` |
| `subscription` | 1 lasting operation, 1 that comes and goes, 2 identities, 2 tokens | 264,896 | `RunsOnThisGeneration`, `ServedAsTheCaller`, `StallIsWatched`, `SubscribesWithTheCurrentToken`, `SubscriptionsComeBack` |
| `cs_bridge_buffer` | 2 calls, 1 signal, 1 attempt | violated | `NothingSitsInTheBuffer` |
| `mobile_pairing_stale` | 1 phone | violated | `StaleHasUnpaired` |

Type invariants are proved (section 8) and were checked by TLC before they were;
the runs do not repeat them.

Every constant that the code does not have is a bound and says so where it is
declared: `MaxGeneration`, `MaxLingering`, `Probes`, `MaxCrashes`, `MaxDispatches`, `MaxRotations` and
the sizes of the sets; `MaxPending`, `OutboxLimit`, `HistoryLimit` and `ProcessedLimit` are
limits of the code, small so that they are reached. Why they suffice:

- *Admission.* Two slots and four requests give two holders and two waiters, the
  least in which order among waiters, a slot freed while others wait and two
  sweeps of one interval can go wrong; two resets give a lease two generations
  old. The proofs remove the bounds for the invariants.
- *Launcher.* Two pids are enough to see a second gateway beside a first, three
  callers a stop, a start that waits for it and a call between its resolution and
  its continuation. The restart limit 2 is reached with and without a healthy period.
- *Bridge.* Two signals, of a conversation with a window and of one without; three
  calls, as a signal may be replayed by a second bridge while the first one's
  call is still in its setup; two attempts, since the third of a chain of
  disconnects meets the same flags as the second. One change of account after and
  before a crash. A buffer of one is full as soon as both signals meet in it. (Earlier,
  2 calls, 3 conversations, 3 signals and a buffer of 2 were checked
  too: 7,814,467 states.) The proofs remove the bounds for every property of the run.
- *Rounds.* A message, a newer one and two more calls give supersession in each phase
  together with an operator's run or a recovery; two of the four may be for the same
  message, the later one answered with the run of the earlier. Five calls exceed the
  time of a run; the proofs cover any number.
- *Mobile.* Two messages with room for one: outbox and history overflow, a message is
  evicted while it is on its way, and a restart finds the file behind the memory.
  (Earlier, three messages with outbox 2 and history 1 were checked for the
  safety properties: 1,843,808 states; the proofs cover the rest.) One crash with a
  restart separates what was saved from what was not. The reset run leaves
  outbound messages out, since they share nothing with its properties, and has
  two requests so that the answer of one can meet the other. With one remembered id and
  two messages either is forgotten when the other arrives, so that eviction happens in
  every pattern, resets and the crash in between. (Earlier, 3 messages, 2 ids, 5
  dispatches and 1 reset: 89,676 states.)
- *Pairing.* An input is something a user, a phone or a fault does: asking for a code,
  redeeming it, unpairing, removing, losing the socket, a crash. Five are enough to
  pair, lose the connection, unpair and pair again with an interruption in between;
  three engines let one phone's old engine stop while its new one starts beside the
  other phone's; two changes of the allowlist are enough for the later write to undo the
  earlier. What the code does in answer to an input is unbounded. The proofs
  remove the bounds for the four properties of the run.
- *Connector.* Two clients, a replaced one and its successor; two lingering sockets
  of one client, as one close may hit an attempt the other does not; two probes
  for a quick reconnect. `MaxRestarts` is 0, the desktop's value.
- *Auth.* One rotation of either token distinguishes a copy made before from one
  made after it. A second account does not fit into TLC's reach (more than
  14 million states); the proofs of the three safety properties cover any number.
- *Subscription.* Two identities and two tokens: the second is the first account's
  rotated one or another account's. Three tokens (rotation, then a switch) have
  951,468 states and satisfy the safety properties; with liveness they exceed the
  time of a run. One operation outlives the bridge and one does not, the two
  lives there are. The proofs cover any number of operations and tokens.

What the properties say is in the comment above each of them. Some remarks:

- `SlotAccounting` is the pair "limit and exact counter": a release of an earlier
  generation, or a repeated one, would break either half on its own.
- `SignalsAreKept` lists every place a signal can be in (`OnItsWay`) and says that an
  owed one is in one of them. Given up are only those that a sign-out, a newer signal of the
  same conversation, a failed dispatch or the limit of the buffer took out; the last happens
  without a trace in the code (`cs-conversation-signal-buffer.ts:45`), and in the model only
  when the buffer is full. `DiscardedStaysOut` is its counterpart.
- `LeasesAreOwned` is what the watchdog would otherwise have to repair.
- `OneVoice` counts the runs whose text would be forwarded if it came now, at whatever
  stage they are, and `SupersededStaysSilent` looks at the moment a text sets out.
- `HearsItsPhone` relates the map of engines, the transport's tokens and its handlers. It
  covers two starts of one phone at once, and every start and stop of the other phones on
  the shared transport; it leaves out a phone whose own start met an end of service, until
  its next start.
- `AllowlistSettles` covers overlapping changes. A phone none of whose own changes
  overlapped stays a recipient while it has a row, even if a change of another phone undid
  its entry in the file. The rest, the file and the removal of recipients, holds as long
  as no two changes used the file at once, though they may be under way at once.
- `ServedAsTheCaller` and `SubscribesWithTheCurrentToken` compare the token a socket was
  opened with and the session's at that moment; the first has the window in which
  listeners are still to be told as its premise, since nothing can be known earlier.
- `QueuedIsSettled` assumes only that the controller is unpaused again and again, not
  that owners release: the watchdog alone must do it.
- `NoOrphan` relates the launcher's memory to the operating system.
- `OwedIsKept` is the reliable delivery the outbox exists for, with the losses the code
  accepts named: eviction, a reset, and a crash before a save held the message or after a
  write was cut. `OutboxDrains` is its liveness, once both connections stay good.
- `DispatchedOncePerMemory` bounds the dispatches of a message by the times the engine
  forgot all its ids, and by the other messages whose ids pushed out its own: one more for
  each `ProcessedLimit` of them. "Exactly once" is not what the code promises.
- `ToldOfTheConnection` and `StoreKnowsTheConnection` state that three copies of one
  fact, the socket, the store and the services behind the callbacks, agree.
- `OwnerCanReturn` and `RestartFindsTheSession` compare tokens in memory and in the
  keychain with what the backend accepts.

Deadlock is checked except in `cs_round` and the two runs of `MobilePairing`, which may
end: their inputs are bounded and nothing repeats by itself. Each passing run fires
every action of its module except that those of `MobileSync` are divided between the
outbox and the reset runs.

## 5 Fairness

Liveness rests only on what the runtime does by itself.

| Specification | Assumed | Why |
|---|---|---|
| `AdmissionFairSpec` | time passes (`Age`), the interval timer fires (`Sweep`) | `setInterval`. Nothing is assumed of owners or of the bridge |
| `GatewayLauncher!FairSpec` | microtasks, the grace and backoff timers, the end of a process that was sent SIGKILL | event loop and operating system. No caller has to call, no gateway has to exit |
| `MobileSync!FairSpec` | timers, a socket that can connect does, `rejoin_ack` and `peer_status` arrive, restart after a crash; strongly: a frame sent again and again is received once, and so is its acknowledgement | the relay may lose each frame, not every one |
| `ConnectorFairSpec` | microtasks, timers, closes that are due, the probe; strongly: the challenge and the answer to `connect` | a gateway that accepts again and again and never answers would satisfy no promise |
| `AuthSession!FairSpec` | a refresh or a switch that is pending goes on | requests are answered or time out, keychain and listeners return |
| `SubscriptionClient!FairSpec` | answers and listeners arrive, timers fire, a socket that is being closed ends, a dial that is due happens; strongly: not every dial hangs and not every connection fails before it is acknowledged | requests are answered or time out; a backend that never acknowledges would satisfy no promise |

`OutboxDrains`, `GatewayIsReached` and `SubscriptionsComeBack` have as premise that the environment is good
from some time on (connections or credentials); it is an assumption of the formula, not of the specification,
and `[]<>` or `<>[]` of reachable states.

## 6 Findings

Each violating run states a sentence of the repository and shows a trace of the
code against it.

1. **A dispatch stays in the buffer** (`NothingSitsInTheBuffer`, `connection.ts:120`). The
   gateway crashes while a dispatch is in its setup; the next bridge replays the
   buffer, finds it empty and ends its replay; the setup ends and the dispatch
   queues itself again, for the next restart of the gateway.
2. **A phone that pairs again stays stale** (`StaleHasUnpaired`, `plugin.ts:354`). Starting its
   new engine does not take it out of `stalePairings`, which overrides the engine in
   the next status report, and the desktop marks the row stale.

## 7 Refuted statements

The number of runs is limited, so the following have none; each was refuted by TLC,
or follows from an action one can read, and those with a definition can be
repeated by naming it in the module's `.cfg`. Hazards of `PROJECT.json` that no property
covers point here.

| Statement | Where | What happens |
|---|---|---|
| `StopIsFinal` | `launcher.ts:184` | stop, start (waits), stop; the child exits; the waiting start clears `stopRequested` and spawns, though the last call was a stop |
| `ProcessStateIsTrue` | `openclaw-connector.ts:219` | two restarts overlap; the launcher ignores the second one's start, which has overwritten the store with "starting" |
| `SignedOutStaysOut` | `auth/session.ts:196` | `returnToOwner()` restores the owner it read before it awaited a refresh, after a sign-out |
| a message that a save once held survives every crash | `sync-engine.ts:202` | the state file is written in place; a crash in a later write may leave it cut, and an unreadable file counts as none |
| `ReachablePhoneIsFlushed` | `relay-transport.ts:272` | the peer status of a rejoin is handled before `rejoinPending` is cleared, so the flush sends nothing and its window swallows the next one; the ACK timers make up for it after 30 s, which is why `OutboxDrains` holds |
| `OnlyNewer`, and `OneVoice` and `SupersededStaysSilent` without `~shared` (the last one with 5 calls) | `customer-service-session.ts:1578` | an operator's run or a recovery replaces the unfinished run of a round; the round remembers one active run, so a dispatch gives way to no newer message, and a run whose marker went with the round speaks. In the same way, when a dispatch is answered with the run of an earlier one, the end of the earlier round takes that run's entry in `roundsByRunId` from the later round (`disposeRound()`) |
| `HearsItsPhone` for every phone | `plugin.ts:353` | a stop that waits its 200 ms unregisters the handler and the token of the engine started meanwhile, or closes the transport it is starting on |
| a phone has one running engine at most | `plugin.ts:353` | two polls answered together start two engines; the map forgets the first, which nothing stops |
| `AllowlistSettles` without `~raced`, or for every phone | `mobile-manager.ts:478` | two changes read the file, and the later write undoes the earlier; a change that clears the list removes the recipients it has read, so one whose entry was lost stays; two changes of one phone may end in the other order |
| a removed phone has no engine | `mobile-manager.ts:478`, `plugin.ts:353` | the stop is sent once, and lost without a connection; or it comes while the engine's start is awaited, finds nothing to stop, and the engine is registered |
| `SuspendedByItsOwnRefresh` | `backend-subscription-client.ts:2070` | a recovery's refresh is in flight, the user signs out and in as somebody else, the refresh is rejected as outdated and the catch branch suspends the new session's subscriptions |

Seen while modelling, in the traces or the actions, and without a property:

- A dispatch of a stopped bridge that re-queues itself late replaces a newer one of
  its conversation in the buffer (`cs-conversation-signal-buffer.ts`).
- `onAuthChange()` with the same account and shops stops the bridge, and nothing
  starts it again before the next gateway event (`connection.ts:34`).
- Two polls of one code that are answered together complete a pairing twice, and
  start two engines on one state file; the late answer for an earlier code closes
  the code on display. A `stop()` that waits its 200 ms unregisters the handler of
  the engine started meanwhile; a stop of the last registered engine closes the
  transport another one is starting on.
- After `returnToOwner()` has ended, a refresh of the abandoned member may put the
  owner's older tokens back.
- After `disconnect()` a pending recovery or a credentials event creates the
  subscription client again. An operation of the bridge that is registered while a
  dial hangs after the watchdog has fired is unwatched: `StallIsWatched` speaks of the
  lasting ones.
- A spawn that ends in neither a process nor an exception (`launcher.ts:480`); an inbound
  message acknowledged before the agent gets it (`sync-engine.ts:557`); the peer status in
  `joinPairing()`'s answer, which the plugin drops (`plugin.ts:323`); replies queued between
  a reset and its result (`sync-engine.ts:426`); two sidecar probes at once
  (`openclaw-connector.ts:399`); a socket the client forgot, open and unreferenced
  (`rpc-client.ts:289`); tokens compared, awaited and then adopted (`auth/session.ts:421`).

## 8 Proofs

All proofs are checked by TLAPS with Z3, Zenon and LS4, to the last leaf. They
assume nothing but the named assumptions on the constants (`RequestsAssumption` ...),
which TLC evaluates in each run.

**Admission** (any finite set of requests, any limit, any number of resets).
`SlotAccounting` is not inductive: to keep the counter exact, the loop must admit as
many *distinct* leases as it counts. `AdmissionInv` therefore adds `Consistent`: every
queued entry is of this generation, is waiting, and occurs once; the leases are
exactly the unreleased grants of this generation; and the counter is their number.
`TakenFromFreshQueue` evaluates the loop for such a queue, `DrainKeepsConsistent`
shows that it keeps all this and leaves no idle slot, from wherever it is called;
the actions are then short. Theorems: `AdmissionTypeCorrect`, `AdmissionLimit`,
`AdmissionNoIdleSlot`, `AdmissionNobodyStranded`, `AdmissionWatchdogCovers`.
`AdmissionImplementsSemaphore` is a step simulation: for a `Consistent` controller
the drain is the abstract `Serve`, an acquire a `Join`, a release or a sweep that frees
something a `Leave`, and everything else a stutter. `SemaphoreKeepsPromise` draws the
consequences from the abstract specification alone (the limit, nobody in two places,
nobody beside a free slot, nobody left by a reset), so that they are seen to need no
counter or lease; whatever implements it, the bridge included, has them.

**Bridge** (any calls, slots, conversations, signals, attempts, changes of account).
`BridgeAdmits`: each step of the bridge is a step of the controller or leaves it alone,
so `AdmissionInv` and the refinement are inherited. The rest is one invariant in
parts: `LifecycleInv` (one attempt is fresh exactly while `starting`, and what an
attempt may still do), `KeptInv` (where an owed signal can be, which of the
places survive a stop, and that a handler of a stopped bridge has yet to run),
`LeaseInv` (where a call can be while it holds a lease) and `DiscardedInv` (a signal is in one
place at a time, and one that was given up only where a bridge that `auth` stopped
will drop it). An eviction takes a signal out of the buffer and out of `owed` at once; that it
happens only beyond the limit, and leaves the entries just queued if they fit, is in
`Remaining`, which the types need (`QueueDoes`). Theorems: `BridgeOneAttempt`,
`BridgeGateClosed`, `BridgeKeepsSignals`, `BridgeDiscardedStaysOut`, `BridgeLeasesAreOwned`,
`BridgeCompletesOnce`, `BridgeImplementsSemaphore`, `BridgeTypeCorrect`.

**Rounds** (any messages and calls). The properties have the premise `~shared`: nothing is
claimed of a session one of whose rounds lost its unfinished run, where section 7 has
counterexamples. A round bears the number of a call that was made (`FreshInv`, with `Named`).
As long as `~shared` holds, each call on its way and each unfinished run has a round to
itself (`HomeInv`), also when a dispatch is answered with the run of an earlier one, which
then moves to the later round, or with none; and a call that a buyer message came after
carries the mark of an aborted run, as a placeholder before the gateway's answer and as the
run's id after it (`MarkedInv`), unless a later call is answered with that run. With the
types this is inductive (`RoundInv`); the lemmas `ReplyKeeps`, `OperatorReplyKeeps` and
`AnswersNoRunKeeps` have the three kinds of answer. `RoundOneVoice`, `RoundOnlyNewer` and
`RoundSupersededSilent` follow.

**Launcher** (any callers, processes, restart limit, with spawn faults).
`LauncherInv` adds what ties the flags together: a stop is in progress exactly in
state `stopping` and then has a child; who is resumed finds the stop over (this is
where the order of microtasks is needed); the timer stands for a crashed child
nobody stopped; a stopped launcher holds nothing; exceeding the limit stops.
Theorems: `LauncherTypeCorrect`, `LauncherNoOrphan`, `LauncherStoppedForGood`,
`LauncherIgnoredStartIsServed`.
`LauncherImplementsSupervisor` is a step simulation under `LauncherInv` and one fact
more, that a stop is in progress exactly while somebody is suspended in it
(`AwaitedStop`): every `stop()` is the abstract `Stop`, whether it waits or not; a
`start()` is `Wait`, `Start` or ignored; the exit handler is `End`, the backoff timer
`Restart`. `SupervisorKeepsPromise` draws the consequences from the abstract
specification alone: never two processes, nothing alive once nobody waits for a stop, and
a restart due only for what ended without one.

**Connector** (any clients, probes, late closes). `ConnectorImplementsLauncher`: every
step of the connector is a step of the launcher or leaves it alone, so the
launcher's theorems hold of the composition, `ConnectorImplementsSupervisor` and
`ConnectorNoOrphan` among them. `ConnectorOneReconnectTimeline` is
proved from an invariant about each client by the steps of `GatewayRpc`
(`RpcStepKeepsInv`); the connector's steps are shown to be such steps.
`ConnectorNoClientWithoutGateway` needs both, and that only an exit frees the child.
For `ConnectorToldOfTheConnection` and `ConnectorStoreKnowsTheConnection` the invariant
(`AgreeInv`) says in addition that while a client is in use, or about to be, a stopped one has no
close to come, so that whoever is heard is the client in use.

**Mobile synchronisation** (any messages, limits, crashes). `SyncInv` consists of
named parts proved one by one: shapes; limits of the containers in memory, on the
way to the file and in it; that a message not yet queued is nowhere; order (numbers
differ and the newest number of the outbox is in the history, which is what makes
the restored `nextSeq` right although only the history is looked at); the answers
to resets. `SyncOwedIsKept` needs `SavedIsKept`: what a save held, with no write cut since,
stays in every later save while it is owed, and after a crash only such messages are
owed. Nothing is assumed of the writes. `SyncDispatchedOncePerMemory` counts: the id of a
message that is not remembered was paid for, by a loss of all ids (a crash or a granted
reset) or by `ProcessedLimit` dispatches of other messages, as often as the message was
dispatched (`UnknownBounded`); a remembered one has one dispatch to spare and has paid one
for each place it moved to the front (`KnownBounded`). Other theorems: `SyncTypeCorrect`, `SyncRetryIsArmed`,
`SyncSequenceIsMonotone`, `SyncResetAnswersAgree`.

**Account session** (any accounts, members, rotations). `SessionMemberNeverSaved`:
whether tokens are saved is decided by `ownerSession` at that moment, so the
invariant says whose tokens are in use while it is empty, whose are kept to
return to, and what a refresh in flight may hold (`OwnerInUse`, `OwnerKept`,
`JoinFromOwner`, `RefreshOfOwner`). `SessionOwnerCanReturn` and `SessionRestartFinds` need in
addition how far each copy of a token may be behind the backend: `TokensInv` for the
copies in memory and in flight, `SavedInv` for the keychain between its two writes.

**Subscription client** (any operations, identities, tokens). The handlers are
compositions of operators on the transport and the operations, so the lemmas say
what each operator returns for a `Sound` transport (acknowledged only if open or
closing, a requested restart means closing), and the actions put them together.
`IInv` has three parts besides `RunsOnThisGeneration`: the session's (`SessionInv`); the
client's (`ClientInv`: sound, nothing engaged unless active, a kept socket is of the
account in use, watched); and what holds once the listeners were told (`ToldInv`).
Theorems: `ClientTypeCorrect`, `ClientRunsOnThisGeneration`, `ClientServesTheCaller`,
`ClientStallIsWatched`, `ClientSubscribesWell`.

**Mobile pairing** (any finite sets of phones and engines, any number of polls, of
allowlist changes at once and of inputs). `PairingInv` has four parts. `TypeOK`: it needs
the next part, since a stop writes to the engine that the plugin's map names.
`PluginInv`: both maps name only engines that run for that phone (`MapsInv`), and for a
phone outside `overlapped`, whatever the others do, each engine that starts is on a transport
that has the phone's token, with none of the phone's still to leave it, and while one has
still to leave the phone has no registered engine (`AloneInv`); from this `HearsItsPhone`
follows, and is a conjunct of it. `ServedInv`: for
an active row the requests under way, which are served in order, either end with one
that starts its engine (`LastStarts`), or none of them ends its service (`NoneEnds`) and
it has an engine, has one starting, or the plugin knows that it unpaired (`Engaged`);
when nothing is under way that is `ActiveIsServed`. `AllowlistInv`: a phone outside `crossed`
has at most one change under way (`Settles`), and `WillSettle` says what that change will make
of the recipients, and of the file from the step it has reached; with none under way
`HasSettled` is the property. While `raced` is false one change at a time uses the file, which is
empty before it is filled (`FileInv`), and a list read by a change of another phone has this
phone as its row says (`Listed`), which is why overlapping changes of different phones keep
each other's entries; a change that clears the list is of every phone (`ClearsAll`). Theorems:
`PairingInvariant`, `PairingTypeCorrect`, `PairingActiveIsServed`, `PairingJoinedIsServed`,
`PairingHearsItsPhone`, `PairingAllowlistSettles`. The premises about `overlapped`, `crossed`
and `raced` are those of the properties; what happens without them is in section 7.

**Only model-checked.** All liveness (`QueuedIsSettled`, `StopCompletes`, `CrashIsRepaired`,
`GatewayIsReached`, `OutboxDrains`, `SwitchEnds`, `SubscriptionsComeBack`), as fairness and
ENABLED are beyond the prover. Every other property that a passing run checks is proved.

## 9 Abstractions, limits, not modelled

- *Time* is the order of timer events only; delays, backoff lengths and the 503
  fast retry are left out. A deadline may fire at any point after it is set.
- *Launcher.* Environment, preload script, compile cache, performance capture and
  log lines change no supervisor state. `restartCount` matters only against the limit.
  `reload()` on a running POSIX gateway is a signal the gateway handles. A stop of a
  child that never lived (`SpawnFaults`) may wait for ever: `StopCompletes` is stated
  for a live gateway. An ignored `start()` is a stutter of `Supervisor`: no property of a run says
  that a start which ought not to be ignored has an effect, except for restarts
  (`CrashIsRepaired`); `LauncherIgnoredStartIsServed` is proved of it.
- *RPC and connector.* Requests other than `connect` and the sidecar probe are left
  out; so is `reconnect_rpc` of `applyConfigMutation()`, which nothing uses. A socket
  that a late close made the client forget while it was open is not tracked
  further. By the time a gateway listens, the sockets to an earlier gateway, whose
  process has ended, have closed. Output of a gateway read after its exit event is
  not considered.
- *Bridge.* Which entry of the full buffer is the oldest is left open among those older than
  the ones just queued. The affiliate half, runs started by hand, the synchronisation of caches and
  the bodies of requests are left out. The setup of a dispatch is one await, whether
  it reads a cached session or asks the backend. A sweep of the pending runs, a resume
  and a terminal event are told apart only by who completes the run.
- *Rounds.* The cursor store, the acknowledgement of runs that say nothing, the count of
  undelivered replies, the cache of backend sessions, prompts and escalation records
  are left out: none decides whose text is forwarded. The gateway answers in the order of
  the requests. Only dispatches of one buyer message have a key in common: a second
  recovery of one run (`cs-delivery-rewrite:`) and runs started by hand under a buyer
  message's key are left out. A run that is named again may still speak in the model though
  the gateway had ended it, which admits more than the code. `CsBridge` gives each of its
  calls a run of its own and leaves out the release of a duplicate.
- *Pairing.* The one-time re-keying of old records, the skipped legacy relay and the
  reading of media are left out. What passes between engine and phone is `MobileSync`.
- *Subscription.* Left out: `disconnect()` when the app quits, the update notice (the one
  operation that needs no account), delays, the texts that classify an error, the hook
  after a reconnect, an authentication error without a close, and tokens adopted from
  the keychain without an event.
- *Mobile.* Pending saves are one bit, as each save writes all there is by then. A broadcast
  that throws is taken to have reached nobody. Reactions, attachments, media files, `stop()` and the
  unpair message are left out. The agent's replies are queued at any later time.
- *Auth.* The keychain serves its calls in the order they are made. Each account
  signs in once and one validation runs at a time. What awaited listeners
  themselves do is not modelled; one of them restarts the gateway, so a listener that
  called back into the session would wait for itself. Tokens that another process
  saved appear only as the ones this process saved earlier. Registration and Google
  sign-in end in the same `storeTokens()` as the password's and are not told apart.
- *Not modelled.* Affiliate runs repeat the structure of the rounds with other
  payloads. The updater and the panel's run tracker are small and would be next.
  Channels, providers and the configuration writer transform data around files;
  storage is one synchronous statement per call; proxy, usage, telemetry, scene,
  speech, skills and the rest of the panel forward or present. The vendored gateway,
  generated code and build scripts have nothing to state. All of these take part
  only as environment: who calls, and what may come back.

## 10 Plan

1. `AffiliateRun`, sharing the admission with `CsBridge`: the limit holds across both.
2. The updater and the panel's run tracker.
3. Abstract specifications to refine next: a single session (who is signed in) for
   `AuthSession`, which must admit what section 7 says of `returnToOwner()`, composed with
   `SubscriptionClient` by its credentials event; one voice per conversation for
   `CsRound`.
4. Rounds with an exact account of shared rounds, once the code remembers more than
   one active run.

Runs are few on purpose, each with several properties; new ones are to replace or
be merged with old.
