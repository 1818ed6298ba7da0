------------------------------ MODULE CsBridge ------------------------------
(***************************************************************************)
(* The life of the customer-service bridge: apps/desktop/src/              *)
(* gateway/connection.ts (start, suspend, resume and stop of the bridge),  *)
(* ecommerce-relay/ecommerce-relay-bridge.ts (its dispatches and pending   *)
(* runs), cs-bridge/cs-conversation-signal-buffer.ts (the dispatches kept  *)
(* for the next bridge) and the actuator that feeds them.                  *)
(*                                                                         *)
(* Composes CsRunAdmission.  Its requests are the calls of                 *)
(* dispatchCsConversationSignalNow(), each of which acquires at most once. *)
(* Every bridge has a controller of its own.  A stop resets it, and        *)
(* nothing of a stopped bridge's controller has an effect on the next one, *)
(* so the controller modelled is that of the bridge installed last:        *)
(* `generation` counts the stopped bridges and names the next one.         *)
(***************************************************************************)
EXTENDS CsRunAdmission

CONSTANTS
  Conversations,
  Airflow,      \* those whose signals are coalesced for 30 s by the bridge
  MaxPending,   \* MAX_PENDING_DISPATCHES, 1000
  MaxSignals,   \* bound on the signals, which are numbered as they arrive
  MaxAttempts,  \* bound on the attempts of tryStartCsBridge() under way
  MaxLogins     \* bound on the changes of the signed-in account

ASSUME AirflowAssumption == Airflow \subseteq Conversations
ASSUME PendingAssumption == MaxPending \in Nat \ {0}
ASSUME BridgeBoundsAssumption ==
  MaxSignals \in Nat /\ MaxAttempts \in Nat /\ MaxLogins \in Nat

VARIABLES
  rpc,         \* is the gateway's RPC connected?
  user,        \* getCachedUser() # null
  authDue,     \* the account changed and onAuthChange() is still to come
  login,       \* how often onAuthChange() stopped the bridge
  coordinator, \* a startup coordinator may yet call tryStartCsBridge()
  installed,   \* _csBridge # null
  suspended,   \* _csBridgeSuspended
  starting,    \* _csBridgeStarting
  closed,      \* the bridge's `closed`
  attempt,     \* the bodies of tryStartCsBridge() under way
  buffer,      \* pendingDispatches: at most one signal of a conversation
  catchUps,    \* pendingAirflowBuyerCatchUps, of every bridge
  claims,      \* the entries of a replay that no worker has started
  handler,     \* the calls of dispatchCsConversationSignalNow()
  running,     \* the runs the gateway executes
  probes,      \* the calls of reconcilePendingRun() of this generation
  stoppedFor,  \* the reason each earlier bridge was stopped for
  arrived,     \* the number of signals so far
  owed,        \* history: signals taken, not dispatched, not given up
  discarded,   \* history: signals given up by a sign-out
  completions  \* history: how often each run was completed

lifecycleVars == <<installed, suspended, starting, closed, attempt>>
workVars == <<buffer, catchUps, claims, handler>>
runVars == <<running, probes, completions>>
worldVars == <<rpc, user, authDue, login, coordinator>>
historyVars == <<arrived, owed, discarded>>
bridgeVars == <<worldVars, lifecycleVars, workVars, runVars, stoppedFor,
                historyVars, admissionVars>>

Attempts == 1..MaxAttempts
Signals == [conv : Conversations, seq : 1..MaxSignals, login : 0..MaxLogins]

\* handler[h].by is the replay that awaits the handler, 0 if none does.
Places == {"idle", "setup", "gate", "agent", "accepted", "failed", "run", "done"}
NotCalled(place) == [at |-> place, sig |-> <<>>, on |-> 0, by |-> 0]
Idle == [pc |-> "idle", fresh |-> FALSE, on |-> 0]

\* The runs in the pendingRuns of the installed bridge.
Pending == {h \in Requests : /\ installed
                             /\ handler[h].at = "run"
                             /\ handler[h].on = generation}

BridgeInit ==
  /\ AdmissionInit
  /\ rpc = FALSE /\ user = TRUE /\ authDue = FALSE /\ login = 0
  /\ coordinator = FALSE
  /\ installed = FALSE /\ suspended = FALSE /\ starting = FALSE /\ closed = FALSE
  /\ attempt = [a \in Attempts |-> Idle]
  /\ buffer = {} /\ catchUps = {} /\ claims = {}
  /\ handler = [h \in Requests |-> NotCalled("idle")]
  /\ running = {} /\ probes = {}
  /\ stoppedFor = [g \in 0..MaxGeneration |-> "none"]
  /\ arrived = 0
  /\ owed = {} /\ discarded = {}
  /\ completions = [h \in Requests |-> 0]
-----------------------------------------------------------------------------
(***************************************************************************)
(* Helpers of several handlers.                                            *)
(***************************************************************************)

\* Microtasks first: no call waits to go on behind a settled promise.
Settled ==
  \A h \in Requests :
    /\ handler[h].at # "failed"
    /\ handler[h].at = "gate" => status[h] = "queued"

\* queueCsDispatchUntilBridgeReady() for each signal of ss: it takes out what
\* the buffer b holds for the same conversation, and then the oldest entries
\* above the limit.  Those of b go before those of ss; which of b is the
\* oldest, by the order they were queued in, is left open.
Replaced(b, ss) == {t \in b : \E s \in ss : s.conv = t.conv}
Queued(b, ss) == (b \ Replaced(b, ss)) \cup ss
Remaining(b, ss) ==
  LET all == Queued(b, ss)
  IN  IF Cardinality(all) <= MaxPending
      THEN {all}
      ELSE {k \in SUBSET all : Cardinality(k) = MaxPending /\ (ss \subseteq k \/ k \subseteq ss)}

\* The signals of `still` are owed, but for those that leave the buffer.
Queue(b, ss, still) ==
  \E k \in Remaining(b, ss) :
    /\ buffer' = k
    /\ owed' = still \ ((b \cup ss) \ k)

\* enqueueAirflowPendingBuyerCatchUp() on bridge b: the newest signal stays.
SameWindow(s, b) == {e \in catchUps : e.sig.conv = s.conv /\ e.on = b}
Newest(ss) == CHOOSE s \in ss : \A t \in ss : t.seq <= s.seq
Coalesced(s, b) == {s} \cup {e.sig : e \in SameWindow(s, b)}

OpenWindow(s, b, still) ==
  /\ catchUps' = (catchUps \ SameWindow(s, b))
                   \cup {[sig |-> Newest(Coalesced(s, b)), on |-> b]}
  /\ owed' = still \ (Coalesced(s, b) \ {Newest(Coalesced(s, b))})
  /\ UNCHANGED handler

\* dispatchCsConversationSignalNow() begins; replay `by` awaits it, or none.
Dispatch(s, b, by) ==
  \E h \in Requests :
    /\ handler[h].at = "idle"
    /\ handler' = [handler EXCEPT ![h] =
                     [at |-> "setup", sig |-> s, on |-> b, by |-> by]]

\* handleCsConversationSignal() of bridge b, the signals of `still` owed.
HandleSignal(s, b, by, still) ==
  IF s.conv \in Airflow
  THEN OpenWindow(s, b, still)
  ELSE Dispatch(s, b, by) /\ owed' = still /\ UNCHANGED catchUps

\* Requests in flight are rejected when the socket goes.
Rejected(hs) ==
  [h \in Requests |->
     IF hs[h].at \in {"agent", "accepted"} THEN [hs[h] EXCEPT !.at = "failed"]
     ELSE hs[h]]

\* Mutation: a change of generation is not noticed behind an await.
Unnoticed(body) == body

\* An attempt whose generation is over returns at its next check, except that
\* a replay goes on.
Overtaken(body) ==
  [pc |-> IF body.pc \in {"tooling", "resuming"} THEN "overtaken" ELSE body.pc,
   fresh |-> FALSE,
   on |-> IF body.pc = "flushing" THEN body.on ELSE 0]

\* _csBridgeLifecycleGeneration += 1; the bridge's gatewayGeneration follows,
\* and the answers to probes of an earlier one are thrown away.
NewGeneration ==
  /\ starting' = FALSE
  /\ attempt' = [a \in Attempts |-> Overtaken(attempt[a])]
  /\ probes' = {}

\* The open windows of the installed bridge.
Windows == {e \in catchUps : installed /\ e.on = generation}

\* Mutation: the windows of a stopped bridge are cleared, not handed over.
HandsOverNothing(reason) == {}

\* What a bridge that is stopped hands to the buffer.
HandsOver(reason) ==
  IF reason = "stopped" THEN {e.sig : e \in Windows} ELSE {}

\* stopCsBridge(reason), which leaves b of the buffer, hs of the handlers and
\* the signals of `still` owed.
StopCsBridge(reason, b, hs, still) ==
  /\ NewGeneration
  /\ installed' = FALSE /\ suspended' = FALSE /\ closed' = FALSE
  /\ Queue(b, HandsOver(reason), still)
  /\ catchUps' = catchUps \ Windows
  /\ handler' = hs
  /\ IF installed
     THEN /\ Reset
          /\ stoppedFor' = [stoppedFor EXCEPT ![generation] = reason]
     ELSE UNCHANGED <<admissionVars, stoppedFor>>
-----------------------------------------------------------------------------
(***************************************************************************)
(* The gateway, the account and the signals.                               *)
(***************************************************************************)

\* onRpcConnected: the startup coordinator will call tryStartCsBridge().
RpcConnects ==
  /\ Settled /\ ~rpc
  /\ rpc' = TRUE /\ coordinator' = TRUE
  /\ UNCHANGED <<user, authDue, login, lifecycleVars, workVars, runVars,
                 stoppedFor, historyVars, admissionVars>>

\* onRpcDisconnected: suspendCsBridge().
RpcDrops ==
  /\ Settled /\ rpc
  /\ rpc' = FALSE /\ coordinator' = FALSE
  /\ NewGeneration
  /\ handler' = Rejected(handler)
  /\ IF installed
     THEN /\ suspended' = TRUE /\ closed' = TRUE
          /\ Pause \/ (paused /\ UNCHANGED admissionVars)
     ELSE UNCHANGED <<suspended, closed, admissionVars>>
  /\ UNCHANGED <<user, authDue, login, installed, buffer, catchUps,
                 claims, running, completions, stoppedFor, historyVars>>

\* The gateway's process ends with its runs: the launcher's "stopped".
GatewayStops ==
  /\ Settled /\ rpc
  /\ rpc' = FALSE /\ coordinator' = FALSE
  /\ running' = {}
  /\ StopCsBridge("stopped", buffer, Rejected(handler), owed)
  /\ UNCHANGED <<user, authDue, login, claims, completions, arrived, discarded>>

\* Sign-in, sign-out and change of account; onAuthChange() comes later.
UserChanges ==
  /\ Settled /\ ~authDue /\ login < MaxLogins
  /\ user' \in BOOLEAN
  /\ authDue' = TRUE
  /\ UNCHANGED <<rpc, login, coordinator, lifecycleVars, workVars, runVars,
                 stoppedFor, historyVars, admissionVars>>

\* The work a change of account gives up: what is buffered, and what is on
\* its way through the installed bridge and not yet admitted.
GivenUp ==
  buffer \cup {k.sig : k \in {j \in claims : installed /\ j.on = generation}}
         \cup {e.sig : e \in {j \in catchUps : installed /\ j.on = generation}}
         \cup {handler[h].sig : h \in {g \in Requests :
                  installed /\ handler[g].on = generation
                            /\ handler[g].at \in {"setup", "gate"}}}

\* onAuthChange(): the buffer is cleared, then the bridge is stopped.
AuthChange ==
  /\ Settled /\ authDue
  /\ authDue' = FALSE
  /\ login' = login + 1
  /\ StopCsBridge("auth", {}, handler, owed \ GivenUp)
  /\ discarded' = discarded \cup GivenUp
  /\ UNCHANGED <<rpc, user, coordinator, claims, running, completions, arrived>>

\* A signal of the backend's subscription reaches the actuator.
SignalArrives(c) ==
  /\ Settled /\ user /\ ~authDue /\ arrived < MaxSignals
  /\ arrived' = arrived + 1
  /\ LET s == [conv |-> c, seq |-> arrived', login |-> login]
     IN  IF installed
         THEN HandleSignal(s, generation, 0, owed \cup {s}) /\ UNCHANGED buffer
         ELSE /\ Queue(buffer, {s}, owed \cup {s})
              /\ UNCHANGED <<catchUps, handler>>
  /\ UNCHANGED <<worldVars, lifecycleVars, claims, runVars, stoppedFor,
                 discarded, admissionVars>>
-----------------------------------------------------------------------------
(***************************************************************************)
(* tryStartCsBridge(): attempt a.                                          *)
(***************************************************************************)

\* Mutation: `finally` opens the gate without looking at the generation.
StillStartingNever(a) == FALSE

\* `finally`: the gate is opened by the attempt of the current generation.
StillStarting(a) == starting /\ ~attempt[a].fresh

\* The body of an attempt ends.
Finish(a) ==
  /\ attempt' = [attempt EXCEPT ![a] = Idle]
  /\ starting' = StillStarting(a)

\* A pass of flushPendingCsDispatches() of attempt a on bridge b: it takes
\* all that is buffered, and ends the attempt when that is nothing.
FlushPass(a, b) ==
  IF buffer = {}
  THEN Finish(a) /\ UNCHANGED <<buffer, claims>>
  ELSE /\ claims' = claims \cup {[sig |-> s, on |-> b, by |-> a] : s \in buffer}
       /\ buffer' = {}
       /\ attempt' = [attempt EXCEPT ![a] = [@ EXCEPT !.pc = "flushing", !.on = b]]
       /\ UNCHANGED starting

\* The call by the startup coordinator, up to the first await.
TryStart ==
  /\ Settled /\ coordinator
  /\ coordinator' = FALSE
  /\ IF starting \/ ~user \/ (installed /\ ~suspended)
     THEN UNCHANGED <<lifecycleVars, probes>>
     ELSE \E a \in Attempts :
            /\ attempt[a].pc = "idle" /\ \A b \in 1..(a - 1) : attempt[b].pc # "idle"
            /\ starting' = TRUE
            /\ UNCHANGED <<installed, suspended>>
            /\ IF installed
               THEN /\ closed' = FALSE
                    /\ attempt' = [attempt EXCEPT ![a] =
                          [pc |-> "resuming", fresh |-> TRUE, on |-> generation]]
                    /\ probes' = probes \cup
                         {[run |-> h, by |-> "resume"] : h \in Pending}
               ELSE /\ attempt' = [attempt EXCEPT ![a] =
                          [pc |-> "tooling", fresh |-> TRUE, on |-> 0]]
                    /\ UNCHANGED <<closed, probes>>
  /\ UNCHANGED <<rpc, user, authDue, login, workVars, running, completions,
                 stoppedFor, historyVars, admissionVars>>

\* A new bridge starts, is installed, and replays what is buffered.
Install(a) ==
  /\ installed' = TRUE /\ suspended' = FALSE /\ closed' = FALSE
  /\ Resume
  /\ FlushPass(a, generation)

\* The checks behind `await ensureAgentToolingReady()`.
MayInstall == ~installed /\ rpc /\ user

\* ensureAgentToolingReady() returns; or it throws.
ToolingReady(a) ==
  /\ Settled /\ attempt[a].pc = "tooling"
  /\ \/ MayInstall /\ Install(a)
     \/ /\ Finish(a)
        /\ UNCHANGED <<installed, suspended, closed, buffer, claims, admissionVars>>
  /\ UNCHANGED <<worldVars, catchUps, handler, runVars, stoppedFor, historyVars>>

\* restorePendingRunDelivery() is done.
AllProbed == \A p \in probes : p.by # "resume"

\* The bridge takes up its work again.
Resumed(a) ==
  /\ Settled /\ attempt[a].pc = "resuming" /\ AllProbed
  /\ suspended' = FALSE
  /\ Resume
  /\ FlushPass(a, generation)
  /\ UNCHANGED <<worldVars, installed, closed, catchUps, handler, runVars,
                 stoppedFor, historyVars>>

\* An attempt of an earlier generation comes back from its await.
Returned(a) ==
  /\ Settled /\ attempt[a].pc = "overtaken"
  /\ Finish(a)
  /\ UNCHANGED <<worldVars, installed, suspended, closed, workVars, runVars,
                 stoppedFor, historyVars, admissionVars>>

\* A worker of flushCsDispatchesAfterBridgeReady() starts an entry.
ReplayStarts(k) ==
  /\ Settled
  /\ claims' = claims \ {k}
  /\ HandleSignal(k.sig, k.on, k.by, owed)
  /\ UNCHANGED <<worldVars, lifecycleVars, buffer, runVars, stoppedFor,
                 arrived, discarded, admissionVars>>

\* All handlers of the pass have returned: another pass, or the end.
FlushPassEnds(a) ==
  /\ Settled /\ attempt[a].pc = "flushing"
  /\ \A k \in claims : k.by # a
  /\ \A h \in Requests : handler[h].by # a
  /\ IF installed /\ attempt[a].on = generation
     THEN IF buffer = {}
          THEN Finish(a) /\ UNCHANGED <<buffer, claims>>
          ELSE /\ claims' = {[sig |-> s, on |-> generation, by |-> a] : s \in buffer}
                              \cup claims
               /\ buffer' = {}
               /\ UNCHANGED <<attempt, starting>>
     ELSE Finish(a) /\ UNCHANGED <<buffer, claims>>
  /\ UNCHANGED <<worldVars, installed, suspended, closed, catchUps, handler,
                 runVars, stoppedFor, historyVars, admissionVars>>
-----------------------------------------------------------------------------
(***************************************************************************)
(* dispatchCsConversationSignalNow(): call h.                              *)
(***************************************************************************)

Goes(h, place) == handler' = [handler EXCEPT ![h].at = place]
Returns(h) == handler' = [handler EXCEPT ![h] = NotCalled("done")]

\* The 30 s window of a catch-up closes; nobody awaits the call.
WindowEnds(e) ==
  /\ Settled
  /\ catchUps' = catchUps \ {e}
  /\ Dispatch(e.sig, e.on, 0)
  /\ UNCHANGED <<worldVars, lifecycleVars, buffer, claims, runVars, stoppedFor,
                 historyVars, admissionVars>>

\* No shop context, or an error before the gate: logged and given up; or the
\* session coalesced the dispatch with a newer one (CsRound).
SetupFails(h) ==
  /\ Settled /\ handler[h].at = "setup"
  /\ Returns(h)
  /\ owed' = owed \ {handler[h].sig}
  /\ UNCHANGED <<worldVars, lifecycleVars, buffer, catchUps, claims, runVars,
                 stoppedFor, arrived, discarded, admissionVars>>

\* Is h a call of the installed bridge?
OnInstalled(h) == installed /\ handler[h].on = generation

\* Session and conversation delta are there: acquire().  The controller of a
\* stopped bridge is retired and rejects at once.
ReachesGate(h) ==
  /\ Settled /\ handler[h].at = "setup"
  /\ Goes(h, "gate")
  /\ IF OnInstalled(h) THEN AcquireQueued(h) ELSE UNCHANGED admissionVars
  /\ UNCHANGED <<worldVars, lifecycleVars, buffer, catchUps, claims, runVars,
                 stoppedFor, historyVars>>

\* Mutation: a cancelled dispatch is queued again whatever the reason.
RequeuedAlways(reason) == TRUE

\* Is a dispatch cancelled for this reason kept for the next bridge?
Requeued(reason) == reason = "stopped"

\* The admission promise is rejected: CsRunAdmissionCancelledError.
Cancelled(h) ==
  /\ handler[h].at = "gate" /\ status[h] \in {"idle", "rejected"}
  /\ Returns(h)
  /\ LET s == handler[h].sig
     IN  IF Requeued(stoppedFor[handler[h].on])
         THEN Queue(buffer, {s}, owed)
         ELSE UNCHANGED <<buffer, owed>>
  /\ UNCHANGED <<worldVars, lifecycleVars, catchUps, claims, runVars, stoppedFor,
                 arrived, discarded, admissionVars>>

\* The lease is there: the session is set up and the run asked for.
Granted(h) ==
  /\ handler[h].at = "gate" /\ status[h] = "granted"
  /\ \/ rpc /\ Goes(h, "agent")
     \/ ~rpc /\ Goes(h, "failed")
  /\ UNCHANGED <<worldVars, lifecycleVars, buffer, catchUps, claims, runVars,
                 stoppedFor, historyVars, admissionVars>>

\* The gateway takes the run on.
AgentAccepts(h) ==
  /\ Settled /\ handler[h].at = "agent"
  /\ Goes(h, "accepted")
  /\ running' = running \cup {h}
  /\ UNCHANGED <<worldVars, lifecycleVars, buffer, catchUps, claims, probes,
                 completions, stoppedFor, historyVars, admissionVars>>

\* The answer arrives: onRunDispatched() registers the run with its lease.
AgentReplies(h) ==
  /\ Settled /\ handler[h].at = "accepted"
  /\ handler' = [handler EXCEPT ![h] = [@ EXCEPT !.at = "run", !.by = 0]]
  /\ owed' = owed \ {handler[h].sig}
  /\ UNCHANGED <<worldVars, lifecycleVars, buffer, catchUps, claims, runVars,
                 stoppedFor, arrived, discarded, admissionVars>>

\* The gateway refuses, or does not answer in time.
AgentFails(h) ==
  /\ Settled /\ handler[h].at \in {"agent", "accepted"}
  /\ Goes(h, "failed")
  /\ UNCHANGED <<worldVars, lifecycleVars, buffer, catchUps, claims, runVars,
                 stoppedFor, historyVars, admissionVars>>

\* Mutation: no release in dispatch()'s `finally`.
KeepsLease(h) == UNCHANGED admissionVars

\* The lease of call h goes back to the controller; a second release() of it
\* returns at once.
GivesBack(h) == Release(h) \/ (h \in released /\ UNCHANGED admissionVars)

\* `finally` of dispatch() for a run that was not registered, and the catch
\* of the bridge: the error is logged, the dispatch given up.
Failed(h) ==
  /\ handler[h].at = "failed"
  /\ Returns(h)
  /\ owed' = owed \ {handler[h].sig}
  /\ GivesBack(h)
  /\ UNCHANGED <<worldVars, lifecycleVars, buffer, catchUps, claims, runVars,
                 stoppedFor, arrived, discarded>>
-----------------------------------------------------------------------------
(***************************************************************************)
(* Pending runs.                                                           *)
(***************************************************************************)

\* completePendingRun(), after pendingRuns.delete().
Completes(h) ==
  /\ Returns(h)
  /\ completions' = [completions EXCEPT ![h] = @ + 1]
  /\ GivesBack(h)

\* The gateway ends run h; the terminal event is heard by the installed
\* bridge, or nobody hears it.
RunEnds(h) ==
  /\ Settled /\ h \in running
  /\ running' = running \ {h}
  /\ \/ rpc /\ h \in Pending /\ Completes(h)
     \/ UNCHANGED <<handler, completions, admissionVars>>
  /\ UNCHANGED <<worldVars, lifecycleVars, buffer, catchUps, claims, probes,
                 stoppedFor, historyVars>>

\* sweepStalePendingRuns(), one run at a time.
SweepProbes(h) ==
  /\ Settled /\ h \in Pending /\ ~closed
  /\ \A p \in probes : p.by # "sweep"
  /\ probes' = probes \cup {[run |-> h, by |-> "sweep"]}
  /\ UNCHANGED <<worldVars, lifecycleVars, workVars, running, completions,
                 stoppedFor, historyVars, admissionVars>>

\* Is the run of probe p still pending when an answer arrives?
Concerns(p) == p.run \in Pending

\* agent.wait says that the run goes on, or a request fails.
ProbeFindsNothing(p) ==
  /\ Settled /\ p \in probes
  /\ probes' = probes \ {p}
  /\ UNCHANGED <<worldVars, lifecycleVars, workVars, running, completions,
                 stoppedFor, historyVars, admissionVars>>

\* agent.wait, and chat.history if the run ended well: it is completed.
ProbeCompletes(p) ==
  /\ Settled /\ p \in probes /\ p.run \notin running /\ Concerns(p)
  /\ probes' = probes \ {p}
  /\ Completes(p.run)
  /\ UNCHANGED <<worldVars, lifecycleVars, buffer, catchUps, claims, running,
                 stoppedFor, historyVars>>
-----------------------------------------------------------------------------
BridgeNext ==
  \/ RpcConnects \/ RpcDrops \/ GatewayStops \/ UserChanges \/ AuthChange
  \/ \E c \in Conversations : SignalArrives(c)
  \/ TryStart
  \/ \E a \in Attempts : \/ ToolingReady(a) \/ Resumed(a) \/ Returned(a)
                         \/ FlushPassEnds(a)
  \/ \E k \in claims : ReplayStarts(k)
  \/ \E e \in catchUps : WindowEnds(e)
  \/ \E h \in Requests :
       \/ SetupFails(h) \/ ReachesGate(h) \/ Cancelled(h) \/ Granted(h)
       \/ AgentAccepts(h) \/ AgentReplies(h) \/ AgentFails(h) \/ Failed(h)
       \/ RunEnds(h) \/ SweepProbes(h)
  \/ \E p \in probes : ProbeFindsNothing(p) \/ ProbeCompletes(p)

BridgeSpec == BridgeInit /\ [][BridgeNext]_bridgeVars
-----------------------------------------------------------------------------
BridgeTypeOK ==
  /\ {rpc, user, authDue, coordinator, installed, suspended, starting, closed}
       \subseteq BOOLEAN
  /\ login \in 0..MaxLogins
  /\ attempt \in [Attempts -> [pc : {"idle", "tooling", "resuming", "flushing", "overtaken"},
                               fresh : BOOLEAN, on : 0..MaxGeneration]]
  /\ buffer \subseteq Signals
  /\ \A s, t \in buffer : s.conv = t.conv => s = t
  /\ Cardinality(buffer) <= MaxPending
  /\ catchUps \subseteq [sig : Signals, on : 0..MaxGeneration]
  /\ claims \subseteq [sig : Signals, on : 0..MaxGeneration, by : Attempts]
  /\ handler \in [Requests -> [at : Places, sig : Signals \cup {<<>>},
                               on : 0..MaxGeneration, by : 0..MaxAttempts]]
  /\ running \subseteq Requests
  /\ probes \subseteq [run : Requests, by : {"resume", "sweep"}]
  /\ stoppedFor \in [0..MaxGeneration -> {"none", "stopped", "auth"}]
  /\ arrived \in 0..MaxSignals
  /\ owed \subseteq Signals /\ discarded \subseteq Signals
  /\ completions \in [Requests -> Nat]

\* Where a signal can be on its way to the gateway.
OnItsWay ==
  buffer \cup {k.sig : k \in claims} \cup {e.sig : e \in catchUps}
         \cup {handler[h].sig : h \in {g \in Requests :
                 handler[g].at \in {"setup", "gate", "agent", "accepted", "failed"}}}

\* No signal is lost before the gateway has it: whatever crashes,
\* disconnects, replays and restarts of the bridge come in between, it is
\* buffered, in a window, claimed by a replay or in a handler, unless a newer
\* one took its place, the full buffer evicted it, a handler failed on it or a
\* sign-out gave it up.
SignalsAreKept == owed \subseteq OnItsWay

\* What a sign-out or change of account gave up does not come back: neither
\* the buffered signals nor those on their way through the bridge it stopped
\* are in the buffer that the next login's bridge replays.
DiscardedStaysOut == buffer \cap discarded = {}

\* The gate of the admission is open only under a bridge that is connected:
\* not while it is suspended, and not by an attempt to resume it that a
\* disconnect has overtaken.
ClosedBridgeAdmitsNobody == installed /\ ~rpc => closed /\ paused

\* A slot is held for something: each lease belongs to a call that has just
\* got it, asks for a run or has registered one, and a run that was
\* registered on the installed bridge holds its lease until it is completed.
\* The watchdog, which CsRunAdmission has, is left out here: the bridge must
\* not need it.
LeasesAreOwned ==
  /\ \A h \in Holding : /\ handler[h].on = generation
                         /\ handler[h].at \in {"gate", "agent", "accepted", "failed", "run"}
  /\ Pending \subseteq Holding

\* A run is completed once, although its terminal event, the probes of a
\* resume and those of the sweeper can all find its end.
CompletedOnce == \A h \in Requests : completions[h] <= 1

\* At most one attempt acts on the bridge: an attempt of the present
\* generation that is under way holds the gate of tryStartCsBridge().
OneAttempt ==
  /\ \A a, b \in Attempts : attempt[a].fresh /\ attempt[b].fresh => a = b
  /\ starting <=> \E a \in Attempts : attempt[a].fresh

\* "It must not sit there until the next Gateway restart": what is buffered
\* while the bridge works is about to be replayed.
NothingSitsInTheBuffer ==
  installed /\ ~suspended /\ buffer # {} =>
    \E a \in Attempts : attempt[a].pc = "flushing" /\ attempt[a].on = generation
=============================================================================
