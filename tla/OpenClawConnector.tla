--------------------------- MODULE OpenClawConnector ---------------------------
(***************************************************************************)
(* The desktop's facade of the gateway, class OpenClawConnector of         *)
(* apps/desktop/src/openclaw/openclaw-connector.ts: it composes            *)
(* GatewayLauncher, whose events it hears, with GatewayRpc, whose clients  *)
(* it creates and replaces, and publishes what it knows of both in the     *)
(* runtime status store.                                                   *)
(*                                                                         *)
(* The launcher's events and the client's callbacks are synchronous: each  *)
(* action is a step of the one or the other with all that it causes here.  *)
(* Where `proc' = proc` the launcher has the same gateway as before.       *)
(***************************************************************************)
EXTENDS GatewayLauncher, GatewayRpc

CONSTANTS
  Direct,       \* the callers that use the launcher itself: tray, OAuth flow,
                \* start and quit of the app; the others call restart()
  Probes        \* bound on the sidecar probes that run at the same time

ASSUME DirectAssumption == Direct \in SUBSET Callers
ASSUME ProbesAssumption == Probes \cap (Clients \cup {"idle", "sleeping"}) = {}

VARIABLES
  listening,    \* has the gateway printed "listening on"?
  rpcClient,
  chains,       \* the ready handlers that wait for the WebSocket endpoint:
                \* whether of this connectGeneration or of an earlier one
  probe,        \* of each sidecar probe: idle, asleep, or asking a client
  processState,
  rpcConnected,
  sidecarState,
  told          \* the callbacks fired last: rpcConnected or rpcDisconnected

storeVars == <<processState, rpcConnected, sidecarState>>
connectorVars == <<listening, rpcClient, chains, probe, storeVars, told>>
allVars == <<vars, rpcVars, connectorVars>>

ConnectorInit ==
  /\ Init
  /\ RpcInit
  /\ listening = FALSE
  /\ rpcClient = NoClient
  /\ chains = {}
  /\ probe = [p \in Probes |-> "idle"]
  /\ processState = "stopped"
  /\ rpcConnected = FALSE
  /\ sidecarState = "unknown"
  /\ told = "disconnected"
-----------------------------------------------------------------------------
\* connectGeneration++.
Invalidate == chains' = {"stale" : k \in chains}

\* The requests on client c are rejected, and each probe among them fails; s
\* is the sidecar state otherwise.
Flush(c, s) ==
  /\ sidecarState' = IF \E p \in Probes : probe[p] = c THEN "failed" ELSE s
  /\ probe' = [p \in Probes |-> IF probe[p] = c THEN "idle" ELSE probe[p]]

\* Mutation: the disconnect callbacks are left to the close of the socket.
DisconnectRpcUntold ==
  /\ rpcClient' = NoClient
  /\ Switch(rpcClient, NoClient)
  /\ \/ /\ rpcClient = NoClient
        /\ UNCHANGED <<rpcConnected, sidecarState, probe, told>>
     \/ /\ rpcClient # NoClient
        /\ rpcConnected' = FALSE
        /\ Flush(rpcClient, "unknown")
        /\ UNCHANGED told

\* Mutation: the store is left to the close of the socket.
DisconnectRpcUnstored ==
  /\ rpcClient' = NoClient
  /\ Switch(rpcClient, NoClient)
  /\ \/ /\ rpcClient = NoClient
        /\ UNCHANGED <<rpcConnected, sidecarState, probe, told>>
     \/ /\ rpcClient # NoClient
        /\ UNCHANGED rpcConnected
        /\ Flush(rpcClient, "unknown")
        /\ told' = "disconnected"

\* disconnectRpc().
DisconnectRpc ==
  /\ rpcClient' = NoClient
  /\ Switch(rpcClient, NoClient)
  /\ \/ /\ rpcClient = NoClient
        /\ UNCHANGED <<rpcConnected, sidecarState, probe, told>>
     \/ /\ rpcClient # NoClient
        /\ rpcConnected' = FALSE
        /\ Flush(rpcClient, "unknown")
        /\ told' = "disconnected"

\* 'started' is emitted when a gateway was spawned; otherwise the process
\* state is s.
Publish(s) ==
  /\ processState' = IF live' \ live # {} THEN "running" ELSE s
  /\ listening' = (listening /\ proc' = proc)

\* Steps of the launcher that emit nothing else.
LauncherOnly ==
  /\ \/ \E c \in Direct : CallStart(c) \/ CallStop(c) \/ CallRestart(c)
     \/ \E c \in Direct : Continue(c)
     \/ \E c \in Callers : Resume(c)
     \/ KillTimeout \/ Ripen \/ RestartTimer
  /\ Publish(processState)
  /\ UNCHANGED <<rpcVars, rpcClient, chains, probe, rpcConnected, sidecarState, told>>

\* restart(): stop() of the connector and of the launcher.
Restart(c) ==
  /\ c \notin Direct
  /\ CallRestart(c)
  /\ Invalidate
  /\ Publish("stopping")
  /\ DisconnectRpc

\* restart(), when the launcher's stop() has returned: start().
RestartContinued(c) ==
  /\ c \notin Direct
  /\ Continue(c)
  /\ Publish("starting")
  /\ UNCHANGED <<rpcVars, rpcClient, chains, probe, rpcConnected, sidecarState, told>>

\* The gateway ends: 'stopped', and 'restarting' if the launcher backs off.
GatewayExit ==
  /\ ChildExit \/ FailedChildExit
  /\ Invalidate
  /\ Publish(IF restartTimer' /\ ~restartTimer THEN "starting" ELSE "stopped")
  /\ DisconnectRpc

\* The gateway prints "listening on": 'ready'.  By then the sockets of an
\* earlier gateway, whose process has ended, have closed.
GatewayReady ==
  /\ Settled
  /\ proc \in live
  /\ ~listening
  /\ \A c \in Clients : lingering[c] = 0
  /\ listening' = TRUE
  /\ chains' = {"stale" : k \in chains} \cup {"current"}
  /\ UNCHANGED <<vars, rpcVars, rpcClient, probe, storeVars, told>>

\* Mutation: the generation is not compared after the wait.
WaitedForWsUnchecked(k) ==
  /\ Settled
  /\ k \in chains
  /\ chains' = chains \ {k}
  /\ \E c \in Clients :
       /\ Unused(c)
       /\ rpcClient' = c
       /\ Switch(rpcClient, c)
  /\ Flush(rpcClient, sidecarState)
  /\ UNCHANGED <<vars, listening, processState, rpcConnected, told>>

\* waitForWsReady() returns, reached or not: connectRpc() unless it is stale.
WaitedForWs(k) ==
  /\ Settled
  /\ k \in chains
  /\ chains' = chains \ {k}
  /\ \/ /\ k = "stale"
        /\ UNCHANGED <<rpcVars, rpcClient, sidecarState, probe>>
     \/ /\ k = "current"
        /\ \E c \in Clients :
             /\ Unused(c)
             /\ rpcClient' = c
             /\ Switch(rpcClient, c)
        /\ Flush(rpcClient, sidecarState)
  /\ UNCHANGED <<vars, listening, processState, rpcConnected, told>>
-----------------------------------------------------------------------------
\* Steps of a client that call nothing back.  Only a gateway that listens
\* sends a challenge.
ClientOnly(c) ==
  /\ Settled
  /\ \/ listening /\ (Challenge(c) \/ EmptyNonce(c))
     \/ AttemptFails(c)
     \/ Reconnect(c)
  /\ UNCHANGED <<vars, connectorVars>>

\* onConnect: the sidecar is probed and the callbacks are fired.
Connected(c) ==
  /\ Settled
  /\ listening
  /\ Hello(c)
  /\ rpcConnected' = TRUE
  /\ sidecarState' = "probing"
  /\ \E p \in Probes : probe[p] = "idle" /\ probe' = [probe EXCEPT ![p] = c]
  /\ told' = "connected"
  /\ UNCHANGED <<vars, listening, rpcClient, chains, processState>>

\* onClose, of the client in use or of one that was replaced.
Disconnected(c) ==
  /\ Settled
  /\ SocketClose(c) \/ LateClose(c)
  /\ rpcConnected' = FALSE
  /\ Flush(c, "unknown")
  /\ told' = IF c = rpcClient THEN "disconnected" ELSE told
  /\ UNCHANGED <<vars, listening, rpcClient, chains, processState>>
-----------------------------------------------------------------------------
\* probeSidecarReady(): the answer to a request of p, and the next one.  The
\* number of attempts is left open.
ProbeAnswered(p) ==
  /\ Settled
  /\ probe[p] \in Clients
  /\ \/ /\ listening
        /\ probe' = [probe EXCEPT ![p] = "idle"]
        /\ sidecarState' = "ready"
     \/ /\ probe' = [probe EXCEPT ![p] = "idle"]
        /\ sidecarState' = "failed"
     \/ /\ probe' = [probe EXCEPT ![p] = "sleeping"]
        /\ UNCHANGED sidecarState
  /\ UNCHANGED <<vars, rpcVars, listening, rpcClient, chains, processState,
                 rpcConnected, told>>

ProbeAgain(p) ==
  /\ Settled
  /\ probe[p] = "sleeping"
  /\ \/ /\ rpcClient # NoClient /\ Up(rpcClient)
        /\ probe' = [probe EXCEPT ![p] = rpcClient]
        /\ UNCHANGED sidecarState
     \/ /\ ~(rpcClient # NoClient /\ Up(rpcClient))
        /\ probe' = [probe EXCEPT ![p] = "idle"]
        /\ sidecarState' = "failed"
  /\ UNCHANGED <<vars, rpcVars, listening, rpcClient, chains, processState,
                 rpcConnected, told>>
-----------------------------------------------------------------------------
ConnectorNext ==
  \/ LauncherOnly
  \/ \E c \in Callers : Restart(c) \/ RestartContinued(c)
  \/ GatewayExit \/ GatewayReady
  \/ \E k \in {"current", "stale"} : WaitedForWs(k)
  \/ \E c \in Clients : ClientOnly(c) \/ Connected(c) \/ Disconnected(c)
  \/ \E p \in Probes : ProbeAnswered(p) \/ ProbeAgain(p)

ConnectorSpec == ConnectorInit /\ [][ConnectorNext]_allVars

\* Microtasks, timers and socket events run; a gateway that is asked again and
\* again does not leave every attempt without its challenge or its answer.
ConnectorFairSpec ==
  /\ ConnectorSpec
  /\ WF_allVars(WaitedForWs("current"))
  /\ \A c \in Callers : WF_allVars(RestartContinued(c)) /\ WF_allVars(Resume(c) /\ LauncherOnly)
  /\ \A c \in Clients : /\ WF_allVars(Reconnect(c) /\ ClientOnly(c))
                        /\ WF_allVars(LateClose(c) /\ Disconnected(c))
                        /\ WF_allVars(phase[c] \in {"terminated", "closing"} /\ Disconnected(c))
                        /\ SF_allVars(Challenge(c) /\ ClientOnly(c))
                        /\ SF_allVars(Connected(c))
  /\ \A p \in Probes : WF_allVars(ProbeAnswered(p)) /\ WF_allVars(ProbeAgain(p))
-----------------------------------------------------------------------------
ConnectorTypeOK ==
  /\ RpcTypeOK
  /\ listening \in BOOLEAN
  /\ rpcClient \in Clients \cup {NoClient}
  /\ chains \subseteq {"current", "stale"}
  /\ probe \in [Probes -> Clients \cup {"idle", "sleeping"}]
  /\ processState \in {"stopped", "starting", "running", "stopping"}
  /\ rpcConnected \in BOOLEAN
  /\ sidecarState \in {"unknown", "probing", "ready", "failed"}
  /\ told \in {"connected", "disconnected"}

\* Without a gateway nothing tries to reach one: no client lives and no ready
\* handler will make one, whatever a stop, a crash or a restart interrupted; and
\* there is never another client than the connector's own.
NoClientWithoutGateway ==
  /\ proc = NoPid => rpcClient = NoClient /\ "current" \notin chains
  /\ \A c \in Clients : ~closed[c] => c = rpcClient

\* The services behind the callbacks know of every connection, and of a
\* connection that is lost before the client waits to open the next one: either
\* they were told so or the close that tells them is on its way.
ToldOfTheConnection ==
  /\ \A c \in Clients : Up(c) => told = "connected"
  /\ told = "connected" =>
       /\ rpcClient # NoClient
       /\ \/ Up(rpcClient) \/ connecting[rpcClient]
          \/ phase[rpcClient] \in {"terminated", "closing"}

\* The store says that the gateway is connected when a client is, and only
\* then, although the closes of sockets given up and of stopped clients are
\* heard late and set it too.
StoreKnowsTheConnection == rpcConnected <=> \E c \in Clients : Up(c)

\* A gateway that stays up and that nobody stops is connected to again and
\* again, whatever the attempts before it came to.
GatewayIsReached ==
  <>[](listening /\ ~stopRequested) => []<>(\E c \in Clients : Up(c))

\* While the launcher's gateway runs and nobody is stopping or starting it the
\* process state is "running", as isReady demands.
ProcessStateIsTrue ==
  (state = "running" /\ proc \in live /\ Settled) => processState = "running"
=============================================================================
