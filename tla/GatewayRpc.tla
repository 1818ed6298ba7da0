------------------------------ MODULE GatewayRpc ------------------------------
(***************************************************************************)
(* The desktop's RPC connections to the gateway, class GatewayRpcClient of *)
(* packages/gateway/src/runtime/rpc-client.ts: one WebSocket at a time,    *)
(* opened with a challenge handshake and a deadline, and reopened with a   *)
(* growing delay until the client is stopped.                              *)
(*                                                                         *)
(* The socket's handlers do not compare it with the client's current one:  *)
(* the close of a socket that was given up, which may come as much as the  *)
(* closing handshake's timeout later, is taken for the current one's.      *)
(***************************************************************************)
EXTENDS Naturals

CONSTANTS
  Clients,       \* client objects; one that is finished with is used again
  NoClient,
  MaxLingering   \* bound on a live client's given-up sockets

ASSUME NoClientAssumption == NoClient \notin Clients
ASSUME MaxLingeringAssumption == MaxLingering \in Nat \ {0}

VARIABLES
  closed,        \* stopped, or not in use
  phase,         \* of the client's current socket, this.ws
  connecting,    \* is an attempt in flight?
  timer,         \* is the reconnect timer set?
  lingering      \* how many sockets given up have not closed yet

rpcVars == <<closed, phase, connecting, timer, lingering>>

\* No socket; opened or waiting for the challenge; waiting for the answer to
\* `connect`; connected; terminated, so that its close is the next thing heard;
\* closing with a handshake that the gateway may leave unanswered.
Phases == {"none", "opening", "asked", "up", "terminated", "closing"}

RpcInit ==
  /\ closed = [c \in Clients |-> TRUE]
  /\ phase = [c \in Clients |-> "none"]
  /\ connecting = [c \in Clients |-> FALSE]
  /\ timer = [c \in Clients |-> FALSE]
  /\ lingering = [c \in Clients |-> 0]

Unused(c) == closed[c] /\ lingering[c] = 0

\* isConnected().
Up(c) == phase[c] = "up"

\* stop() of the client old, if any, and start() of the fresh one new, if any.
\* Whatever old's socket is doing, its close is still to come.
Switch(old, new) ==
  /\ closed' = [c \in Clients |-> c = old \/ (c # new /\ closed[c])]
  /\ phase' = [c \in Clients |-> IF c = new THEN "opening"
                                 ELSE IF c = old THEN "none" ELSE phase[c]]
  /\ connecting' = [c \in Clients |-> c = new \/ (c # old /\ connecting[c])]
  /\ timer' = [c \in Clients |-> c # old /\ timer[c]]
  /\ lingering' = [c \in Clients |-> IF c = old /\ phase[c] # "none"
                                     THEN lingering[c] + 1 ELSE lingering[c]]

\* The attempt of c is over: scheduleReconnect().
Settle(c) ==
  /\ connecting' = [connecting EXCEPT ![c] = FALSE]
  /\ timer' = [timer EXCEPT ![c] = TRUE]

\* The challenge arrives and `connect` is sent.
Challenge(c) ==
  /\ phase[c] = "opening"
  /\ phase' = [phase EXCEPT ![c] = "asked"]
  /\ UNCHANGED <<closed, connecting, timer, lingering>>

\* A challenge without a nonce: the attempt is over and its socket is closed.
EmptyNonce(c) ==
  /\ phase[c] = "opening"
  /\ lingering[c] < MaxLingering
  /\ phase' = [phase EXCEPT ![c] = "closing"]
  /\ Settle(c)
  /\ UNCHANGED <<closed, lingering>>

\* The answer to `connect`.
Hello(c) ==
  /\ phase[c] = "asked"
  /\ phase' = [phase EXCEPT ![c] = "up"]
  /\ connecting' = [connecting EXCEPT ![c] = FALSE]
  /\ UNCHANGED <<closed, timer, lingering>>

\* The deadline, or `connect` refused or not answered: the socket, which the
\* client may have lost sight of, is terminated.
AttemptFails(c) ==
  /\ connecting[c]
  /\ phase' = [phase EXCEPT ![c] = IF @ = "none" THEN "none" ELSE "terminated"]
  /\ Settle(c)
  /\ UNCHANGED <<closed, lingering>>

\* Mutation: the close handler only settles the attempt, whose caller it
\* expects to schedule the next one.
SocketCloseUnscheduled(c) ==
  /\ phase[c] # "none"
  /\ phase' = [phase EXCEPT ![c] = "none"]
  /\ connecting' = [connecting EXCEPT ![c] = FALSE]
  /\ timer' = [timer EXCEPT ![c] = @ \/ connecting[c]]
  /\ UNCHANGED <<closed, lingering>>

\* The close of the current socket.
SocketClose(c) ==
  /\ phase[c] # "none"
  /\ phase' = [phase EXCEPT ![c] = "none"]
  /\ Settle(c)
  /\ UNCHANGED <<closed, lingering>>

\* Mutation: scheduleReconnect() does not look whether an attempt is in flight.
LateCloseRacing(c) ==
  /\ lingering[c] > 0
  /\ lingering' = [lingering EXCEPT ![c] = IF phase[c] = "none" THEN @ - 1 ELSE @]
  /\ phase' = [phase EXCEPT ![c] = "none"]
  /\ IF closed[c]
     THEN UNCHANGED <<connecting, timer>>
     ELSE /\ timer' = [timer EXCEPT ![c] = TRUE]
          /\ UNCHANGED connecting
  /\ UNCHANGED closed

\* The close of a socket given up.  A live client forgets its current socket
\* and rejects the requests on it: an attempt that waits for the answer to
\* `connect`, or whose own socket this was, is over, an earlier one goes on.
LateClose(c) ==
  /\ lingering[c] > 0
  /\ lingering' = [lingering EXCEPT ![c] = IF phase[c] = "none" THEN @ - 1 ELSE @]
  /\ phase' = [phase EXCEPT ![c] = "none"]
  /\ \/ /\ closed[c] \/ (connecting[c] /\ phase[c] = "opening")
        /\ UNCHANGED <<connecting, timer>>
     \/ /\ connecting[c] /\ phase[c] = "none" /\ lingering[c] > 1
        /\ UNCHANGED <<connecting, timer>>
     \/ /\ ~closed[c]
        /\ ~(connecting[c] /\ phase[c] = "opening")
        /\ Settle(c)
  /\ UNCHANGED closed

\* The reconnect timer fires: connect().
Reconnect(c) ==
  /\ timer[c]
  /\ phase[c] # "terminated"
  /\ timer' = [timer EXCEPT ![c] = FALSE]
  /\ connecting' = [connecting EXCEPT ![c] = TRUE]
  /\ phase' = [phase EXCEPT ![c] = "opening"]
  /\ lingering' = [lingering EXCEPT ![c] = IF phase[c] = "none" THEN @ ELSE @ + 1]
  /\ UNCHANGED closed

\* A stopped client has nothing left but sockets to hear the last of.
RpcTypeOK ==
  /\ closed \in [Clients -> BOOLEAN]
  /\ phase \in [Clients -> Phases]
  /\ connecting \in [Clients -> BOOLEAN]
  /\ timer \in [Clients -> BOOLEAN]
  /\ lingering \in [Clients -> Nat]
  /\ \A c \in Clients : closed[c] => phase[c] = "none" /\ ~connecting[c] /\ ~timer[c]

\* A live client is connected, is in one attempt, or waits on one timer for
\* the next: never none of these, however the attempt ended ("a failed attempt
\* does not always end in a socket close"), and never two ("keep exactly one
\* reconnect timeline alive").
OneReconnectTimeline ==
  \A c \in Clients :
    ~closed[c] => /\ Up(c) \/ connecting[c] \/ timer[c]
                  /\ ~(Up(c) /\ connecting[c])
                  /\ ~(Up(c) /\ timer[c])
                  /\ ~(connecting[c] /\ timer[c])
=============================================================================
