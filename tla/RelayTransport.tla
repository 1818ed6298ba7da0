--------------------------- MODULE RelayTransport ---------------------------
(***************************************************************************)
(* The desktop's WebSocket to the mobile relay, class RelayTransport of    *)
(* extensions/rivonclaw-mobile-chat-channel/src/relay-transport.ts, as one *)
(* pairing sees it between start() and disconnect().                       *)
(*                                                                         *)
(* A closed socket is always followed by a reconnect timer and an open one *)
(* by a `rejoin` request; until its rejoin_ack nothing else may be sent.   *)
(***************************************************************************)

VARIABLES
  link,           \* the socket: down (with the reconnect timer set),
                  \* connecting or open
  rejoinPending

transportVars == <<link, rejoinPending>>

TransportInit ==
  /\ link = "down"
  /\ rejoinPending = FALSE

\* Whether send() puts a frame on the wire; otherwise it drops it silently.
CanSend == link = "open" /\ ~rejoinPending

\* isConnected(), which does not look at rejoinPending.
Connected == link = "open"

\* The reconnect timer fires: connect().
Connect ==
  /\ link = "down"
  /\ link' = "connecting"
  /\ UNCHANGED rejoinPending

\* The socket's 'open': rejoin is sent for all pairings.
Open ==
  /\ link = "connecting"
  /\ link' = "open"
  /\ rejoinPending' = TRUE

\* The socket's 'close', whoever caused it: scheduleReconnect().
Close ==
  /\ link \in {"connecting", "open"}
  /\ link' = "down"
  /\ rejoinPending' = FALSE

\* The end of the rejoin_ack handler, after the pairings' handlers were told
\* the peer status it carries.
Rejoined ==
  /\ link = "open"
  /\ rejoinPending
  /\ rejoinPending' = FALSE
  /\ UNCHANGED link

TransportTypeOK ==
  /\ link \in {"down", "connecting", "open"}
  /\ rejoinPending \in BOOLEAN
  /\ rejoinPending => link = "open"
=============================================================================
