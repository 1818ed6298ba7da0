----------------------------- MODULE MobileSync -----------------------------
(***************************************************************************)
(* The synchronisation of one paired phone, class MobileSyncEngine of      *)
(* extensions/rivonclaw-mobile-chat-channel/src/sync-engine.ts, on top of  *)
(* RelayTransport: outbound messages are kept in a persisted outbox and    *)
(* resent until acknowledged, inbound ones are dispatched to the agent     *)
(* once, and a session reset is a handshake of phone, engine and desktop.  *)
(*                                                                         *)
(* The relay stores nothing: what it cannot deliver is lost.  The phone    *)
(* acknowledges each message it gets and resends its own until they are    *)
(* acknowledged.  Both are outside the repository and are modelled by what *)
(* the engine relies on.                                                   *)
(***************************************************************************)
EXTENDS Naturals, FiniteSets, Sequences, Functions, RelayTransport

CONSTANTS
  Msgs,            \* the outbound messages (their random ids)
  Inbound,         \* the phone's messages
  Resets,          \* the phone's reset requests
  OutboxLimit,     \* OUTBOX_LIMIT, 500
  HistoryLimit,    \* SENT_HISTORY_LIMIT, 200
  ProcessedLimit,  \* PROCESSED_IDS_LIMIT, 1000
  MaxDispatches,   \* bound on the messages given to the agent
  MaxCrashes       \* bound on the crashes of the gateway process

ASSUME MsgsAssumption == IsFiniteSet(Msgs)
ASSUME ResetsAssumption == IsFiniteSet(Resets)
ASSUME LimitsAssumption ==
  OutboxLimit \in Nat \ {0} /\ HistoryLimit \in Nat \ {0} /\ ProcessedLimit \in Nat \ {0}
ASSUME BoundsAssumption == MaxCrashes \in Nat /\ MaxDispatches \in Nat

VARIABLES
  \* the engine
  up,           \* is the engine started?
  outbox,       \* the unacknowledged messages
  history,      \* sentHistory
  seqOf,        \* the seq each message got from nextSeq
  nextSeq,
  ackTimers,    \* the messages whose ACK timer is set
  mobileOnline,
  flushed,      \* was the outbox flushed less than 3 s ago?
  processed,    \* processedIdsOrder, and with it the set processedIds
  pendingResets,
  \* its state file
  saveDue,      \* has a save been asked for since the last one began?
  writing,      \* is a save in progress?
  snapshot,     \* what it writes
  disk,         \* what the file holds; a missing or cut one counts as empty
  crashes,
  \* the relay and the phone
  peer,         \* is the phone connected to the relay?
  news,         \* is a peer_status on its way to the desktop?
  toPhone,      \* messages on their way to the phone
  acks,         \* the phone's acknowledgements on their way
  toDesktop,    \* the phone's messages on their way
  acked,        \* the phone's messages whose acknowledgement reached it
  \* the desktop's part of a reset, and the answers the phone was sent
  session,      \* of each request: none, asked, refused, ok or failed
  resetAcks,    \* of each request: the outcomes sent
  \* history variables
  fresh,        \* the messages not queued yet
  owed,         \* queued messages the phone has not got, nor been denied
  saved,        \* messages a completed save held since a write was last cut
  dispatched,   \* how often each inbound message was given to the agent
  dispatches    \* how often any was

engineVars == <<up, outbox, history, seqOf, nextSeq, ackTimers, mobileOnline,
                flushed, processed, pendingResets>>
fileVars == <<saveDue, writing, snapshot, disk, crashes>>
netVars == <<peer, news, toPhone, acks, toDesktop, acked>>
resetVars == <<session, resetAcks>>
ghostVars == <<fresh, owed, saved, dispatched, dispatches>>
vars == <<transportVars, engineVars, fileVars, netVars, resetVars, ghostVars>>

Empty == [outbox |-> {}, history |-> {}]

Init ==
  /\ TransportInit
  /\ up = TRUE
  /\ outbox = {} /\ history = {}
  /\ seqOf = [m \in Msgs |-> 0]
  /\ nextSeq = 1
  /\ ackTimers = {}
  /\ mobileOnline = FALSE
  /\ flushed = FALSE
  /\ processed = <<>>
  /\ pendingResets = {}
  /\ saveDue = FALSE /\ writing = FALSE
  /\ snapshot = Empty /\ disk = Empty
  /\ crashes = 0
  /\ peer = FALSE /\ news = FALSE
  /\ toPhone = {} /\ acks = {} /\ toDesktop = {} /\ acked = {}
  /\ session = [r \in Resets |-> "none"]
  /\ resetAcks = [r \in Resets |-> {}]
  /\ fresh = Msgs
  /\ owed = {} /\ saved = {}
  /\ dispatched = [i \in Inbound |-> 0] /\ dispatches = 0

\* The frames ms as send() treats them.
Sending(ms) == toPhone' = IF CanSend THEN toPhone \cup ms ELSE toPhone

\* The oldest message of a set: Maps and arrays keep the order of insertion,
\* which is the order of the sequence numbers.
Oldest(ms) == {m \in ms : \A n \in ms : seqOf'[m] <= seqOf'[n]}

\* The ms that remain when the oldest is dropped from a full container.
Bounded(ms, limit) == IF Cardinality(ms) > limit THEN ms \ Oldest(ms) ELSE ms
-----------------------------------------------------------------------------
(***************************************************************************)
(* Outbound messages.                                                      *)
(***************************************************************************)

\* queueOutbound().
QueueOutbound(m) ==
  /\ up
  /\ m \in fresh
  /\ fresh' = fresh \ {m}
  /\ seqOf' = [seqOf EXCEPT ![m] = nextSeq]
  /\ nextSeq' = nextSeq + 1
  /\ outbox' = Bounded(outbox \cup {m}, OutboxLimit)
  /\ ackTimers' = (ackTimers \ (outbox \ outbox')) \cup {m}
  /\ history' = Bounded(history \cup {m}, HistoryLimit)
  /\ owed' = (owed \ (outbox \ outbox')) \cup {m}
  /\ saveDue' = TRUE
  /\ Sending({m})
  /\ UNCHANGED <<transportVars, up, mobileOnline, flushed, processed,
                 pendingResets, writing, snapshot, disk, crashes, peer, news,
                 acks, toDesktop, acked, resetVars, saved, dispatched, dispatches>>

\* Mutation: a message is given up when its retry finds the phone offline.
AckTimerGivingUp(m) ==
  /\ up
  /\ m \in ackTimers
  /\ ackTimers' = ackTimers \ {m}
  /\ outbox' = IF mobileOnline THEN outbox ELSE outbox \ {m}
  /\ UNCHANGED <<transportVars, up, history, seqOf, nextSeq, mobileOnline, flushed,
                 processed, pendingResets, fileVars, netVars, resetVars, ghostVars>>

\* Mutation: a message is sent again once.
AckTimerOnce(m) ==
  /\ up
  /\ m \in ackTimers
  /\ ackTimers' = ackTimers \ {m}
  /\ IF m \in outbox /\ mobileOnline /\ Connected THEN Sending({m}) ELSE UNCHANGED toPhone
  /\ UNCHANGED <<transportVars, up, outbox, history, seqOf, nextSeq, mobileOnline,
                 flushed, processed, pendingResets, fileVars, peer, news, acks,
                 toDesktop, acked, resetVars, ghostVars>>

\* The ACK timer of m fires and is set again while m is unacknowledged.
AckTimer(m) ==
  /\ up
  /\ m \in ackTimers
  /\ \/ /\ m \in outbox
        /\ IF mobileOnline /\ Connected THEN Sending({m}) ELSE UNCHANGED toPhone
        /\ UNCHANGED ackTimers
     \/ /\ m \notin outbox
        /\ ackTimers' = ackTimers \ {m}
        /\ UNCHANGED toPhone
  /\ UNCHANGED <<transportVars, up, outbox, history, seqOf, nextSeq, mobileOnline,
                 flushed, processed, pendingResets, fileVars, peer, news, acks,
                 toDesktop, acked, resetVars, ghostVars>>

\* The phone's ack for m.
ReceiveAck(m) ==
  /\ up
  /\ CanSend
  /\ m \in acks
  /\ acks' = acks \ {m}
  /\ outbox' = outbox \ {m}
  /\ ackTimers' = ackTimers \ {m}
  /\ saveDue' = TRUE
  /\ UNCHANGED <<transportVars, up, history, seqOf, nextSeq, mobileOnline, flushed,
                 processed, pendingResets, writing, snapshot, disk, crashes, peer,
                 news, toPhone, toDesktop, acked, resetVars, ghostVars>>

\* sync_req: the phone asks for what it missed after lastSeq and is sent what
\* the history has of it, except what the outbox will send again anyway.
SyncRequest(lastSeq) ==
  /\ up
  /\ CanSend
  /\ peer
  /\ Sending({m \in history \ outbox : seqOf[m] > lastSeq})
  /\ UNCHANGED <<transportVars, engineVars, fileVars, peer, news, acks, toDesktop,
                 acked, resetVars, ghostVars>>

\* flushOutbox(), unless it ran less than 3 s ago.
FlushOutbox ==
  \/ /\ outbox # {} /\ ~flushed
     /\ flushed' = TRUE
     /\ Sending(outbox)
  \/ /\ outbox = {} \/ flushed
     /\ UNCHANGED <<flushed, toPhone>>

\* The handler of peer_status.
HandlePeerStatus(online) ==
  /\ mobileOnline' = online
  /\ IF online THEN FlushOutbox ELSE UNCHANGED <<flushed, toPhone>>

PeerStatus ==
  /\ up
  /\ CanSend
  /\ news
  /\ news' = FALSE
  /\ HandlePeerStatus(peer)
  /\ UNCHANGED <<transportVars, up, outbox, history, seqOf, nextSeq, ackTimers,
                 processed, pendingResets, fileVars, peer, acks, toDesktop, acked,
                 resetVars, ghostVars>>

FlushWindowOver ==
  /\ flushed
  /\ flushed' = FALSE
  /\ UNCHANGED <<transportVars, up, outbox, history, seqOf, nextSeq, ackTimers,
                 mobileOnline, processed, pendingResets, fileVars, netVars,
                 resetVars, ghostVars>>
-----------------------------------------------------------------------------
(***************************************************************************)
(* The connection, as the engine hears of it.                              *)
(***************************************************************************)

LinkUp ==
  /\ up
  /\ Connect \/ Open
  /\ UNCHANGED <<engineVars, fileVars, netVars, resetVars, ghostVars>>

LinkDown ==
  /\ up
  /\ Close
  /\ mobileOnline' = FALSE
  /\ news' = FALSE
  /\ acks' = {}
  /\ toDesktop' = {}
  /\ UNCHANGED <<up, outbox, history, seqOf, nextSeq, ackTimers, flushed,
                 processed, pendingResets, fileVars, peer, toPhone, acked,
                 resetVars, ghostVars>>

\* rejoin_ack: the engine handles the peer status it carries while send() is
\* still barred.  When the phone's status is changing it may carry either.
RejoinAck ==
  /\ up
  /\ \E online \in {peer} \cup (IF news THEN {~peer} ELSE {}) : HandlePeerStatus(online)
  /\ Rejoined
  /\ UNCHANGED <<up, outbox, history, seqOf, nextSeq, ackTimers, processed,
                 pendingResets, fileVars, peer, news, acks, toDesktop, acked,
                 resetVars, ghostVars>>
-----------------------------------------------------------------------------
(***************************************************************************)
(* Inbound messages and session resets.                                    *)
(***************************************************************************)

\* markProcessed(): the oldest id goes when there are too many.
MarkProcessed(i) ==
  LET order == Append(processed, i)
  IN  processed' = IF Len(order) > ProcessedLimit THEN Tail(order) ELSE order

\* The agent is given message i.
Dispatch(i) ==
  /\ dispatches < MaxDispatches
  /\ MarkProcessed(i)
  /\ dispatched' = [dispatched EXCEPT ![i] = @ + 1]
  /\ dispatches' = dispatches + 1

\* A message of the phone where known says whether its id is: it is
\* acknowledged, which the network may lose, and given to the agent unless
\* known.  The agent's replies are queued later.
Receive(i, known) ==
  /\ up
  /\ CanSend
  /\ i \in toDesktop
  /\ toDesktop' = toDesktop \ {i}
  /\ acked' \in {acked, acked \cup {i}}
  /\ IF known THEN UNCHANGED <<processed, dispatched, dispatches>> ELSE Dispatch(i)
  /\ UNCHANGED <<transportVars, up, outbox, history, seqOf, nextSeq, ackTimers,
                 mobileOnline, flushed, pendingResets, fileVars, peer, news,
                 toPhone, acks, resetVars, fresh, owed, saved>>

\* Mutation: the id is not looked up in processedIds.
ReceiveMsgUnchecked(i) == Receive(i, FALSE)

ReceiveMsg(i) == Receive(i, i \in Range(processed))

\* reset_req: the desktop is asked to reset the agent's session, or cannot be:
\* what throws before the timer is set leaves none, a broadcast that throws,
\* and so reaches nobody, leaves the timer to answer once more.
ResetRequest(r) ==
  /\ up
  /\ CanSend
  /\ peer
  /\ session[r] = "none"
  /\ \/ /\ pendingResets' = pendingResets \cup {r}
        /\ session' = [session EXCEPT ![r] = "asked"]
        /\ UNCHANGED resetAcks
     \/ /\ pendingResets' \in {pendingResets, pendingResets \cup {r}}
        /\ session' = [session EXCEPT ![r] = "refused"]
        /\ resetAcks' = [resetAcks EXCEPT ![r] = @ \cup {FALSE}]
  /\ UNCHANGED <<transportVars, up, outbox, history, seqOf, nextSeq, ackTimers,
                 mobileOnline, flushed, processed, fileVars, netVars, ghostVars>>

\* The desktop's sessions.reset, in handleMobileSessionResetRequest().
DesktopReset(r) ==
  /\ session[r] = "asked"
  /\ \E outcome \in {"ok", "failed"} : session' = [session EXCEPT ![r] = outcome]
  /\ UNCHANGED <<transportVars, engineVars, fileVars, netVars, resetAcks, ghostVars>>

\* RESET_TIMEOUT_MS after the request.
ResetTimeout(r) ==
  /\ up
  /\ r \in pendingResets
  /\ pendingResets' = pendingResets \ {r}
  /\ resetAcks' = [resetAcks EXCEPT ![r] = @ \cup {FALSE}]
  /\ UNCHANGED <<transportVars, up, outbox, history, seqOf, nextSeq, ackTimers,
                 mobileOnline, flushed, processed, fileVars, netVars, session,
                 ghostVars>>

\* completeSessionReset() where known says whether the request is still open.
Complete(r, known) ==
  /\ up
  /\ session[r] \in {"ok", "failed"}
  /\ known
  /\ pendingResets' = pendingResets \ {r}
  /\ resetAcks' = [resetAcks EXCEPT ![r] = @ \cup {session[r] = "ok"}]
  /\ \/ /\ session[r] = "failed"
        /\ UNCHANGED <<outbox, history, processed, saveDue, owed>>
     \/ /\ session[r] = "ok"
        /\ outbox' = {}
        /\ history' = {}
        /\ processed' = <<>>
        /\ saveDue' = TRUE
        /\ owed' = {}
  /\ UNCHANGED <<transportVars, up, seqOf, nextSeq, ackTimers, mobileOnline,
                 flushed, writing, snapshot, disk, crashes, netVars, session,
                 fresh, saved, dispatched, dispatches>>

\* Mutation: the late result of a request that timed out is applied.
ResetResultLate(r) == Complete(r, TRUE)

\* The desktop's mobile_chat_reset_result; one for a request that timed out or
\* that an earlier engine made is refused.
ResetResult(r) == Complete(r, r \in pendingResets)
-----------------------------------------------------------------------------
(***************************************************************************)
(* The state file, crashes and restarts.                                   *)
(***************************************************************************)

\* The next save of saveChain begins: it takes what it writes, then truncates
\* and writes the file.
SaveBegin ==
  /\ up
  /\ saveDue
  /\ ~writing
  /\ saveDue' = FALSE
  /\ writing' = TRUE
  /\ snapshot' = [outbox |-> outbox, history |-> history]
  /\ UNCHANGED <<transportVars, engineVars, disk, crashes, netVars, resetVars,
                 ghostVars>>

\* How a write that began may leave the file: written, never opened, or cut,
\* since it is written in place.
Outcome ==
  \/ disk' = snapshot /\ saved' = saved \cup snapshot.outbox
  \/ UNCHANGED <<disk, saved>>
  \/ disk' = Empty /\ saved' = {}

\* The write ends; a failed one is logged.
SaveEnd ==
  /\ writing
  /\ writing' = FALSE
  /\ Outcome
  /\ snapshot' = Empty
  /\ UNCHANGED <<transportVars, engineVars, saveDue, crashes, netVars, resetVars,
                 fresh, owed, dispatched, dispatches>>

\* The gateway process dies with the engine and its socket.
Crash ==
  /\ up
  /\ crashes < MaxCrashes
  /\ crashes' = crashes + 1
  /\ up' = FALSE
  /\ link' = "down" /\ rejoinPending' = FALSE
  /\ outbox' = {} /\ history' = {} /\ ackTimers' = {}
  /\ nextSeq' = 1
  /\ mobileOnline' = FALSE /\ flushed' = FALSE
  /\ processed' = <<>> /\ pendingResets' = {}
  /\ saveDue' = FALSE /\ writing' = FALSE /\ snapshot' = Empty
  /\ IF writing THEN Outcome ELSE UNCHANGED <<disk, saved>>
  /\ news' = FALSE /\ acks' = {} /\ toDesktop' = {}
  /\ owed' = owed \cap saved'
  /\ UNCHANGED <<seqOf, peer, toPhone, acked, resetVars, fresh, dispatched,
                 dispatches>>

\* Mutation: nextSeq is not restored.
LoadForgettingSeq ==
  /\ outbox' = disk.outbox
  /\ history' = disk.history
  /\ ackTimers' = disk.outbox
  /\ UNCHANGED nextSeq

\* Mutation: the restored messages get no ACK timers.
LoadWithoutTimers ==
  /\ outbox' = disk.outbox
  /\ history' = disk.history
  /\ \E n \in {1} \cup {seqOf[m] + 1 : m \in disk.history} :
       /\ \A m \in disk.history : seqOf[m] < n
       /\ nextSeq' = n
  /\ UNCHANGED ackTimers

\* loadSyncState().
Load ==
  /\ outbox' = disk.outbox
  /\ history' = disk.history
  /\ ackTimers' = disk.outbox
  /\ \E n \in {1} \cup {seqOf[m] + 1 : m \in disk.history} :
       /\ \A m \in disk.history : seqOf[m] < n
       /\ nextSeq' = n

\* The gateway is back and the desktop starts the engine again.
Restart ==
  /\ ~up
  /\ up' = TRUE
  /\ Load
  /\ UNCHANGED <<transportVars, seqOf, mobileOnline, flushed, processed,
                 pendingResets, fileVars, netVars, resetVars, ghostVars>>
-----------------------------------------------------------------------------
(***************************************************************************)
(* The relay and the phone.                                                *)
(***************************************************************************)

\* The phone connects to the relay or leaves it; the relay tells the desktop.
PhoneMoves ==
  /\ peer' = ~peer
  /\ news' = Connected
  /\ UNCHANGED <<transportVars, engineVars, fileVars, toPhone, acks, toDesktop,
                 acked, resetVars, ghostVars>>

\* The phone gets a message and acknowledges it.
PhoneReceives(m) ==
  /\ peer
  /\ m \in toPhone
  /\ toPhone' = toPhone \ {m}
  /\ acks' = IF CanSend THEN acks \cup {m} ELSE acks
  /\ owed' = owed \ {m}
  /\ UNCHANGED <<transportVars, engineVars, fileVars, peer, news, toDesktop,
                 acked, resetVars, fresh, saved, dispatched, dispatches>>

\* The phone sends, or sends again, a message that was not acknowledged.
PhoneSends(i) ==
  /\ peer
  /\ CanSend
  /\ i \notin acked
  /\ i \notin toDesktop
  /\ toDesktop' = toDesktop \cup {i}
  /\ UNCHANGED <<transportVars, engineVars, fileVars, peer, news, toPhone, acks,
                 acked, resetVars, ghostVars>>

\* The relay loses a message, or an acknowledgement.
Lose ==
  /\ \/ \E m \in toPhone : toPhone' = toPhone \ {m} /\ UNCHANGED acks
     \/ \E m \in acks : acks' = acks \ {m} /\ UNCHANGED toPhone
  /\ UNCHANGED <<transportVars, engineVars, fileVars, peer, news, toDesktop, acked,
                 resetVars, ghostVars>>
-----------------------------------------------------------------------------
Next ==
  \/ \E m \in Msgs : \/ QueueOutbound(m) \/ AckTimer(m) \/ ReceiveAck(m)
                     \/ PhoneReceives(m)
  \/ \E i \in Inbound : ReceiveMsg(i) \/ PhoneSends(i)
  \/ \E r \in Resets : \/ ResetRequest(r) \/ DesktopReset(r) \/ ResetTimeout(r)
                       \/ ResetResult(r)
  \/ \E lastSeq \in 0..nextSeq : SyncRequest(lastSeq)
  \/ PeerStatus \/ FlushWindowOver
  \/ LinkUp \/ LinkDown \/ RejoinAck
  \/ SaveBegin \/ SaveEnd \/ Crash \/ Restart
  \/ PhoneMoves \/ Lose

Spec == Init /\ [][Next]_vars

\* Timers fire, sockets that can connect do, and a frame that is sent again
\* and again is not lost every time.
FairSpec ==
  /\ Spec
  /\ WF_vars(LinkUp) /\ WF_vars(RejoinAck) /\ WF_vars(PeerStatus)
  /\ WF_vars(Restart)
  /\ \A m \in Msgs : /\ WF_vars(AckTimer(m))
                     /\ SF_vars(PhoneReceives(m))
                     /\ SF_vars(ReceiveAck(m))
-----------------------------------------------------------------------------
TypeOK ==
  /\ TransportTypeOK
  /\ up \in BOOLEAN
  /\ outbox \in SUBSET Msgs /\ Cardinality(outbox) <= OutboxLimit
  /\ history \in SUBSET Msgs /\ Cardinality(history) <= HistoryLimit
  /\ seqOf \in [Msgs -> Nat]
  /\ nextSeq \in Nat \ {0}
  /\ ackTimers \in SUBSET Msgs
  /\ mobileOnline \in BOOLEAN
  /\ flushed \in BOOLEAN
  /\ processed \in Seq(Inbound) /\ Len(processed) <= ProcessedLimit
  /\ pendingResets \in SUBSET Resets
  /\ saveDue \in BOOLEAN
  /\ writing \in BOOLEAN
  /\ snapshot \in [outbox : SUBSET Msgs, history : SUBSET Msgs]
  /\ disk \in [outbox : SUBSET Msgs, history : SUBSET Msgs]
  /\ crashes \in 0..MaxCrashes
  /\ peer \in BOOLEAN
  /\ news \in BOOLEAN
  /\ toPhone \in SUBSET Msgs
  /\ acks \in SUBSET Msgs
  /\ toDesktop \in SUBSET Inbound
  /\ acked \in SUBSET Inbound
  /\ session \in [Resets -> {"none", "asked", "refused", "ok", "failed"}]
  /\ resetAcks \in [Resets -> SUBSET BOOLEAN]
  /\ fresh \in SUBSET Msgs
  /\ owed \in SUBSET Msgs
  /\ saved \in SUBSET Msgs
  /\ dispatched \in [Inbound -> Nat]
  /\ dispatches \in 0..MaxDispatches

\* A message the phone has not got is kept until it has, whatever the relay
\* loses, however often the phone leaves and across crashes ("never drop an
\* unacked outbound message just because the peer was offline").  It is given
\* up only by the bounded outbox, by a session reset, and by a crash before a
\* completed save held it, or after a write was cut, whose remains the next
\* start takes for no file at all.
OwedIsKept == owed \subseteq IF up THEN outbox ELSE disk.outbox

\* Each message of the outbox has an ACK timer, restored ones included: there
\* is always somebody who will send it again.
RetryIsArmed == outbox \subseteq ackTimers

\* The messages the engine knows have different sequence numbers, all below
\* the next one, after restarts and resets too: "everything after lastSeq", the
\* phone's sync request, means the same to both sides.
SequenceIsMonotone ==
  up => /\ \A m \in outbox \cup history : seqOf[m] < nextSeq
        /\ \A m, n \in outbox \cup history : seqOf[m] = seqOf[n] => m = n

\* The answers to a reset request agree, and the phone is told that its session
\* was reset only if it was, although the timeout races the desktop's result
\* and survives a broadcast that failed.
ResetAnswersAgree ==
  \A r \in Resets : /\ Cardinality(resetAcks[r]) <= 1
                    /\ TRUE \in resetAcks[r] => session[r] = "ok"

\* However often the phone sends a message again, the agent gets it once, and
\* once more at most for each time the engine forgot all ids, in a reset the
\* phone was told of or in a crash, and for each ProcessedLimit other messages
\* the agent was given meanwhile.
DispatchedOncePerMemory ==
  \A i \in Inbound :
    LET forgot == crashes + Cardinality({r \in Resets : TRUE \in resetAcks[r]})
        others == dispatches - dispatched[i]
    IN  dispatched[i] * ProcessedLimit <= (1 + forgot) * ProcessedLimit + others

\* When the phone becomes reachable the outbox is sent to it ("peer_status
\* handler (below) flushes when mobile is confirmed reachable"), unless it was
\* flushed less than 3 s ago.
ReachablePhoneIsFlushed ==
  [][~mobileOnline /\ mobileOnline' /\ ~flushed => outbox \subseteq toPhone']_vars

\* If the desktop's and the phone's connections are good from some time on,
\* each outbox message is acknowledged, or given up by eviction or reset.
OutboxDrains ==
  (<>[](up /\ peer /\ link = "open")) =>
     \A m \in Msgs : (m \in outbox) ~> (m \notin outbox)
=============================================================================
