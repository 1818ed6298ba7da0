-------------------------- MODULE MobileSyncProofs --------------------------
(***************************************************************************)
(* The safety of the mobile synchronisation for every number of messages,  *)
(* requests and crashes and every limit of the outbox and of the history.  *)
(***************************************************************************)
EXTENDS MobileSync, FiniteSetTheorems, WellFoundedInduction,
        TLAPS

\* What is typed, without the limits.
Shapes ==
  /\ TransportTypeOK
  /\ up \in BOOLEAN
  /\ outbox \in SUBSET Msgs
  /\ history \in SUBSET Msgs
  /\ seqOf \in [Msgs -> Nat]
  /\ nextSeq \in Nat \ {0}
  /\ ackTimers \in SUBSET Msgs
  /\ mobileOnline \in BOOLEAN
  /\ flushed \in BOOLEAN
  /\ processed \in Seq(Inbound) /\ Len(processed) <= ProcessedLimit
  /\ pendingResets \in SUBSET Resets
  /\ saveDue \in BOOLEAN
  /\ writing \in BOOLEAN
  /\ snapshot \in [outbox : SUBSET Msgs, history : SUBSET Msgs]
  /\ disk \in [outbox : SUBSET Msgs, history : SUBSET Msgs]
  /\ crashes \in 0..MaxCrashes
  /\ peer \in BOOLEAN
  /\ news \in BOOLEAN
  /\ toPhone \in SUBSET Msgs
  /\ acks \in SUBSET Msgs
  /\ toDesktop \in SUBSET Inbound
  /\ acked \in SUBSET Inbound
  /\ session \in [Resets -> {"none", "asked", "refused", "ok", "failed"}]
  /\ resetAcks \in [Resets -> SUBSET BOOLEAN]
  /\ fresh \in SUBSET Msgs
  /\ owed \in SUBSET Msgs
  /\ saved \in SUBSET Msgs
  /\ dispatched \in [Inbound -> Nat]
  /\ dispatches \in 0..MaxDispatches

\* The containers, in memory, on their way to the file and in the file, are
\* within their limits.
Within(o, h) == Cardinality(o) <= OutboxLimit /\ Cardinality(h) <= HistoryLimit
AllWithin ==
  /\ Within(outbox, history)
  /\ Within(snapshot.outbox, snapshot.history)
  /\ Within(disk.outbox, disk.history)

\* A message that was not queued is nowhere.
FreshIsUnknown ==
  /\ fresh \cap outbox = {} /\ fresh \cap history = {}
  /\ fresh \cap snapshot.outbox = {} /\ fresh \cap snapshot.history = {}
  /\ fresh \cap disk.outbox = {} /\ fresh \cap disk.history = {}
  /\ fresh \cap saved = {}
  /\ fresh \cap toPhone = {} /\ fresh \cap acks = {}

\* An outbox o with a history h: sequence numbers differ and the newest is in
\* the history, from which nextSeq is restored.
Ordered(o, h) ==
  /\ \A m, n \in o \cup h : seqOf[m] = seqOf[n] => m = n
  /\ \A m \in o : \E n \in h : seqOf[m] <= seqOf[n]
AllOrdered ==
  /\ Ordered(outbox, history)
  /\ Ordered(snapshot.outbox, snapshot.history)
  /\ Ordered(disk.outbox, disk.history)
Below == up => \A m \in outbox \cup history : seqOf[m] < nextSeq

\* A message that a save held stays in every later save while it is owed.
SavedIsKept ==
  /\ acks \cap owed = {}
  /\ up => owed \subseteq outbox
  /\ ~up => owed \subseteq saved
  /\ owed \cap saved \subseteq disk.outbox
  /\ writing => up /\ owed \cap saved \subseteq snapshot.outbox

\* The answers given to a reset request.
Answers ==
  \A r \in Resets :
    /\ \/ resetAcks[r] = {}
       \/ resetAcks[r] = {FALSE}
       \/ resetAcks[r] = {TRUE} /\ session[r] = "ok"
    /\ session[r] = "none" => resetAcks[r] = {} /\ r \notin pendingResets
    /\ session[r] = "refused" => resetAcks[r] = {FALSE}
    /\ r \in pendingResets => resetAcks[r] = {} \/ session[r] = "refused"
-----------------------------------------------------------------------------
\* A finite set of numbered messages has an oldest one.
LEMMA OldestExists ==
  ASSUME NEW D, NEW sq \in [D -> Nat], NEW T \in SUBSET D, IsFiniteSet(T), T # {}
  PROVE  \E m \in T : \A n \in T : sq[m] <= sq[n]
<1> DEFINE Down(m) == {n \in T : sq[n] <= sq[m]}
           F == {Down(m) : m \in T}
<1>1. F \subseteq FiniteSubsetsOf(T)
  BY FS_Subset DEF FiniteSubsetsOf
<1>2. F # {}
  OBVIOUS
<1>3. PICK x \in F : \A y \in F : ~ (<<y, x>> \in StrictSubsetOrdering(T))
  <2> HIDE DEF F
  <2> QED BY <1>1, <1>2, FS_StrictSubsetOrderingWellFounded, WFMin
<1>4. PICK m \in T : x = Down(m)
  BY <1>3
<1>5. ASSUME NEW n \in T, sq[n] < sq[m]
      PROVE  FALSE
  <2>0. sq[n] \in Nat /\ sq[m] \in Nat
    OBVIOUS
  <2>1. Down(n) \subseteq Down(m)
    BY <1>5, <2>0
  <2>2. m \in Down(m) /\ m \notin Down(n)
    BY <1>5, <2>0
  <2>3. <<Down(n), Down(m)>> \in StrictSubsetOrdering(T)
    BY <2>1, <2>2 DEF StrictSubsetOrdering
  <2> QED
    BY <1>3, <1>4, <2>3
<1>6. \A n \in T : sq[n] \in Nat /\ sq[m] \in Nat
  OBVIOUS
<1> QED
  BY <1>5, <1>6
-----------------------------------------------------------------------------
\* The types hold initially.
LEMMA ShapesInit == Init => Shapes
<1> SUFFICES ASSUME Init PROVE Shapes
  OBVIOUS
<1>1. TransportTypeOK
  BY DEF Init, TransportInit, TransportTypeOK
<1>2. /\ 0 \in 0..MaxCrashes /\ 0 \in 0..MaxDispatches /\ 1 \in Nat \ {0}
      /\ <<>> \in Seq(Inbound) /\ Len(<<>>) <= ProcessedLimit
  BY BoundsAssumption, LimitsAssumption
<1>3. Empty \in [outbox : SUBSET Msgs, history : SUBSET Msgs]
  BY DEF Empty
<1>4. /\ seqOf \in [Msgs -> Nat]
      /\ session \in [Resets -> {"none", "asked", "refused", "ok", "failed"}]
      /\ resetAcks \in [Resets -> SUBSET BOOLEAN]
      /\ dispatched \in [Inbound -> Nat]
  BY DEF Init
<1> QED
  BY <1>1, <1>2, <1>3, <1>4 DEF Init, Shapes

\* A new id is remembered within the limit.
LEMMA MarkedWithin ==
  ASSUME processed \in Seq(Inbound), Len(processed) <= ProcessedLimit,
         NEW i \in Inbound, MarkProcessed(i)
  PROVE  processed' \in Seq(Inbound) /\ Len(processed') <= ProcessedLimit
<1> DEFINE order == Append(processed, i)
<1>1. /\ order \in Seq(Inbound) /\ Len(order) = Len(processed) + 1
      /\ Len(processed) \in Nat /\ ProcessedLimit \in Nat
  BY LimitsAssumption
<1>2. order # <<>>
  BY <1>1
<1>3. Tail(order) \in Seq(Inbound) /\ Len(Tail(order)) = Len(order) - 1
  <2> HIDE DEF order
  <2> QED
    BY <1>1, <1>2
<1>4. processed' = IF Len(order) > ProcessedLimit THEN Tail(order) ELSE order
  BY DEF MarkProcessed
<1> QED
  BY <1>1, <1>3, <1>4

\* Each step keeps the types.
LEMMA ShapesStep ==
  ASSUME Shapes, [Next]_vars
  PROVE  Shapes'
<1>1. ASSUME NEW m \in Msgs, QueueOutbound(m)
      PROVE  Shapes'
  BY <1>1 DEF Shapes, TransportTypeOK, CanSend, QueueOutbound, Sending, Bounded,
     transportVars, engineVars, fileVars, netVars, resetVars, ghostVars
<1>2. ASSUME NEW m \in Msgs, AckTimer(m)
      PROVE  Shapes'
  BY <1>2 DEF Shapes, TransportTypeOK, CanSend, AckTimer, Sending,
     transportVars, engineVars, fileVars, netVars, resetVars, ghostVars
<1>3. ASSUME NEW m \in Msgs, ReceiveAck(m)
      PROVE  Shapes'
  BY <1>3 DEF Shapes, TransportTypeOK, CanSend, ReceiveAck,
     transportVars, engineVars, fileVars, netVars, resetVars, ghostVars
<1>4. ASSUME NEW m \in Msgs, PhoneReceives(m)
      PROVE  Shapes'
  BY <1>4 DEF Shapes, TransportTypeOK, CanSend, PhoneReceives,
     transportVars, engineVars, fileVars, netVars, resetVars, ghostVars
<1>5. ASSUME NEW i \in Inbound, ReceiveMsg(i)
      PROVE  Shapes'
  <2>1. /\ processed' \in Seq(Inbound) /\ Len(processed') <= ProcessedLimit
        /\ dispatched' \in [Inbound -> Nat]
        /\ dispatches' \in 0..MaxDispatches
    <3>1. CASE i \in Range(processed)
      BY <1>5, <3>1 DEF Shapes, ReceiveMsg, Receive
    <3>2. CASE i \notin Range(processed)
      <4>1. Dispatch(i)
        BY <1>5, <3>2 DEF ReceiveMsg, Receive
      <4>2. processed' \in Seq(Inbound) /\ Len(processed') <= ProcessedLimit
        BY <4>1, MarkedWithin DEF Shapes, Dispatch
      <4>3. dispatched' \in [Inbound -> Nat] /\ dispatches' \in 0..MaxDispatches
        BY <4>1, BoundsAssumption DEF Shapes, Dispatch
      <4> QED
        BY <4>2, <4>3
    <3> QED
      BY <3>1, <3>2
  <2>2. toDesktop' \in SUBSET Inbound /\ acked' \in SUBSET Inbound
    BY <1>5 DEF Shapes, ReceiveMsg, Receive
  <2>3. UNCHANGED <<transportVars, up, outbox, history, seqOf, nextSeq, ackTimers,
                    mobileOnline, flushed, pendingResets, fileVars, peer, news,
                    toPhone, acks, resetVars, fresh, owed, saved>>
    BY <1>5 DEF ReceiveMsg, Receive
  <2> QED
    BY <2>1, <2>2, <2>3 DEF Shapes, TransportTypeOK, transportVars, fileVars, resetVars
<1>6. ASSUME NEW i \in Inbound, PhoneSends(i)
      PROVE  Shapes'
  BY <1>6 DEF Shapes, TransportTypeOK, CanSend, PhoneSends,
     transportVars, engineVars, fileVars, netVars, resetVars, ghostVars
<1>7. ASSUME NEW r \in Resets, ResetRequest(r)
      PROVE  Shapes'
  <2>0. resetAcks[r] \cup {FALSE} \in SUBSET BOOLEAN
    BY DEF Shapes
  <2>1. resetAcks' \in [Resets -> SUBSET BOOLEAN]
    <3>1. CASE resetAcks' = resetAcks
      BY <3>1 DEF Shapes
    <3>2. CASE resetAcks' = [resetAcks EXCEPT ![r] = resetAcks[r] \cup {FALSE}]
      BY <2>0, <3>2 DEF Shapes
    <3> QED
      BY <1>7, <3>1, <3>2 DEF ResetRequest
  <2>2. session' \in [Resets -> {"none", "asked", "refused", "ok", "failed"}]
    BY <1>7 DEF Shapes, ResetRequest
  <2>3. pendingResets' \in SUBSET Resets
    BY <1>7 DEF Shapes, ResetRequest
  <2>4. /\ UNCHANGED <<transportVars, up, outbox, history, seqOf, nextSeq, ackTimers>>
        /\ UNCHANGED <<mobileOnline, flushed, processed, fileVars, netVars, ghostVars>>
    BY <1>7 DEF ResetRequest
  <2> QED
    BY <2>1, <2>2, <2>3, <2>4
    DEF Shapes, TransportTypeOK, transportVars, fileVars, netVars, ghostVars
<1>8. ASSUME NEW r \in Resets, DesktopReset(r)
      PROVE  Shapes'
  BY <1>8 DEF Shapes, TransportTypeOK, CanSend, DesktopReset,
     transportVars, engineVars, fileVars, netVars, resetVars, ghostVars
<1>9. ASSUME NEW r \in Resets, ResetTimeout(r)
      PROVE  Shapes'
  BY <1>9 DEF Shapes, TransportTypeOK, CanSend, ResetTimeout,
     transportVars, engineVars, fileVars, netVars, resetVars, ghostVars
<1>10. ASSUME NEW r \in Resets, ResetResult(r)
       PROVE  Shapes'
  <2>1. resetAcks' \in [Resets -> SUBSET BOOLEAN]
    BY <1>10 DEF Shapes, ResetResult, Complete
  <2>2. processed' \in Seq(Inbound) /\ Len(processed') <= ProcessedLimit
    <3>1. processed' = processed \/ processed' = <<>>
      BY <1>10 DEF ResetResult, Complete
    <3>2. <<>> \in Seq(Inbound) /\ Len(<<>>) <= ProcessedLimit
      BY LimitsAssumption
    <3> QED
      BY <3>1, <3>2 DEF Shapes
  <2>3. /\ outbox' \in SUBSET Msgs /\ history' \in SUBSET Msgs /\ owed' \in SUBSET Msgs
        /\ saveDue' \in BOOLEAN /\ pendingResets' \in SUBSET Resets
    BY <1>10 DEF Shapes, ResetResult, Complete
  <2>4. UNCHANGED <<transportVars, up, seqOf, nextSeq, ackTimers, mobileOnline,
                    flushed, writing, snapshot, disk, crashes, netVars, session,
                    fresh, saved, dispatched, dispatches>>
    BY <1>10 DEF ResetResult, Complete
  <2> QED
    BY <2>1, <2>2, <2>3, <2>4 DEF Shapes, TransportTypeOK, transportVars, netVars
<1>11. ASSUME NEW s \in 0..nextSeq, SyncRequest(s)
       PROVE  Shapes'
  BY <1>11 DEF Shapes, TransportTypeOK, CanSend, SyncRequest, Sending,
     transportVars, engineVars, fileVars, netVars, resetVars, ghostVars
<1>12. ASSUME PeerStatus
       PROVE  Shapes'
  BY <1>12 DEF Shapes, TransportTypeOK, CanSend, PeerStatus, HandlePeerStatus, FlushOutbox, Sending,
     transportVars, engineVars, fileVars, netVars, resetVars, ghostVars
<1>13. ASSUME FlushWindowOver
       PROVE  Shapes'
  BY <1>13 DEF Shapes, TransportTypeOK, CanSend, FlushWindowOver,
     transportVars, engineVars, fileVars, netVars, resetVars, ghostVars
<1>14. ASSUME LinkUp
       PROVE  Shapes'
  <2>1. link' \in {"connecting", "open"} /\ rejoinPending' \in BOOLEAN
    BY <1>14 DEF Shapes, TransportTypeOK, LinkUp, Connect, Open
  <2>2. rejoinPending' => link' = "open"
    BY <1>14 DEF Shapes, TransportTypeOK, LinkUp, Connect, Open
  <2>3. TransportTypeOK'
    BY <2>1, <2>2 DEF TransportTypeOK
  <2>4. UNCHANGED <<engineVars, fileVars, netVars, resetVars, ghostVars>>
    BY <1>14 DEF LinkUp
  <2> QED
    BY <2>3, <2>4 DEF Shapes, engineVars, fileVars, netVars, resetVars, ghostVars
<1>15. ASSUME LinkDown
       PROVE  Shapes'
  BY <1>15 DEF Shapes, TransportTypeOK, CanSend, LinkDown, Close,
     transportVars, engineVars, fileVars, netVars, resetVars, ghostVars
<1>16. ASSUME RejoinAck
       PROVE  Shapes'
  BY <1>16 DEF Shapes, TransportTypeOK, CanSend, RejoinAck, HandlePeerStatus, FlushOutbox, Sending, Rejoined,
     transportVars, engineVars, fileVars, netVars, resetVars, ghostVars
<1>17. ASSUME SaveBegin
       PROVE  Shapes'
  BY <1>17 DEF Shapes, TransportTypeOK, CanSend, SaveBegin,
     transportVars, engineVars, fileVars, netVars, resetVars, ghostVars
<1>18. ASSUME SaveEnd
       PROVE  Shapes'
  <2>1. /\ disk' \in [outbox : SUBSET Msgs, history : SUBSET Msgs]
        /\ snapshot' \in [outbox : SUBSET Msgs, history : SUBSET Msgs]
    BY <1>18 DEF Shapes, SaveEnd, Outcome, Empty
  <2>2. saved' \in SUBSET Msgs
    BY <1>18 DEF Shapes, SaveEnd, Outcome
  <2>3. writing' \in BOOLEAN
    BY <1>18 DEF SaveEnd
  <2>4. UNCHANGED <<transportVars, engineVars, saveDue, crashes, netVars, resetVars,
                    fresh, owed, dispatched, dispatches>>
    BY <1>18 DEF SaveEnd
  <2> QED
    BY <2>1, <2>2, <2>3, <2>4 DEF Shapes, TransportTypeOK, transportVars,
       engineVars, netVars, resetVars
<1>19. ASSUME Crash
       PROVE  Shapes'
  <2>1. crashes' \in 0..MaxCrashes
    BY <1>19, BoundsAssumption DEF Shapes, Crash
  <2>2. /\ disk' \in [outbox : SUBSET Msgs, history : SUBSET Msgs]
        /\ snapshot' \in [outbox : SUBSET Msgs, history : SUBSET Msgs]
    BY <1>19 DEF Shapes, Crash, Outcome, Empty
  <2>8. saved' \in SUBSET Msgs
    BY <1>19 DEF Shapes, Crash, Outcome
  <2>3. TransportTypeOK'
    BY <1>19 DEF Crash, TransportTypeOK
  <2>4. /\ up' = FALSE /\ mobileOnline' = FALSE /\ flushed' = FALSE
        /\ saveDue' = FALSE /\ writing' = FALSE /\ news' = FALSE
        /\ outbox' = {} /\ history' = {} /\ ackTimers' = {} /\ acks' = {}
        /\ processed' = <<>> /\ pendingResets' = {} /\ toDesktop' = {}
        /\ nextSeq' = 1 /\ owed' = owed \cap saved'
    BY <1>19 DEF Crash
  <2>5. UNCHANGED <<seqOf, peer, toPhone, acked, session, resetAcks, fresh,
                    dispatched, dispatches>>
    BY <1>19 DEF Crash, resetVars
  <2>6. /\ up' \in BOOLEAN /\ mobileOnline' \in BOOLEAN /\ flushed' \in BOOLEAN
        /\ saveDue' \in BOOLEAN /\ writing' \in BOOLEAN /\ news' \in BOOLEAN
    BY <2>4
  <2>7. /\ nextSeq' \in Nat \ {0}
        /\ owed' \in SUBSET Msgs
    BY <2>4 DEF Shapes
  <2>9. processed' \in Seq(Inbound) /\ Len(processed') <= ProcessedLimit
    BY <2>4, LimitsAssumption
  <2> QED
    BY <2>1, <2>2, <2>3, <2>4, <2>5, <2>6, <2>7, <2>8, <2>9 DEF Shapes
<1>20. ASSUME Restart
       PROVE  Shapes'
  BY <1>20 DEF Shapes, TransportTypeOK, CanSend, Restart, Load,
     transportVars, engineVars, fileVars, netVars, resetVars, ghostVars
<1>21. ASSUME PhoneMoves
       PROVE  Shapes'
  BY <1>21 DEF Shapes, TransportTypeOK, Connected, PhoneMoves,
     transportVars, engineVars, fileVars, resetVars, ghostVars
<1>22. ASSUME Lose
       PROVE  Shapes'
  BY <1>22 DEF Shapes, TransportTypeOK, CanSend, Lose,
     transportVars, engineVars, fileVars, netVars, resetVars, ghostVars
<1>23. CASE UNCHANGED vars
  BY <1>23 DEF Shapes, TransportTypeOK, CanSend, vars,
     transportVars, engineVars, fileVars, netVars, resetVars, ghostVars
<1> QED
  BY <1>1, <1>2, <1>3, <1>4, <1>5, <1>6, <1>7, <1>8, <1>9, <1>10, <1>11,
     <1>12, <1>13, <1>14, <1>15, <1>16, <1>17, <1>18, <1>19, <1>20, <1>21,
     <1>22, <1>23 DEF Next

\* Each step keeps the retry armed.
LEMMA RetryIsArmedStep ==
  ASSUME RetryIsArmed, [Next]_vars
  PROVE  RetryIsArmed'
<1>1. ASSUME NEW m \in Msgs, QueueOutbound(m)
      PROVE  RetryIsArmed'
  BY <1>1 DEF RetryIsArmed, QueueOutbound, Sending, Bounded,
     transportVars, engineVars, fileVars, netVars, resetVars, ghostVars
<1>2. ASSUME NEW m \in Msgs, AckTimer(m)
      PROVE  RetryIsArmed'
  BY <1>2 DEF RetryIsArmed, AckTimer, Sending,
     transportVars, engineVars, fileVars, netVars, resetVars, ghostVars
<1>3. ASSUME NEW m \in Msgs, ReceiveAck(m)
      PROVE  RetryIsArmed'
  BY <1>3 DEF RetryIsArmed, ReceiveAck,
     transportVars, engineVars, fileVars, netVars, resetVars, ghostVars
<1>4. ASSUME NEW m \in Msgs, PhoneReceives(m)
      PROVE  RetryIsArmed'
  BY <1>4 DEF RetryIsArmed, PhoneReceives,
     transportVars, engineVars, fileVars, netVars, resetVars, ghostVars
<1>5. ASSUME NEW i \in Inbound, ReceiveMsg(i)
      PROVE  RetryIsArmed'
  BY <1>5 DEF RetryIsArmed, ReceiveMsg, Receive, Dispatch,
     transportVars, engineVars, fileVars, netVars, resetVars, ghostVars
<1>6. ASSUME NEW i \in Inbound, PhoneSends(i)
      PROVE  RetryIsArmed'
  BY <1>6 DEF RetryIsArmed, PhoneSends,
     transportVars, engineVars, fileVars, netVars, resetVars, ghostVars
<1>7. ASSUME NEW r \in Resets, ResetRequest(r)
      PROVE  RetryIsArmed'
  BY <1>7 DEF RetryIsArmed, ResetRequest,
     transportVars, engineVars, fileVars, netVars, resetVars, ghostVars
<1>8. ASSUME NEW r \in Resets, DesktopReset(r)
      PROVE  RetryIsArmed'
  BY <1>8 DEF RetryIsArmed, DesktopReset,
     transportVars, engineVars, fileVars, netVars, resetVars, ghostVars
<1>9. ASSUME NEW r \in Resets, ResetTimeout(r)
      PROVE  RetryIsArmed'
  BY <1>9 DEF RetryIsArmed, ResetTimeout,
     transportVars, engineVars, fileVars, netVars, resetVars, ghostVars
<1>10. ASSUME NEW r \in Resets, ResetResult(r)
       PROVE  RetryIsArmed'
  BY <1>10 DEF RetryIsArmed, ResetResult, Complete,
     transportVars, engineVars, fileVars, netVars, resetVars, ghostVars
<1>11. ASSUME NEW s \in 0..nextSeq, SyncRequest(s)
       PROVE  RetryIsArmed'
  BY <1>11 DEF RetryIsArmed, SyncRequest, Sending,
     transportVars, engineVars, fileVars, netVars, resetVars, ghostVars
<1>12. ASSUME PeerStatus
       PROVE  RetryIsArmed'
  BY <1>12 DEF RetryIsArmed, PeerStatus, HandlePeerStatus, FlushOutbox, Sending,
     transportVars, engineVars, fileVars, netVars, resetVars, ghostVars
<1>13. ASSUME FlushWindowOver
       PROVE  RetryIsArmed'
  BY <1>13 DEF RetryIsArmed, FlushWindowOver,
     transportVars, engineVars, fileVars, netVars, resetVars, ghostVars
<1>14. ASSUME LinkUp
       PROVE  RetryIsArmed'
  BY <1>14 DEF RetryIsArmed, LinkUp, Connect, Open,
     transportVars, engineVars, fileVars, netVars, resetVars, ghostVars
<1>15. ASSUME LinkDown
       PROVE  RetryIsArmed'
  BY <1>15 DEF RetryIsArmed, LinkDown, Close,
     transportVars, engineVars, fileVars, netVars, resetVars, ghostVars
<1>16. ASSUME RejoinAck
       PROVE  RetryIsArmed'
  BY <1>16 DEF RetryIsArmed, RejoinAck, HandlePeerStatus, FlushOutbox, Sending, Rejoined,
     transportVars, engineVars, fileVars, netVars, resetVars, ghostVars
<1>17. ASSUME SaveBegin
       PROVE  RetryIsArmed'
  BY <1>17 DEF RetryIsArmed, SaveBegin,
     transportVars, engineVars, fileVars, netVars, resetVars, ghostVars
<1>18. ASSUME SaveEnd
       PROVE  RetryIsArmed'
  BY <1>18 DEF RetryIsArmed, SaveEnd, Outcome, Empty,
     transportVars, engineVars, fileVars, netVars, resetVars, ghostVars
<1>19. ASSUME Crash
       PROVE  RetryIsArmed'
  BY <1>19 DEF RetryIsArmed, Crash, Outcome, Empty,
     transportVars, engineVars, fileVars, netVars, resetVars, ghostVars
<1>20. ASSUME Restart
       PROVE  RetryIsArmed'
  BY <1>20 DEF RetryIsArmed, Restart, Load,
     transportVars, engineVars, fileVars, netVars, resetVars, ghostVars
<1>21. ASSUME PhoneMoves
       PROVE  RetryIsArmed'
  BY <1>21 DEF RetryIsArmed, PhoneMoves,
     transportVars, engineVars, fileVars, netVars, resetVars, ghostVars
<1>22. ASSUME Lose
       PROVE  RetryIsArmed'
  BY <1>22 DEF RetryIsArmed, Lose,
     transportVars, engineVars, fileVars, netVars, resetVars, ghostVars
<1>23. CASE UNCHANGED vars
  BY <1>23 DEF RetryIsArmed, vars,
     transportVars, engineVars, fileVars, netVars, resetVars, ghostVars
<1> QED
  BY <1>1, <1>2, <1>3, <1>4, <1>5, <1>6, <1>7, <1>8, <1>9, <1>10, <1>11,
     <1>12, <1>13, <1>14, <1>15, <1>16, <1>17, <1>18, <1>19, <1>20, <1>21,
     <1>22, <1>23 DEF Next

\* Each step keeps new ids unknown.
LEMMA FreshIsUnknownStep ==
  ASSUME Shapes, FreshIsUnknown, [Next]_vars
  PROVE  FreshIsUnknown'
<1>1. ASSUME NEW m \in Msgs, QueueOutbound(m)
      PROVE  FreshIsUnknown'
  BY <1>1 DEF FreshIsUnknown, QueueOutbound, Sending, Bounded,
     transportVars, engineVars, fileVars, netVars, resetVars, ghostVars
<1>2. ASSUME NEW m \in Msgs, AckTimer(m)
      PROVE  FreshIsUnknown'
  BY <1>2 DEF FreshIsUnknown, AckTimer, Sending,
     transportVars, engineVars, fileVars, netVars, resetVars, ghostVars
<1>3. ASSUME NEW m \in Msgs, ReceiveAck(m)
      PROVE  FreshIsUnknown'
  BY <1>3 DEF FreshIsUnknown, ReceiveAck,
     transportVars, engineVars, fileVars, netVars, resetVars, ghostVars
<1>4. ASSUME NEW m \in Msgs, PhoneReceives(m)
      PROVE  FreshIsUnknown'
  BY <1>4 DEF FreshIsUnknown, PhoneReceives,
     transportVars, engineVars, fileVars, netVars, resetVars, ghostVars
<1>5. ASSUME NEW i \in Inbound, ReceiveMsg(i)
      PROVE  FreshIsUnknown'
  BY <1>5 DEF FreshIsUnknown, ReceiveMsg, Receive, Dispatch,
     transportVars, engineVars, fileVars, netVars, resetVars, ghostVars
<1>6. ASSUME NEW i \in Inbound, PhoneSends(i)
      PROVE  FreshIsUnknown'
  BY <1>6 DEF FreshIsUnknown, PhoneSends,
     transportVars, engineVars, fileVars, netVars, resetVars, ghostVars
<1>7. ASSUME NEW r \in Resets, ResetRequest(r)
      PROVE  FreshIsUnknown'
  BY <1>7 DEF FreshIsUnknown, ResetRequest,
     transportVars, engineVars, fileVars, netVars, resetVars, ghostVars
<1>8. ASSUME NEW r \in Resets, DesktopReset(r)
      PROVE  FreshIsUnknown'
  BY <1>8 DEF FreshIsUnknown, DesktopReset,
     transportVars, engineVars, fileVars, netVars, resetVars, ghostVars
<1>9. ASSUME NEW r \in Resets, ResetTimeout(r)
      PROVE  FreshIsUnknown'
  BY <1>9 DEF FreshIsUnknown, ResetTimeout,
     transportVars, engineVars, fileVars, netVars, resetVars, ghostVars
<1>10. ASSUME NEW r \in Resets, ResetResult(r)
       PROVE  FreshIsUnknown'
  BY <1>10 DEF FreshIsUnknown, ResetResult, Complete,
     transportVars, engineVars, fileVars, netVars, resetVars, ghostVars
<1>11. ASSUME NEW s \in 0..nextSeq, SyncRequest(s)
       PROVE  FreshIsUnknown'
  BY <1>11 DEF FreshIsUnknown, SyncRequest, Sending,
     transportVars, engineVars, fileVars, netVars, resetVars, ghostVars
<1>12. ASSUME PeerStatus
       PROVE  FreshIsUnknown'
  BY <1>12 DEF FreshIsUnknown, PeerStatus, HandlePeerStatus, FlushOutbox, Sending,
     transportVars, engineVars, fileVars, netVars, resetVars, ghostVars
<1>13. ASSUME FlushWindowOver
       PROVE  FreshIsUnknown'
  BY <1>13 DEF FreshIsUnknown, FlushWindowOver,
     transportVars, engineVars, fileVars, netVars, resetVars, ghostVars
<1>14. ASSUME LinkUp
       PROVE  FreshIsUnknown'
  BY <1>14 DEF FreshIsUnknown, LinkUp, Connect, Open,
     transportVars, engineVars, fileVars, netVars, resetVars, ghostVars
<1>15. ASSUME LinkDown
       PROVE  FreshIsUnknown'
  BY <1>15 DEF FreshIsUnknown, LinkDown, Close,
     transportVars, engineVars, fileVars, netVars, resetVars, ghostVars
<1>16. ASSUME RejoinAck
       PROVE  FreshIsUnknown'
  BY <1>16 DEF FreshIsUnknown, RejoinAck, HandlePeerStatus, FlushOutbox, Sending, Rejoined,
     transportVars, engineVars, fileVars, netVars, resetVars, ghostVars
<1>17. ASSUME SaveBegin
       PROVE  FreshIsUnknown'
  BY <1>17 DEF FreshIsUnknown, SaveBegin,
     transportVars, engineVars, fileVars, netVars, resetVars, ghostVars
<1>18. ASSUME SaveEnd
       PROVE  FreshIsUnknown'
  BY <1>18 DEF FreshIsUnknown, SaveEnd, Outcome, Empty,
     transportVars, engineVars, fileVars, netVars, resetVars, ghostVars
<1>19. ASSUME Crash
       PROVE  FreshIsUnknown'
  BY <1>19 DEF FreshIsUnknown, Crash, Outcome, Empty,
     transportVars, engineVars, fileVars, netVars, resetVars, ghostVars
<1>20. ASSUME Restart
       PROVE  FreshIsUnknown'
  BY <1>20 DEF FreshIsUnknown, Restart, Load,
     transportVars, engineVars, fileVars, netVars, resetVars, ghostVars
<1>21. ASSUME PhoneMoves
       PROVE  FreshIsUnknown'
  BY <1>21 DEF FreshIsUnknown, PhoneMoves,
     transportVars, engineVars, fileVars, netVars, resetVars, ghostVars
<1>22. ASSUME Lose
       PROVE  FreshIsUnknown'
  BY <1>22 DEF FreshIsUnknown, Lose,
     transportVars, engineVars, fileVars, netVars, resetVars, ghostVars
<1>23. CASE UNCHANGED vars
  BY <1>23 DEF FreshIsUnknown, vars,
     transportVars, engineVars, fileVars, netVars, resetVars, ghostVars
<1> QED
  BY <1>1, <1>2, <1>3, <1>4, <1>5, <1>6, <1>7, <1>8, <1>9, <1>10, <1>11,
     <1>12, <1>13, <1>14, <1>15, <1>16, <1>17, <1>18, <1>19, <1>20, <1>21,
     <1>22, <1>23 DEF Next

\* Each step keeps the answers to a reset request in agreement.
LEMMA AnswersStep ==
  ASSUME Shapes, Answers, [Next]_vars
  PROVE  Answers'
<1>1. ASSUME NEW m \in Msgs, QueueOutbound(m)
      PROVE  Answers'
  BY <1>1 DEF Answers, Shapes, QueueOutbound, Sending, Bounded,
     transportVars, engineVars, fileVars, netVars, resetVars, ghostVars
<1>2. ASSUME NEW m \in Msgs, AckTimer(m)
      PROVE  Answers'
  BY <1>2 DEF Answers, Shapes, AckTimer, Sending,
     transportVars, engineVars, fileVars, netVars, resetVars, ghostVars
<1>3. ASSUME NEW m \in Msgs, ReceiveAck(m)
      PROVE  Answers'
  BY <1>3 DEF Answers, Shapes, ReceiveAck,
     transportVars, engineVars, fileVars, netVars, resetVars, ghostVars
<1>4. ASSUME NEW m \in Msgs, PhoneReceives(m)
      PROVE  Answers'
  BY <1>4 DEF Answers, Shapes, PhoneReceives,
     transportVars, engineVars, fileVars, netVars, resetVars, ghostVars
<1>5. ASSUME NEW i \in Inbound, ReceiveMsg(i)
      PROVE  Answers'
  BY <1>5 DEF Answers, Shapes, ReceiveMsg, Receive, Dispatch,
     transportVars, engineVars, fileVars, netVars, resetVars, ghostVars
<1>6. ASSUME NEW i \in Inbound, PhoneSends(i)
      PROVE  Answers'
  BY <1>6 DEF Answers, Shapes, PhoneSends,
     transportVars, engineVars, fileVars, netVars, resetVars, ghostVars
<1>7. ASSUME NEW r \in Resets, ResetRequest(r)
      PROVE  Answers'
  <2>1. resetAcks[r] = {} /\ session[r] = "none"
    BY <1>7 DEF Answers, ResetRequest
  <2>2. \A q \in Resets : q # r =>
          /\ resetAcks'[q] = resetAcks[q]
          /\ session'[q] = session[q]
          /\ q \in pendingResets' => q \in pendingResets
    BY <1>7 DEF Shapes, ResetRequest
  <2>3. \/ /\ resetAcks'[r] = {} /\ session'[r] = "asked"
        \/ /\ resetAcks'[r] = {FALSE} /\ session'[r] = "refused"
    <3>1. CASE /\ session' = [session EXCEPT ![r] = "asked"]
               /\ UNCHANGED resetAcks
      BY <2>1, <3>1 DEF Shapes
    <3>2. CASE /\ resetAcks' = [resetAcks EXCEPT ![r] = @ \cup {FALSE}]
               /\ session' = [session EXCEPT ![r] = "refused"]
      <4>1. resetAcks'[r] = {FALSE}
        BY <2>1, <3>2 DEF Shapes
      <4>2. session'[r] = "refused"
        BY <3>2 DEF Shapes
      <4> QED
        BY <4>1, <4>2
    <3> QED
      BY <1>7, <3>1, <3>2 DEF ResetRequest
  <2> QED
    BY <2>2, <2>3 DEF Answers
<1>8. ASSUME NEW r \in Resets, DesktopReset(r)
      PROVE  Answers'
  BY <1>8 DEF Answers, Shapes, DesktopReset,
     transportVars, engineVars, fileVars, netVars, resetVars, ghostVars
<1>9. ASSUME NEW r \in Resets, ResetTimeout(r)
      PROVE  Answers'
  BY <1>9 DEF Answers, Shapes, ResetTimeout,
     transportVars, engineVars, fileVars, netVars, resetVars, ghostVars
<1>10. ASSUME NEW r \in Resets, ResetResult(r)
       PROVE  Answers'
  BY <1>10 DEF Answers, Shapes, ResetResult, Complete,
     transportVars, engineVars, fileVars, netVars, resetVars, ghostVars
<1>11. ASSUME NEW s \in 0..nextSeq, SyncRequest(s)
       PROVE  Answers'
  BY <1>11 DEF Answers, Shapes, SyncRequest, Sending,
     transportVars, engineVars, fileVars, netVars, resetVars, ghostVars
<1>12. ASSUME PeerStatus
       PROVE  Answers'
  BY <1>12 DEF Answers, Shapes, PeerStatus, HandlePeerStatus, FlushOutbox, Sending,
     transportVars, engineVars, fileVars, netVars, resetVars, ghostVars
<1>13. ASSUME FlushWindowOver
       PROVE  Answers'
  BY <1>13 DEF Answers, Shapes, FlushWindowOver,
     transportVars, engineVars, fileVars, netVars, resetVars, ghostVars
<1>14. ASSUME LinkUp
       PROVE  Answers'
  BY <1>14 DEF Answers, Shapes, LinkUp, Connect, Open,
     transportVars, engineVars, fileVars, netVars, resetVars, ghostVars
<1>15. ASSUME LinkDown
       PROVE  Answers'
  BY <1>15 DEF Answers, Shapes, LinkDown, Close,
     transportVars, engineVars, fileVars, netVars, resetVars, ghostVars
<1>16. ASSUME RejoinAck
       PROVE  Answers'
  BY <1>16 DEF Answers, Shapes, RejoinAck, HandlePeerStatus, FlushOutbox, Sending, Rejoined,
     transportVars, engineVars, fileVars, netVars, resetVars, ghostVars
<1>17. ASSUME SaveBegin
       PROVE  Answers'
  BY <1>17 DEF Answers, Shapes, SaveBegin,
     transportVars, engineVars, fileVars, netVars, resetVars, ghostVars
<1>18. ASSUME SaveEnd
       PROVE  Answers'
  BY <1>18 DEF Answers, Shapes, SaveEnd, Outcome, Empty,
     transportVars, engineVars, fileVars, netVars, resetVars, ghostVars
<1>19. ASSUME Crash
       PROVE  Answers'
  BY <1>19 DEF Answers, Shapes, Crash, Outcome, Empty,
     transportVars, engineVars, fileVars, netVars, resetVars, ghostVars
<1>20. ASSUME Restart
       PROVE  Answers'
  BY <1>20 DEF Answers, Shapes, Restart, Load,
     transportVars, engineVars, fileVars, netVars, resetVars, ghostVars
<1>21. ASSUME PhoneMoves
       PROVE  Answers'
  BY <1>21 DEF Answers, Shapes, PhoneMoves,
     transportVars, engineVars, fileVars, netVars, resetVars, ghostVars
<1>22. ASSUME Lose
       PROVE  Answers'
  BY <1>22 DEF Answers, Shapes, Lose,
     transportVars, engineVars, fileVars, netVars, resetVars, ghostVars
<1>23. CASE UNCHANGED vars
  BY <1>23 DEF Answers, Shapes, vars,
     transportVars, engineVars, fileVars, netVars, resetVars, ghostVars
<1> QED
  BY <1>1, <1>2, <1>3, <1>4, <1>5, <1>6, <1>7, <1>8, <1>9, <1>10, <1>11,
     <1>12, <1>13, <1>14, <1>15, <1>16, <1>17, <1>18, <1>19, <1>20, <1>21,
     <1>22, <1>23 DEF Next

-----------------------------------------------------------------------------
(***************************************************************************)
(* Bounded containers and sequence numbers.                                *)
(***************************************************************************)

\* A message with the highest number is kept when a container is trimmed, and
\* trimming brings a container that is one too large back to its limit.
LEMMA TrimmedWell ==
  ASSUME Shapes', NEW S \in SUBSET Msgs, NEW m \in Msgs, m \notin S,
         NEW limit \in Nat \ {0}, Cardinality(S) <= limit,
         \A n \in S : seqOf'[n] < seqOf'[m]
  PROVE  /\ m \in Bounded(S \cup {m}, limit)
         /\ Bounded(S \cup {m}, limit) \subseteq S \cup {m}
         /\ Cardinality(Bounded(S \cup {m}, limit)) <= limit
<1> DEFINE T == S \cup {m}
<1>1. IsFiniteSet(S) /\ IsFiniteSet(T)
  BY MsgsAssumption, FS_Subset, FS_AddElement
<1>2. Cardinality(S) \in Nat /\ Cardinality(T) = Cardinality(S) + 1
  BY <1>1, FS_CardinalityType, FS_AddElement
<1>3. CASE Cardinality(T) <= limit
  BY <1>2, <1>3 DEF Bounded
<1>4. CASE Cardinality(T) > limit
  <2>1. Bounded(T, limit) = T \ Oldest(T)
    BY <1>4 DEF Bounded
  <2>2. S # {}
    <3>1. S = {} => Cardinality(S) = 0
      BY FS_EmptySet
    <3> QED
      BY <1>2, <1>4, <3>1
  <2>3. m \notin Oldest(T)
    BY <2>2 DEF Oldest, Shapes
  <2>4. PICK k \in T : \A n \in T : seqOf'[k] <= seqOf'[n]
    <3>1. seqOf' \in [Msgs -> Nat] /\ T \in SUBSET Msgs /\ T # {}
      BY DEF Shapes
    <3> HIDE DEF T
    <3> QED
      BY <1>1, <3>1, OldestExists
  <2>5. k \in Oldest(T)
    BY <2>4 DEF Oldest
  <2>6. IsFiniteSet(T \ {k}) /\ Cardinality(T \ {k}) = Cardinality(T) - 1
    BY <1>1, <2>4, FS_RemoveElement
  <2>7. T \ Oldest(T) \in SUBSET (T \ {k})
    BY <2>5
  <2>8. Cardinality(T \ Oldest(T)) <= Cardinality(T \ {k})
    BY <2>6, <2>7, FS_Subset
  <2>9. IsFiniteSet(T \ Oldest(T))
    BY <2>6, <2>7, FS_Subset
  <2>10. Cardinality(T \ Oldest(T)) \in Nat
    BY <2>9, FS_CardinalityType
  <2>11. Cardinality(T \ Oldest(T)) <= limit
    BY <1>2, <2>6, <2>8, <2>10
  <2> QED
    BY <2>1, <2>3, <2>11
<1> QED
  BY <1>2, <1>3, <1>4

\* What queueOutbound() does to the outbox and to the history.
LEMMA QueueTrims ==
  ASSUME Shapes, Shapes', AllWithin, FreshIsUnknown, up, Below,
         NEW m \in Msgs, QueueOutbound(m)
  PROVE  /\ m \in outbox' /\ m \in history'
         /\ outbox' \subseteq outbox \cup {m} /\ history' \subseteq history \cup {m}
         /\ Cardinality(outbox') <= OutboxLimit
         /\ Cardinality(history') <= HistoryLimit
         /\ seqOf'[m] = nextSeq
         /\ \A n \in Msgs : n # m => seqOf'[n] = seqOf[n]
<1>1. m \notin outbox /\ m \notin history
  BY DEF QueueOutbound, FreshIsUnknown
<1>2. seqOf'[m] = nextSeq /\ \A n \in Msgs : n # m => seqOf'[n] = seqOf[n]
  BY DEF QueueOutbound, Shapes
<1>3. \A n \in outbox \cup history : seqOf'[n] < seqOf'[m]
  BY <1>1, <1>2 DEF Below, Shapes
<1>4. /\ outbox \in SUBSET Msgs /\ history \in SUBSET Msgs
      /\ Cardinality(outbox) <= OutboxLimit
      /\ Cardinality(history) <= HistoryLimit
      /\ OutboxLimit \in Nat \ {0} /\ HistoryLimit \in Nat \ {0}
  BY LimitsAssumption DEF Shapes, AllWithin, Within
<1>5. /\ outbox' = Bounded(outbox \cup {m}, OutboxLimit)
      /\ history' = Bounded(history \cup {m}, HistoryLimit)
  BY DEF QueueOutbound
<1>6. /\ m \in Bounded(outbox \cup {m}, OutboxLimit)
      /\ Bounded(outbox \cup {m}, OutboxLimit) \subseteq outbox \cup {m}
      /\ Cardinality(Bounded(outbox \cup {m}, OutboxLimit)) <= OutboxLimit
  BY <1>1, <1>3, <1>4, TrimmedWell
<1>7. /\ m \in Bounded(history \cup {m}, HistoryLimit)
      /\ Bounded(history \cup {m}, HistoryLimit) \subseteq history \cup {m}
      /\ Cardinality(Bounded(history \cup {m}, HistoryLimit)) <= HistoryLimit
  BY <1>1, <1>3, <1>4, TrimmedWell
<1> QED
  BY <1>2, <1>5, <1>6, <1>7

\* Each step keeps what is on disk.
LEMMA SavedIsKeptStep ==
  ASSUME Shapes, Shapes', AllWithin, FreshIsUnknown, Below,
         SavedIsKept, [Next]_vars
  PROVE  SavedIsKept'
<1>1. ASSUME NEW m \in Msgs, QueueOutbound(m)
      PROVE  SavedIsKept'
  <2>1. up
    BY <1>1 DEF QueueOutbound
  <2>2. m \in outbox'
    BY <1>1, <2>1, QueueTrims
  <2>3. m \notin saved /\ m \notin acks
    BY <1>1 DEF QueueOutbound, FreshIsUnknown
  <2>4. /\ owed' = (owed \ (outbox \ outbox')) \cup {m}
        /\ UNCHANGED <<up, writing, snapshot, disk, acks, saved>>
    BY <1>1 DEF QueueOutbound
  <2>5. owed \subseteq outbox
    BY <2>1 DEF SavedIsKept
  <2>6. owed' \subseteq outbox'
    BY <2>2, <2>4, <2>5
  <2>7. acks' \cap owed' = {} /\ owed' \cap saved' \subseteq owed \cap saved
    BY <2>3, <2>4 DEF SavedIsKept
  <2> QED
    BY <2>1, <2>4, <2>6, <2>7 DEF SavedIsKept
<1>2. ASSUME NEW m \in Msgs, AckTimer(m)
      PROVE  SavedIsKept'
  BY <1>2 DEF SavedIsKept, AckTimer, Sending,
     transportVars, engineVars, fileVars, netVars, resetVars, ghostVars
<1>3. ASSUME NEW m \in Msgs, ReceiveAck(m)
      PROVE  SavedIsKept'
  BY <1>3 DEF SavedIsKept, ReceiveAck,
     transportVars, engineVars, fileVars, netVars, resetVars, ghostVars
<1>4. ASSUME NEW m \in Msgs, PhoneReceives(m)
      PROVE  SavedIsKept'
  BY <1>4 DEF SavedIsKept, PhoneReceives,
     transportVars, engineVars, fileVars, netVars, resetVars, ghostVars
<1>5. ASSUME NEW i \in Inbound, ReceiveMsg(i)
      PROVE  SavedIsKept'
  BY <1>5 DEF SavedIsKept, ReceiveMsg, Receive, Dispatch,
     transportVars, engineVars, fileVars, netVars, resetVars, ghostVars
<1>6. ASSUME NEW i \in Inbound, PhoneSends(i)
      PROVE  SavedIsKept'
  BY <1>6 DEF SavedIsKept, PhoneSends,
     transportVars, engineVars, fileVars, netVars, resetVars, ghostVars
<1>7. ASSUME NEW r \in Resets, ResetRequest(r)
      PROVE  SavedIsKept'
  BY <1>7 DEF SavedIsKept, ResetRequest,
     transportVars, engineVars, fileVars, netVars, resetVars, ghostVars
<1>8. ASSUME NEW r \in Resets, DesktopReset(r)
      PROVE  SavedIsKept'
  BY <1>8 DEF SavedIsKept, DesktopReset,
     transportVars, engineVars, fileVars, netVars, resetVars, ghostVars
<1>9. ASSUME NEW r \in Resets, ResetTimeout(r)
      PROVE  SavedIsKept'
  BY <1>9 DEF SavedIsKept, ResetTimeout,
     transportVars, engineVars, fileVars, netVars, resetVars, ghostVars
<1>10. ASSUME NEW r \in Resets, ResetResult(r)
       PROVE  SavedIsKept'
  BY <1>10 DEF SavedIsKept, ResetResult, Complete,
     transportVars, engineVars, fileVars, netVars, resetVars, ghostVars
<1>11. ASSUME NEW s \in 0..nextSeq, SyncRequest(s)
       PROVE  SavedIsKept'
  BY <1>11 DEF SavedIsKept, SyncRequest, Sending,
     transportVars, engineVars, fileVars, netVars, resetVars, ghostVars
<1>12. ASSUME PeerStatus
       PROVE  SavedIsKept'
  BY <1>12 DEF SavedIsKept, PeerStatus, HandlePeerStatus, FlushOutbox, Sending,
     transportVars, engineVars, fileVars, netVars, resetVars, ghostVars
<1>13. ASSUME FlushWindowOver
       PROVE  SavedIsKept'
  BY <1>13 DEF SavedIsKept, FlushWindowOver,
     transportVars, engineVars, fileVars, netVars, resetVars, ghostVars
<1>14. ASSUME LinkUp
       PROVE  SavedIsKept'
  BY <1>14 DEF SavedIsKept, LinkUp, Connect, Open,
     transportVars, engineVars, fileVars, netVars, resetVars, ghostVars
<1>15. ASSUME LinkDown
       PROVE  SavedIsKept'
  BY <1>15 DEF SavedIsKept, LinkDown, Close,
     transportVars, engineVars, fileVars, netVars, resetVars, ghostVars
<1>16. ASSUME RejoinAck
       PROVE  SavedIsKept'
  BY <1>16 DEF SavedIsKept, RejoinAck, HandlePeerStatus, FlushOutbox, Sending, Rejoined,
     transportVars, engineVars, fileVars, netVars, resetVars, ghostVars
<1>17. ASSUME SaveBegin
       PROVE  SavedIsKept'
  BY <1>17 DEF SavedIsKept, SaveBegin,
     transportVars, engineVars, fileVars, netVars, resetVars, ghostVars
<1>18. ASSUME SaveEnd
       PROVE  SavedIsKept'
  BY <1>18 DEF SavedIsKept, SaveEnd, Outcome, Empty,
     transportVars, engineVars, fileVars, netVars, resetVars, ghostVars
<1>19. ASSUME Crash
       PROVE  SavedIsKept'
  BY <1>19 DEF SavedIsKept, Crash, Outcome, Empty,
     transportVars, engineVars, fileVars, netVars, resetVars, ghostVars
<1>20. ASSUME Restart
       PROVE  SavedIsKept'
  BY <1>20 DEF SavedIsKept, Restart, Load,
     transportVars, engineVars, fileVars, netVars, resetVars, ghostVars
<1>21. ASSUME PhoneMoves
       PROVE  SavedIsKept'
  BY <1>21 DEF SavedIsKept, PhoneMoves,
     transportVars, engineVars, fileVars, netVars, resetVars, ghostVars
<1>22. ASSUME Lose
       PROVE  SavedIsKept'
  BY <1>22 DEF SavedIsKept, Lose,
     transportVars, engineVars, fileVars, netVars, resetVars, ghostVars
<1>23. CASE UNCHANGED vars
  BY <1>23 DEF SavedIsKept, vars,
     transportVars, engineVars, fileVars, netVars, resetVars, ghostVars
<1> QED
  BY <1>1, <1>2, <1>3, <1>4, <1>5, <1>6, <1>7, <1>8, <1>9, <1>10, <1>11,
     <1>12, <1>13, <1>14, <1>15, <1>16, <1>17, <1>18, <1>19, <1>20, <1>21,
     <1>22, <1>23 DEF Next

-----------------------------------------------------------------------------
\* Where the containers come from in any step but queueOutbound(): memory,
\* the state file, or nowhere.
Moves ==
  /\ seqOf' = seqOf
  /\ \/ /\ outbox' \subseteq outbox /\ history' = history
        /\ up' = up /\ nextSeq' = nextSeq
     \/ outbox' = {} /\ history' = {}
     \/ /\ outbox' = disk.outbox /\ history' = disk.history
        /\ \A m \in disk.history : seqOf[m] < nextSeq'
  /\ \/ snapshot' = snapshot
     \/ snapshot' = Empty
     \/ snapshot' = [outbox |-> outbox, history |-> history]
  /\ disk' = disk \/ disk' = Empty \/ disk' = snapshot

\* Every step but queueOutbound() moves the containers only in these ways.
LEMMA ContainersMove ==
  ASSUME [Next]_vars
  PROVE  Moves \/ \E m \in Msgs : QueueOutbound(m)
<1> USE DEF Moves, engineVars, fileVars
<1>1. ASSUME NEW m \in Msgs, AckTimer(m)
      PROVE  Moves
  BY <1>1 DEF AckTimer
<1>2. ASSUME NEW m \in Msgs, ReceiveAck(m)
      PROVE  Moves
  BY <1>2 DEF ReceiveAck
<1>3. ASSUME NEW m \in Msgs, PhoneReceives(m)
      PROVE  Moves
  BY <1>3 DEF PhoneReceives
<1>4. ASSUME NEW i \in Inbound, ReceiveMsg(i)
      PROVE  Moves
  BY <1>4 DEF ReceiveMsg, Receive
<1>5. ASSUME NEW i \in Inbound, PhoneSends(i)
      PROVE  Moves
  BY <1>5 DEF PhoneSends
<1>6. ASSUME NEW r \in Resets, ResetRequest(r)
      PROVE  Moves
  BY <1>6 DEF ResetRequest
<1>7. ASSUME NEW r \in Resets, DesktopReset(r)
      PROVE  Moves
  BY <1>7 DEF DesktopReset
<1>8. ASSUME NEW r \in Resets, ResetTimeout(r)
      PROVE  Moves
  BY <1>8 DEF ResetTimeout
<1>9. ASSUME NEW r \in Resets, ResetResult(r)
      PROVE  Moves
  BY <1>9 DEF ResetResult, Complete
<1>10. ASSUME NEW s \in 0..nextSeq, SyncRequest(s)
       PROVE  Moves
  BY <1>10 DEF SyncRequest
<1>11. ASSUME PeerStatus
       PROVE  Moves
  BY <1>11 DEF PeerStatus
<1>12. ASSUME FlushWindowOver
       PROVE  Moves
  BY <1>12 DEF FlushWindowOver
<1>13. ASSUME LinkUp
       PROVE  Moves
  BY <1>13 DEF LinkUp
<1>14. ASSUME LinkDown
       PROVE  Moves
  BY <1>14 DEF LinkDown
<1>15. ASSUME RejoinAck
       PROVE  Moves
  BY <1>15 DEF RejoinAck
<1>16. ASSUME SaveBegin
       PROVE  Moves
  BY <1>16 DEF SaveBegin
<1>17. ASSUME SaveEnd
       PROVE  Moves
  BY <1>17 DEF SaveEnd, Outcome
<1>18. ASSUME Crash
       PROVE  Moves
  BY <1>18 DEF Crash, Outcome, Empty
<1>19. ASSUME Restart
       PROVE  Moves
  BY <1>19 DEF Restart, Load
<1>20. ASSUME PhoneMoves
       PROVE  Moves
  BY <1>20 DEF PhoneMoves
<1>21. ASSUME Lose
       PROVE  Moves
  BY <1>21 DEF Lose
<1>22. CASE UNCHANGED vars
  BY <1>22 DEF vars
<1> HIDE DEF Moves, engineVars, fileVars
<1> QED
  BY <1>1, <1>2, <1>3, <1>4, <1>5, <1>6, <1>7, <1>8, <1>9, <1>10, <1>11,
     <1>12, <1>13, <1>14, <1>15, <1>16, <1>17, <1>18, <1>19, <1>20, <1>21,
     <1>22 DEF Next

\* A limit on a container holds of what is left of it.
LEMMA SubsetWithin ==
  ASSUME NEW S \in SUBSET Msgs, NEW T \in SUBSET S, NEW limit \in Nat,
         Cardinality(S) <= limit
  PROVE  Cardinality(T) <= limit
<1>1. IsFiniteSet(S) /\ IsFiniteSet(T) /\ Cardinality(T) <= Cardinality(S)
  BY MsgsAssumption, FS_Subset
<1>2. Cardinality(S) \in Nat /\ Cardinality(T) \in Nat
  BY <1>1, FS_CardinalityType
<1> QED
  BY <1>1, <1>2

\* Each step keeps the containers within their limits.
LEMMA AllWithinStep ==
  ASSUME Shapes, Shapes', AllWithin, FreshIsUnknown, Below, [Next]_vars
  PROVE  AllWithin'
<1>1. Within({}, {})
  BY FS_EmptySet, LimitsAssumption DEF Within
<1>2. CASE Moves
  <2>1. Within(outbox', history')
    <3>1. CASE outbox' \subseteq outbox /\ history' = history
      <4>1. Cardinality(outbox') <= OutboxLimit
        BY <3>1, SubsetWithin, LimitsAssumption DEF Shapes, AllWithin, Within
      <4> QED
        BY <3>1, <4>1 DEF AllWithin, Within
    <3>2. CASE outbox' = {} /\ history' = {}
      BY <1>1, <3>2
    <3>3. CASE outbox' = disk.outbox /\ history' = disk.history
      BY <3>3 DEF AllWithin
    <3> QED
      BY <1>2, <3>1, <3>2, <3>3 DEF Moves
  <2>2. Within(snapshot'.outbox, snapshot'.history)
    BY <1>1, <1>2 DEF Moves, AllWithin, Empty
  <2>3. Within(disk'.outbox, disk'.history)
    BY <1>1, <1>2 DEF Moves, AllWithin, Empty
  <2> QED
    BY <2>1, <2>2, <2>3 DEF AllWithin
<1>3. ASSUME NEW m \in Msgs, QueueOutbound(m)
      PROVE  AllWithin'
  <2>1. up /\ UNCHANGED <<snapshot, disk>>
    BY <1>3 DEF QueueOutbound
  <2>2. Cardinality(outbox') <= OutboxLimit /\ Cardinality(history') <= HistoryLimit
    BY <1>3, <2>1, QueueTrims
  <2> QED
    BY <2>1, <2>2 DEF AllWithin, Within
<1> QED
  BY <1>2, <1>3, ContainersMove

\* Each step keeps the numbers distinct and the newest in the history.
LEMMA AllOrderedStep ==
  ASSUME Shapes, Shapes', AllWithin, FreshIsUnknown, Below, AllOrdered, [Next]_vars
  PROVE  AllOrdered' /\ Below'
<1>1. CASE Moves
  <2>1. seqOf' = seqOf
    BY <1>1 DEF Moves
  <2>2. Ordered(outbox, history)'
    <3>1. CASE outbox' \subseteq outbox /\ history' = history
      BY <2>1, <3>1 DEF AllOrdered, Ordered
    <3>2. CASE outbox' = {} /\ history' = {}
      BY <3>2 DEF Ordered
    <3>3. CASE outbox' = disk.outbox /\ history' = disk.history
      BY <2>1, <3>3 DEF AllOrdered, Ordered
    <3> QED
      BY <1>1, <3>1, <3>2, <3>3 DEF Moves
  <2>3. Ordered(snapshot.outbox, snapshot.history)'
    BY <1>1, <2>1 DEF Moves, AllOrdered, Ordered, Empty
  <2>4. Ordered(disk.outbox, disk.history)'
    BY <1>1, <2>1 DEF Moves, AllOrdered, Ordered, Empty
  <2>5. Below'
    <3>1. CASE /\ outbox' \subseteq outbox /\ history' = history
               /\ up' = up /\ nextSeq' = nextSeq
      BY <2>1, <3>1 DEF Below
    <3>2. CASE outbox' = {} /\ history' = {}
      BY <3>2 DEF Below
    <3>3. CASE /\ outbox' = disk.outbox /\ history' = disk.history
               /\ \A m \in disk.history : seqOf[m] < nextSeq'
      <4>1. \A m \in disk.outbox : \E n \in disk.history : seqOf[m] <= seqOf[n]
        BY DEF AllOrdered, Ordered
      <4>2. \A m \in Msgs : seqOf[m] \in Nat
        BY DEF Shapes
      <4>3. disk.outbox \subseteq Msgs /\ disk.history \subseteq Msgs /\ nextSeq' \in Nat
        BY DEF Shapes
      <4>4. \A m \in disk.outbox : seqOf[m] < nextSeq'
        BY <3>3, <4>1, <4>2, <4>3
      <4> QED
        BY <2>1, <3>3, <4>4 DEF Below
    <3> QED
      BY <1>1, <3>1, <3>2, <3>3 DEF Moves
  <2> QED
    BY <2>2, <2>3, <2>4, <2>5 DEF AllOrdered
<1>2. ASSUME NEW m \in Msgs, QueueOutbound(m)
      PROVE  AllOrdered' /\ Below'
  <2>1. /\ up /\ m \in fresh
        /\ UNCHANGED <<up, snapshot, disk>>
        /\ nextSeq' = nextSeq + 1
    BY <1>2 DEF QueueOutbound
  <2>2. /\ m \in outbox' /\ m \in history'
        /\ outbox' \subseteq outbox \cup {m} /\ history' \subseteq history \cup {m}
        /\ seqOf'[m] = nextSeq
        /\ \A n \in Msgs : n # m => seqOf'[n] = seqOf[n]
    BY <1>2, <2>1, QueueTrims
  <2>3. \A n \in Msgs : seqOf[n] \in Nat /\ seqOf'[n] \in Nat /\ nextSeq \in Nat
    BY DEF Shapes
  <2>4. \A n \in outbox \cup history : n \in Msgs /\ n # m /\ seqOf[n] < nextSeq
    BY <2>1 DEF Shapes, Below, FreshIsUnknown
  <2>5. \A n \in outbox' \cup history' : seqOf'[n] <= nextSeq
    BY <2>2, <2>3, <2>4
  <2>6. \A k, n \in outbox' \cup history' : seqOf'[k] = seqOf'[n] => k = n
    BY <2>2, <2>3, <2>4 DEF AllOrdered, Ordered
  <2>7. Ordered(outbox, history)'
    BY <2>2, <2>5, <2>6 DEF Ordered
  <2>8. /\ \A n \in snapshot.outbox \cup snapshot.history : seqOf'[n] = seqOf[n]
        /\ \A n \in disk.outbox \cup disk.history : seqOf'[n] = seqOf[n]
    BY <2>1, <2>2 DEF Shapes, FreshIsUnknown
  <2>9. Ordered(snapshot.outbox, snapshot.history)' /\ Ordered(disk.outbox, disk.history)'
    BY <2>1, <2>8 DEF AllOrdered, Ordered
  <2>10. Below'
    BY <2>1, <2>3, <2>5, Shapes' DEF Below, Shapes
  <2> QED
    BY <2>7, <2>9, <2>10 DEF AllOrdered
<1> QED
  BY <1>1, <1>2, ContainersMove
-----------------------------------------------------------------------------
(***************************************************************************)
(* The invariants together, and what follows from them.                    *)
(***************************************************************************)

SyncInv ==
  Shapes /\ AllWithin /\ FreshIsUnknown /\ AllOrdered /\ Below /\ RetryIsArmed /\ Answers

\* The invariant always holds.
LEMMA SyncInvariant == Spec => []SyncInv
<1>1. Init => SyncInv
  <2> SUFFICES ASSUME Init PROVE SyncInv
    OBVIOUS
  <2>1. AllWithin
    BY FS_EmptySet, LimitsAssumption DEF Init, AllWithin, Within, Empty
  <2>2. FreshIsUnknown /\ AllOrdered /\ Below /\ RetryIsArmed
    BY DEF Init, FreshIsUnknown, AllOrdered, Ordered, Below, RetryIsArmed, Empty
  <2>3. Answers
    BY DEF Init, Answers
  <2> QED
    BY ShapesInit, <2>1, <2>2, <2>3 DEF SyncInv
<1>2. SyncInv /\ [Next]_vars => SyncInv'
  <2> SUFFICES ASSUME SyncInv, [Next]_vars PROVE SyncInv'
    OBVIOUS
  <2>1. Shapes /\ AllWithin /\ FreshIsUnknown /\ AllOrdered /\ Below /\ RetryIsArmed /\ Answers
    BY DEF SyncInv
  <2>2. Shapes'
    BY <2>1, ShapesStep
  <2>3. FreshIsUnknown'
    BY <2>1, FreshIsUnknownStep
  <2>4. AllWithin'
    BY <2>1, <2>2, AllWithinStep
  <2>5. AllOrdered' /\ Below'
    BY <2>1, <2>2, AllOrderedStep
  <2>6. RetryIsArmed'
    BY <2>1, RetryIsArmedStep
  <2>7. Answers'
    BY <2>1, AnswersStep
  <2> QED
    BY <2>2, <2>3, <2>4, <2>5, <2>6, <2>7 DEF SyncInv
<1> QED
  BY <1>1, <1>2, PTL DEF Spec

\* The engine's state keeps its type; outbox and history keep their limits.
THEOREM SyncTypeCorrect == Spec => []TypeOK
<1>1. SyncInv => TypeOK
  BY DEF SyncInv, Shapes, AllWithin, Within, TypeOK
<1> QED
  BY SyncInvariant, <1>1, PTL

\* Every unacknowledged message has its retry timer, after restarts too.
THEOREM SyncRetryIsArmed == Spec => []RetryIsArmed
<1>1. SyncInv => RetryIsArmed
  BY DEF SyncInv
<1> QED
  BY SyncInvariant, <1>1, PTL

\* Sequence numbers are unique and below the next one, whatever is reset, torn
\* or lost in a crash.
THEOREM SyncSequenceIsMonotone == Spec => []SequenceIsMonotone
<1>1. SyncInv => SequenceIsMonotone
  BY DEF SyncInv, AllOrdered, Ordered, Below, SequenceIsMonotone
<1> QED
  BY SyncInvariant, <1>1, PTL

\* The answers to a reset request agree, and none is a false success.
THEOREM SyncResetAnswersAgree == Spec => []ResetAnswersAgree
<1>1. SyncInv => ResetAnswersAgree
  <2> SUFFICES ASSUME SyncInv, NEW r \in Resets
               PROVE  /\ Cardinality(resetAcks[r]) <= 1
                      /\ TRUE \in resetAcks[r] => session[r] = "ok"
    BY DEF ResetAnswersAgree
  <2>1. \/ resetAcks[r] = {}
        \/ resetAcks[r] = {FALSE}
        \/ resetAcks[r] = {TRUE} /\ session[r] = "ok"
    BY DEF SyncInv, Answers
  <2>2. Cardinality({}) = 0 /\ Cardinality({FALSE}) = 1 /\ Cardinality({TRUE}) = 1
    BY FS_EmptySet, FS_Singleton
  <2>3. Cardinality(resetAcks[r]) <= 1
    <3>1. CASE resetAcks[r] = {}
      BY <2>2, <3>1
    <3>2. CASE resetAcks[r] = {FALSE}
      BY <2>2, <3>2
    <3>3. CASE resetAcks[r] = {TRUE}
      BY <2>2, <3>3
    <3> QED
      BY <2>1, <3>1, <3>2, <3>3
  <2>4. TRUE \in resetAcks[r] => session[r] = "ok"
    BY <2>1
  <2> QED
    BY <2>3, <2>4
<1> QED
  BY SyncInvariant, <1>1, PTL

\* The engine keeps each message that it owes the phone; a crash loses only
\* those no completed save had held since a write was last cut.
THEOREM SyncOwedIsKept == Spec => []OwedIsKept
<1>1. Init => SavedIsKept
  BY DEF Init, SavedIsKept
<1>2. SyncInv /\ SyncInv' /\ SavedIsKept /\ [Next]_vars => SavedIsKept'
  BY SavedIsKeptStep DEF SyncInv
<1>3. SavedIsKept => OwedIsKept
  BY DEF SavedIsKept, OwedIsKept
<1> QED
  BY SyncInvariant, <1>1, <1>2, <1>3, PTL DEF Spec
-----------------------------------------------------------------------------
\* The requests the phone was told were carried out.
Granted == {r \in Resets : TRUE \in resetAcks[r]}

\* How often all ids were forgotten.
Forgot == crashes + Cardinality(Granted)

\* An id that is not remembered has been paid for, by a loss of all ids or by
\* ProcessedLimit dispatches of other messages, as often as it was dispatched.
UnknownBounded(i) ==
  dispatched[i] * ProcessedLimit + dispatched[i] <= Forgot * ProcessedLimit + dispatches

\* The id at place k has one dispatch to spare, and with each dispatch of
\* another message since it moved one place to the front.
KnownBounded(k) ==
  dispatched[processed[k]] * ProcessedLimit + dispatched[processed[k]]
      + (Len(processed) - k)
    <= (Forgot + 1) * ProcessedLimit + dispatches

DispatchesBounded ==
  /\ \A k, l \in 1..Len(processed) : processed[k] = processed[l] => k = l
  /\ \A i \in Inbound \ Range(processed) : UnknownBounded(i)
  /\ \A k \in 1..Len(processed) : KnownBounded(k)

\* There are finitely many such requests.
LEMMA GrantedIsCounted == IsFiniteSet(Granted) /\ Cardinality(Granted) \in Nat
<1>1. Granted \in SUBSET Resets
  BY DEF Granted
<1> QED
  BY <1>1, ResetsAssumption, FS_Subset, FS_CardinalityType

\* A refusal grants nothing.
LEMMA RefusalGrantsNothing ==
  ASSUME Shapes, NEW r \in Resets, resetAcks' = [resetAcks EXCEPT ![r] = @ \cup {FALSE}]
  PROVE  Granted' = Granted
<1>1. \A q \in Resets : TRUE \in resetAcks'[q] <=> TRUE \in resetAcks[q]
  BY DEF Shapes
<1> QED
  BY <1>1 DEF Granted

\* The numbers of the bounds.
LEMMA BoundsAreNumbers ==
  ASSUME Shapes
  PROVE  /\ Forgot \in Nat /\ dispatches \in Nat /\ ProcessedLimit \in Nat \ {0}
         /\ Len(processed) \in Nat /\ Len(processed) <= ProcessedLimit
         /\ \A i \in Inbound : dispatched[i] \in Nat
         /\ \A k \in 1..Len(processed) : processed[k] \in Inbound
         /\ \A n \in Nat : /\ n * ProcessedLimit \in Nat
                           /\ (n + 1) * ProcessedLimit = n * ProcessedLimit + ProcessedLimit
<1>1. Cardinality(Granted) \in Nat /\ crashes \in Nat
  BY GrantedIsCounted, BoundsAssumption DEF Shapes
<1>2. ProcessedLimit \in Nat \ {0}
  BY LimitsAssumption
<1>3. \A n \in Nat : /\ n * ProcessedLimit \in Nat
                     /\ (n + 1) * ProcessedLimit = n * ProcessedLimit + ProcessedLimit
  BY <1>2
<1> QED
  BY <1>1, <1>2, <1>3, BoundsAssumption DEF Shapes, Forgot

\* The ids remembered are those at the places of the order.
LEMMA RememberedAt ==
  ASSUME NEW s \in Seq(Inbound)
  PROVE  \A i : i \in Range(s) <=> \E k \in 1..Len(s) : s[k] = i
<1>1. DOMAIN s = 1..Len(s)
  OBVIOUS
<1> QED
  BY <1>1 DEF Range

\* In either case a message was dispatched once more, at most, than paid for.
LEMMA BoundedAtMost ==
  ASSUME Shapes, DispatchesBounded, NEW i \in Inbound
  PROVE  dispatched[i] * ProcessedLimit + dispatched[i]
           <= (Forgot + 1) * ProcessedLimit + dispatches
<1>1. /\ Forgot \in Nat /\ dispatches \in Nat /\ ProcessedLimit \in Nat
      /\ dispatched[i] \in Nat
      /\ dispatched[i] * ProcessedLimit \in Nat /\ Forgot * ProcessedLimit \in Nat
      /\ (Forgot + 1) * ProcessedLimit = Forgot * ProcessedLimit + ProcessedLimit
  BY BoundsAreNumbers
<1>2. CASE i \notin Range(processed)
  BY <1>1, <1>2 DEF DispatchesBounded, UnknownBounded
<1>3. CASE i \in Range(processed)
  <2>1. PICK k \in 1..Len(processed) : processed[k] = i
    BY <1>3, RememberedAt DEF Shapes
  <2>2. dispatched[i] * ProcessedLimit + dispatched[i] + (Len(processed) - k)
          <= (Forgot + 1) * ProcessedLimit + dispatches
    BY <2>1 DEF DispatchesBounded, KnownBounded
  <2>3. Len(processed) - k \in Nat
    BY <2>1, BoundsAreNumbers
  <2> QED
    BY <1>1, <2>2, <2>3
<1> QED
  BY <1>2, <1>3

\* Forgetting all ids costs no more than the bound grows.
LEMMA ForgettingIsPaid ==
  ASSUME Shapes, Shapes', DispatchesBounded, processed' = <<>>, Forgot' = Forgot + 1,
         UNCHANGED <<dispatched, dispatches>>
  PROVE  DispatchesBounded'
<1>1. \A i \in Inbound : UnknownBounded(i)'
  BY BoundedAtMost DEF UnknownBounded
<1>2. Len(processed') = 0
  OBVIOUS
<1> QED
  BY <1>1, <1>2 DEF DispatchesBounded

\* A step that leaves ids, counts and grants alone keeps the bounds.
LEMMA BoundsKept ==
  ASSUME DispatchesBounded, Forgot' = Forgot,
         UNCHANGED <<processed, dispatched, dispatches>>
  PROVE  DispatchesBounded'
  BY DEF DispatchesBounded, UnknownBounded, KnownBounded

\* A dispatch gives the new id a place at the end and may forget the oldest one.
LEMMA DispatchIsPaid ==
  ASSUME Shapes, Shapes', DispatchesBounded, NEW i \in Inbound, i \notin Range(processed),
         Dispatch(i), Forgot' = Forgot
  PROVE  DispatchesBounded'
<1> DEFINE order == Append(processed, i)
           L == ProcessedLimit
<1>1. /\ dispatched'[i] = dispatched[i] + 1
      /\ \A j \in Inbound : j # i => dispatched'[j] = dispatched[j]
      /\ dispatches' = dispatches + 1
  BY DEF Dispatch, Shapes
<1>2. /\ Len(order) = Len(processed) + 1
      /\ order[Len(processed) + 1] = i
      /\ \A k \in 1..Len(processed) : order[k] = processed[k]
      /\ \A k \in 1..Len(processed) : processed[k] # i
  <2>1. processed \in Seq(Inbound)
    BY DEF Shapes
  <2>2. \A k \in 1..Len(processed) : processed[k] # i
    BY <2>1, RememberedAt
  <2> QED
    BY <2>1, <2>2
<1>3. /\ Forgot \in Nat /\ dispatches \in Nat /\ L \in Nat \ {0}
      /\ Len(processed) \in Nat /\ Len(processed) <= L
      /\ \A j \in Inbound : dispatched[j] \in Nat
      /\ \A k \in 1..Len(processed) : processed[k] \in Inbound
      /\ \A n \in Nat : n * L \in Nat /\ (n + 1) * L = n * L + L
  BY BoundsAreNumbers
<1>4. dispatched'[i] * L + dispatched'[i] <= (Forgot + 1) * L + dispatches'
  <2>1. dispatched[i] * L + dispatched[i] <= Forgot * L + dispatches
    BY DEF DispatchesBounded, UnknownBounded
  <2>2. dispatched'[i] * L = dispatched[i] * L + L /\ (Forgot + 1) * L = Forgot * L + L
    BY <1>1, <1>3
  <2>3. /\ dispatched[i] \in Nat /\ dispatched[i] * L \in Nat /\ Forgot * L \in Nat
        /\ L \in Nat /\ dispatches \in Nat
    BY <1>3
  <2> QED
    BY <1>1, <2>1, <2>2, <2>3
<1>5. ASSUME NEW k \in 1..Len(processed)
      PROVE  dispatched'[processed[k]] * L + dispatched'[processed[k]]
                 + (Len(processed) + 1 - k)
               <= (Forgot + 1) * L + dispatches'
  <2>1. dispatched'[processed[k]] = dispatched[processed[k]]
    BY <1>1, <1>2, <1>3
  <2>2. dispatched[processed[k]] * L + dispatched[processed[k]] + (Len(processed) - k)
          <= (Forgot + 1) * L + dispatches
    BY DEF DispatchesBounded, KnownBounded
  <2>3. /\ dispatched[processed[k]] \in Nat /\ dispatched[processed[k]] * L \in Nat
        /\ (Forgot + 1) * L \in Nat /\ dispatches \in Nat /\ Len(processed) \in Nat
    BY <1>3
  <2>4. \A a, b, c, d \in Nat : a + b + (Len(processed) - k) <= c + d
          => a + b + (Len(processed) + 1 - k) <= c + (d + 1)
    BY <2>3
  <2> QED
    BY <1>1, <2>1, <2>2, <2>3, <2>4
<1>6. ASSUME NEW j \in Inbound, j # i, j \notin Range(processed)
      PROVE  UnknownBounded(j)'
  <2>1. dispatched[j] * L + dispatched[j] <= Forgot * L + dispatches
    BY <1>6 DEF DispatchesBounded, UnknownBounded
  <2>2. /\ dispatched[j] \in Nat /\ dispatched[j] * L \in Nat /\ Forgot * L \in Nat
        /\ dispatches \in Nat
    BY <1>3
  <2>3. dispatched'[j] * L + dispatched'[j] <= Forgot * L + dispatches'
    BY <1>1, <1>6, <2>1, <2>2
  <2> QED
    BY <2>3 DEF UnknownBounded
<1>7. dispatched'[i] * L \in Nat /\ dispatched'[i] \in Nat
  <2>1. dispatched[i] + 1 \in Nat
    BY <1>3
  <2>2. (dispatched[i] + 1) * L \in Nat
    BY <1>3, <2>1
  <2> QED
    BY <1>1, <2>1, <2>2
<1>8. CASE Len(order) <= L
  <2>1. processed' = order
    BY <1>2, <1>3, <1>8 DEF Dispatch, MarkProcessed
  <2>2. \A k, l \in 1..Len(order) : order[k] = order[l] => k = l
    BY <1>2, <1>3 DEF DispatchesBounded
  <2>3. ASSUME NEW k \in 1..Len(order)
        PROVE  KnownBounded(k)'
    <3>1. CASE k = Len(processed) + 1
      <4>1. processed'[k] = i /\ Len(processed') - k = 0
        BY <1>2, <1>3, <2>1, <3>1
      <4>2. dispatched'[i] * L + dispatched'[i] + (Len(processed') - k)
              <= (Forgot + 1) * L + dispatches'
        BY <1>4, <1>7, <4>1
      <4> QED
        BY <4>1, <4>2 DEF KnownBounded
    <3>2. CASE k \in 1..Len(processed)
      BY <1>2, <1>5, <2>1, <3>2 DEF KnownBounded
    <3> QED
      BY <1>2, <1>3, <3>1, <3>2
  <2>4. \A j \in Inbound : j \notin Range(order) => j # i /\ j \notin Range(processed)
    <3>1. order \in Seq(Inbound) /\ processed \in Seq(Inbound)
      BY DEF Shapes
    <3>2. \A j \in Inbound : j \in Range(order) <=> \E k \in 1..Len(order) : order[k] = j
      <4> HIDE DEF order
      <4> QED
        BY <3>1, RememberedAt
    <3>3. i \in Range(order)
      BY <1>2, <1>3, <3>2
    <3>4. \A k \in 1..Len(processed) : k \in 1..Len(order) /\ order[k] = processed[k]
      BY <1>2, <1>3
    <3>5. \A j \in Inbound : j \in Range(processed) => j \in Range(order)
      BY <3>1, <3>2, <3>4, RememberedAt
    <3> QED
      BY <3>3, <3>5
  <2> QED
    BY <1>6, <2>1, <2>2, <2>3, <2>4 DEF DispatchesBounded
<1>9. CASE Len(order) > L
  <2>1. processed' = Tail(order)
    BY <1>2, <1>3, <1>9 DEF Dispatch, MarkProcessed
  <2>2. /\ Len(processed) = L
        /\ Len(processed') = L
        /\ \A k \in 1..L : processed'[k] = order[k + 1]
    <3>1. order \in Seq(Inbound)
      BY DEF Shapes
    <3> HIDE DEF order, L
    <3>2. /\ Len(Tail(order)) = Len(order) - 1
          /\ \A k \in 1..(Len(order) - 1) : Tail(order)[k] = order[k + 1]
      <4>1. Len(order) \in Nat \ {0}
        BY <1>2, <1>3
      <4>2. order # <<>>
        BY <4>1
      <4> QED
        BY <3>1, <4>2
    <3>3. Len(processed) = L /\ Len(order) - 1 = L
      BY <1>2, <1>3, <1>9
    <3> QED
      BY <2>1, <3>2, <3>3
  <2>3. \A k, l \in 1..Len(processed') : processed'[k] = processed'[l] => k = l
    <3>1. \A k, l \in 1..Len(processed) : processed[k] = processed[l] => k = l
      BY DEF DispatchesBounded
    <3> HIDE DEF order, L
    <3>2. processed'[L] = i
      BY <1>2, <1>3, <2>2
    <3>3. ASSUME NEW k \in 1..L, k # L
          PROVE  k + 1 \in 1..L /\ processed'[k] = processed[k + 1]
      <4>1. k + 1 \in 1..L
        BY <1>3, <3>3
      <4> QED
        BY <1>2, <2>2, <4>1
    <3>4. ASSUME NEW k \in 1..L, NEW l \in 1..L, processed'[k] = processed'[l]
          PROVE  k = l
      <4>1. \A n \in 1..L : processed[n] # i
        BY <1>2, <2>2
      <4>2. CASE k = L
        BY <3>2, <3>3, <3>4, <4>1, <4>2
      <4>3. CASE l = L
        BY <3>2, <3>3, <3>4, <4>1, <4>3
      <4>4. CASE k # L /\ l # L
        <5>1. processed[k + 1] = processed[l + 1] /\ k + 1 \in 1..L /\ l + 1 \in 1..L
          BY <3>3, <3>4, <4>4
        <5>2. k + 1 = l + 1
          BY <2>2, <3>1, <5>1
        <5> QED
          BY <5>2
      <4> QED
        BY <4>2, <4>3, <4>4
    <3> QED
      BY <2>2, <3>4
  <2>4. ASSUME NEW k \in 1..Len(processed')
        PROVE  KnownBounded(k)'
    <3>1. CASE k = L
      <4>1. processed'[k] = i
        BY <1>2, <1>3, <2>2, <3>1
      <4> QED
        <5>1. Len(processed') - k = 0
          BY <1>3, <2>2, <3>1
        <5>2. dispatched'[i] * L + dispatched'[i] + (Len(processed') - k)
                <= (Forgot + 1) * L + dispatches'
          BY <1>4, <1>7, <5>1
        <5> QED
          BY <4>1, <5>2 DEF KnownBounded
    <3>2. CASE k + 1 \in 1..Len(processed)
      <4>1. processed'[k] = processed[k + 1]
        <5>1. k \in 1..L
          BY <2>2, <2>4
        <5>2. processed'[k] = order[k + 1]
          BY <2>2, <5>1
        <5> QED
          BY <1>2, <3>2, <5>2
      <4>2. dispatched'[processed[k + 1]] * L + dispatched'[processed[k + 1]]
                + (Len(processed) + 1 - (k + 1))
              <= (Forgot + 1) * L + dispatches'
        BY <1>5, <3>2
      <4>3. Len(processed) + 1 - (k + 1) = Len(processed') - k
        BY <1>3, <2>2
      <4> QED
        BY <4>1, <4>2, <4>3 DEF KnownBounded
    <3> QED
      BY <1>3, <2>2, <3>1, <3>2
  <2>5. ASSUME NEW j \in Inbound, j \notin Range(processed')
        PROVE  UnknownBounded(j)'
    <3>1. j # i
      <4>1. processed'[L] = i /\ L \in 1..Len(processed')
        <5> HIDE DEF order, L
        <5>1. L \in 1..L /\ processed'[L] = order[L + 1]
          BY <1>3, <2>2
        <5> QED
          BY <1>2, <2>2, <5>1
      <4> QED
        BY <2>5, <4>1, RememberedAt DEF Shapes
    <3>2. CASE j \notin Range(processed)
      BY <1>6, <3>1, <3>2
    <3>3. CASE j \in Range(processed)
      <4>1. PICK k \in 1..Len(processed) : processed[k] = j
        BY <3>3, RememberedAt DEF Shapes
      <4>2. k = 1
        <5>1. ASSUME k # 1
              PROVE  FALSE
          <6>1. k - 1 \in 1..Len(processed') /\ processed'[k - 1] = j
            BY <1>2, <1>3, <2>2, <4>1, <5>1
          <6> QED
            BY <2>5, <6>1, RememberedAt DEF Shapes
        <5> QED
          BY <5>1
      <4>3. dispatched'[j] * L + dispatched'[j] + L <= (Forgot + 1) * L + dispatches'
        BY <1>3, <1>5, <2>2, <4>1, <4>2
      <4>4. (Forgot + 1) * L = Forgot * L + L
        BY <1>3
      <4>5. /\ dispatched'[j] \in Nat /\ dispatched'[j] * L \in Nat
            /\ Forgot * L \in Nat /\ dispatches' \in Nat /\ L \in Nat
        <5>1. dispatched'[j] = dispatched[j] /\ dispatches' = dispatches + 1
          BY <1>1, <3>1
        <5>2. /\ dispatched[j] \in Nat /\ dispatched[j] * L \in Nat
              /\ Forgot * L \in Nat /\ dispatches \in Nat /\ L \in Nat
          BY <1>3
        <5> QED
          BY <5>1, <5>2
      <4>6. dispatched'[j] * L + dispatched'[j] <= Forgot * L + dispatches'
        <5>1. \A a, b, c, d \in Nat : a + b + L <= c + L + d => a + b <= c + d
          BY <4>5
        <5> QED
          BY <4>3, <4>4, <4>5, <5>1
      <4> QED
        BY <4>6 DEF UnknownBounded
    <3> QED
      BY <3>2, <3>3
  <2> QED
    BY <2>3, <2>4, <2>5 DEF DispatchesBounded
<1> QED
  BY <1>2, <1>3, <1>8, <1>9

\* Ids are forgotten only by a step that raises the bound.
LEMMA DispatchesBoundedStep ==
  ASSUME Shapes, Shapes', Answers, DispatchesBounded, [Next]_vars
  PROVE  DispatchesBounded'
<1>0. Forgot \in Nat /\ crashes \in Nat /\ Cardinality(Granted) \in Nat
  BY GrantedIsCounted, BoundsAreNumbers, BoundsAssumption DEF Shapes
<1>1. ASSUME NEW i \in Inbound, ReceiveMsg(i)
      PROVE  DispatchesBounded'
  <2>1. Forgot' = Forgot
    BY <1>1 DEF ReceiveMsg, Receive, fileVars, resetVars, Forgot, Granted
  <2>2. CASE i \in Range(processed)
    BY <1>1, <2>1, <2>2, BoundsKept DEF ReceiveMsg, Receive
  <2>3. CASE i \notin Range(processed)
    BY <1>1, <2>1, <2>3, DispatchIsPaid DEF ReceiveMsg, Receive
  <2> QED
    BY <2>2, <2>3
<1>2. ASSUME NEW r \in Resets, ResetResult(r), session[r] = "ok"
      PROVE  DispatchesBounded'
  <2>1. /\ resetAcks' = [resetAcks EXCEPT ![r] = @ \cup {TRUE}]
        /\ UNCHANGED <<crashes, dispatched, dispatches>>
        /\ processed' = <<>>
        /\ r \in pendingResets
    BY <1>2 DEF ResetResult, Complete
  <2>2. r \notin Granted
    BY <1>2, <2>1 DEF Answers, Granted
  <2>3. \A q \in Resets : TRUE \in resetAcks'[q] <=> q = r \/ TRUE \in resetAcks[q]
    BY <2>1 DEF Shapes
  <2>4. Granted' = Granted \cup {r}
    BY <2>3 DEF Granted
  <2>5. Cardinality(Granted') = Cardinality(Granted) + 1
    BY <2>2, <2>4, GrantedIsCounted, FS_AddElement
  <2>6. Forgot' = Forgot + 1
    BY <1>0, <2>1, <2>5 DEF Forgot
  <2> QED
    BY <2>1, <2>6, ForgettingIsPaid
<1>3. ASSUME Crash
      PROVE  DispatchesBounded'
  <2>1. /\ crashes' = crashes + 1 /\ Granted' = Granted /\ processed' = <<>>
        /\ UNCHANGED <<dispatched, dispatches>>
    BY <1>3 DEF Crash, resetVars, Granted
  <2>2. Forgot' = Forgot + 1
    BY <1>0, <2>1 DEF Forgot
  <2> QED
    BY <2>1, <2>2, ForgettingIsPaid
<1>4. ASSUME UNCHANGED <<processed, dispatched, dispatches, crashes, resetAcks>>
      PROVE  DispatchesBounded'
  BY <1>4, BoundsKept DEF Forgot, Granted
<1>5. ASSUME NEW r \in Resets, ResetRequest(r) \/ ResetTimeout(r) \/ ResetResult(r)
      PROVE  DispatchesBounded'
  <2>1. CASE ResetResult(r) /\ session[r] = "ok"
    BY <1>2, <2>1
  <2>2. CASE ResetResult(r) /\ session[r] # "ok"
    <3>1. /\ UNCHANGED <<processed, crashes, dispatched, dispatches>>
          /\ resetAcks' = [resetAcks EXCEPT ![r] = @ \cup {FALSE}]
      BY <2>2 DEF ResetResult, Complete
    <3>2. Granted' = Granted
      BY <3>1, RefusalGrantsNothing
    <3> QED
      BY <3>1, <3>2, BoundsKept DEF Forgot
  <2>3. CASE ResetRequest(r) \/ ResetTimeout(r)
    <3>1. /\ UNCHANGED <<processed, crashes, dispatched, dispatches>>
          /\ \/ resetAcks' = [resetAcks EXCEPT ![r] = @ \cup {FALSE}]
             \/ resetAcks' = resetAcks
      BY <2>3 DEF ResetRequest, ResetTimeout, fileVars, ghostVars
    <3>2. CASE resetAcks' = resetAcks
      BY <1>4, <3>1, <3>2
    <3>3. CASE resetAcks' = [resetAcks EXCEPT ![r] = @ \cup {FALSE}]
      BY <3>1, <3>3, RefusalGrantsNothing, BoundsKept DEF Forgot
    <3> QED
      BY <3>1, <3>2, <3>3
  <2> QED
    BY <1>5, <2>1, <2>2, <2>3
<1>6. ASSUME NEW m \in Msgs,
             QueueOutbound(m) \/ AckTimer(m) \/ ReceiveAck(m) \/ PhoneReceives(m)
      PROVE  UNCHANGED <<processed, dispatched, dispatches, crashes, resetAcks>>
  BY <1>6 DEF QueueOutbound, AckTimer, ReceiveAck, PhoneReceives, engineVars,
     fileVars, resetVars, ghostVars
<1>7. ASSUME \/ \E i \in Inbound : PhoneSends(i)
             \/ \E r \in Resets : DesktopReset(r)
             \/ \E lastSeq \in 0..nextSeq : SyncRequest(lastSeq)
      PROVE  UNCHANGED <<processed, dispatched, dispatches, crashes, resetAcks>>
  BY <1>7 DEF PhoneSends, DesktopReset, SyncRequest, engineVars, fileVars, resetVars,
     ghostVars
<1>8. ASSUME PeerStatus \/ FlushWindowOver \/ LinkUp \/ LinkDown \/ RejoinAck
      PROVE  UNCHANGED <<processed, dispatched, dispatches, crashes, resetAcks>>
  BY <1>8 DEF PeerStatus, FlushWindowOver, LinkUp, LinkDown, RejoinAck, engineVars,
     fileVars, resetVars, ghostVars
<1>9. ASSUME SaveBegin \/ SaveEnd \/ Restart \/ PhoneMoves \/ Lose
      PROVE  UNCHANGED <<processed, dispatched, dispatches, crashes, resetAcks>>
  BY <1>9 DEF SaveBegin, SaveEnd, Restart, PhoneMoves, Lose, engineVars, fileVars,
     resetVars, ghostVars
<1>10. ASSUME UNCHANGED vars
       PROVE  UNCHANGED <<processed, dispatched, dispatches, crashes, resetAcks>>
  BY <1>10 DEF vars, engineVars, fileVars, resetVars, ghostVars
<1> QED
  BY <1>1, <1>3, <1>4, <1>5, <1>6, <1>7, <1>8, <1>9, <1>10 DEF Next

\* However many messages, requests and crashes there are and whatever the limit
\* of the ids, a message reaches the agent once, and once more at most for each
\* time all ids were forgotten and for each ProcessedLimit other dispatches.
THEOREM SyncDispatchedOncePerMemory == Spec => []DispatchedOncePerMemory
<1>1. Init => DispatchesBounded
  <2> SUFFICES ASSUME Init
               PROVE  DispatchesBounded
    OBVIOUS
  <2>2. processed = <<>> /\ Len(processed) = 0
    BY DEF Init
  <2> SUFFICES ASSUME NEW i \in Inbound
               PROVE  UnknownBounded(i)
    BY <2>2 DEF DispatchesBounded
  <2>1. /\ dispatched[i] = 0 /\ dispatches = 0
        /\ Forgot * ProcessedLimit \in Nat /\ ProcessedLimit \in Nat
    BY ShapesInit, BoundsAreNumbers DEF Init
  <2> QED
    BY <2>1 DEF UnknownBounded
<1>2. SyncInv /\ SyncInv' /\ DispatchesBounded /\ [Next]_vars => DispatchesBounded'
  BY DispatchesBoundedStep DEF SyncInv
<1>3. SyncInv /\ DispatchesBounded => DispatchedOncePerMemory
  <2> SUFFICES ASSUME SyncInv, DispatchesBounded, NEW i \in Inbound
               PROVE  dispatched[i] * ProcessedLimit
                        <= (1 + Forgot) * ProcessedLimit + (dispatches - dispatched[i])
    BY DEF DispatchedOncePerMemory, Forgot, Granted
  <2>1. dispatched[i] * ProcessedLimit + dispatched[i]
          <= (Forgot + 1) * ProcessedLimit + dispatches
    BY BoundedAtMost DEF SyncInv
  <2>2. /\ Forgot \in Nat /\ dispatches \in Nat /\ dispatched[i] \in Nat
        /\ dispatched[i] * ProcessedLimit \in Nat
        /\ (Forgot + 1) * ProcessedLimit \in Nat
    <3>1. Shapes
      BY DEF SyncInv
    <3>2. Forgot \in Nat
      BY <3>1, BoundsAreNumbers
    <3>3. Forgot + 1 \in Nat
      BY <3>2
    <3>4. \A n \in Nat : n * ProcessedLimit \in Nat
      BY <3>1, BoundsAreNumbers
    <3>5. dispatches \in Nat /\ dispatched[i] \in Nat
      BY <3>1, BoundsAreNumbers
    <3> QED
      BY <3>2, <3>3, <3>4, <3>5
  <2>3. 1 + Forgot = Forgot + 1
    BY <2>2
  <2> QED
    BY <2>1, <2>2, <2>3
<1> QED
  BY SyncInvariant, <1>1, <1>2, <1>3, PTL DEF Spec
=============================================================================
