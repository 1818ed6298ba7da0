--------------------------- MODULE CsBridgeProofs ---------------------------
(***************************************************************************)
(* Theorems about CsBridge for every set of requests and conversations and *)
(* every value of the bounds.                                              *)
(*                                                                         *)
(* The bridge uses the controller through its methods only, so that each   *)
(* behaviour of the bridge is one of CsRunAdmission and inherits what      *)
(* CsRunAdmissionProofs proves of it.  The invariant of the bridge has     *)
(* five parts on top of AdmissionInv: the types, the attempts to start it, *)
(* the signals on their way through it, the leases of its calls, and where *)
(* the signals are that a sign-out gave up.                                *)
(***************************************************************************)
EXTENDS CsBridge, CsRunAdmissionProofs

\* Each step of the bridge is a step of its controller or invisible to it.
LEMMA BridgeStepAdmits ==
  ASSUME [BridgeNext]_bridgeVars
  PROVE  [AdmissionNext]_admissionVars
<1>1. ASSUME NEW h \in Requests, GivesBack(h)
      PROVE  [AdmissionNext]_admissionVars
  BY <1>1 DEF GivesBack, AdmissionNext
<1>2. ASSUME NEW h \in Requests, Completes(h)
      PROVE  [AdmissionNext]_admissionVars
  BY <1>1, <1>2 DEF Completes
<1>3. ASSUME NEW reason, NEW b, NEW hs, NEW still,
             StopCsBridge(reason, b, hs, still)
      PROVE  [AdmissionNext]_admissionVars
  BY <1>3 DEF StopCsBridge, AdmissionNext
<1>4. CASE RpcDrops
  BY <1>4 DEF RpcDrops, AdmissionNext
<1>5. CASE GatewayStops
  BY <1>3, <1>5 DEF GatewayStops
<1>6. CASE AuthChange
  BY <1>3, <1>6 DEF AuthChange
<1>7. ASSUME NEW a \in Attempts, ToolingReady(a)
      PROVE  [AdmissionNext]_admissionVars
  BY <1>7 DEF ToolingReady, Install, AdmissionNext
<1>8. ASSUME NEW a \in Attempts, Resumed(a)
      PROVE  [AdmissionNext]_admissionVars
  BY <1>8 DEF Resumed, AdmissionNext
<1>9. ASSUME NEW h \in Requests, ReachesGate(h)
      PROVE  [AdmissionNext]_admissionVars
  BY <1>9 DEF ReachesGate, AdmissionNext, Acquire
<1>10. ASSUME NEW h \in Requests, Failed(h)
      PROVE  [AdmissionNext]_admissionVars
  BY <1>1, <1>10 DEF Failed
<1>11. ASSUME NEW h \in Requests, RunEnds(h)
      PROVE  [AdmissionNext]_admissionVars
  BY <1>2, <1>11 DEF RunEnds
<1>12. ASSUME NEW p \in probes, ProbeCompletes(p)
      PROVE  [AdmissionNext]_admissionVars
  BY <1>2, <1>12 DEF ProbeCompletes, Concerns, Pending
<1>13. CASE RpcConnects \/ UserChanges \/ TryStart
  BY <1>13 DEF RpcConnects, UserChanges, TryStart
<1>14. CASE \E c \in Conversations : SignalArrives(c)
  BY <1>14 DEF SignalArrives
<1>15. CASE \E a \in Attempts : Returned(a) \/ FlushPassEnds(a)
  BY <1>15 DEF Returned, FlushPassEnds
<1>16. CASE (\E k \in claims : ReplayStarts(k)) \/ (\E e \in catchUps : WindowEnds(e))
  BY <1>16 DEF ReplayStarts, WindowEnds
<1>17. CASE \E h \in Requests :
              \/ SetupFails(h) \/ Cancelled(h) \/ Granted(h) \/ AgentAccepts(h)
              \/ AgentReplies(h) \/ AgentFails(h) \/ SweepProbes(h)
  BY <1>17 DEF SetupFails, Cancelled, Granted, AgentAccepts, AgentReplies,
               AgentFails, SweepProbes
<1>18. CASE \E p \in probes : ProbeFindsNothing(p)
  BY <1>18 DEF ProbeFindsNothing
<1>19. CASE UNCHANGED bridgeVars
  BY <1>19 DEF bridgeVars
<1> QED
  BY <1>4, <1>5, <1>6, <1>7, <1>8, <1>9, <1>10, <1>11, <1>12, <1>13, <1>14,
     <1>15, <1>16, <1>17, <1>18, <1>19 DEF BridgeNext

\* The bridge drives the controller of CsRunAdmission as it is meant to be
\* driven: whatever it does is a behaviour of the controller.
THEOREM BridgeAdmits == BridgeSpec => AdmissionSpec
<1>1. BridgeInit => AdmissionInit
  BY DEF BridgeInit
<1>2. [BridgeNext]_bridgeVars => [AdmissionNext]_admissionVars
  BY BridgeStepAdmits
<1> QED
  BY <1>1, <1>2, PTL DEF BridgeSpec, AdmissionSpec
-----------------------------------------------------------------------------
(***************************************************************************)
(* Types.  A window holds the newest of its signals, which exists because  *)
(* a conversation has one window on a bridge.                              *)
(***************************************************************************)

WindowsAreUnique ==
  \A e, f \in catchUps : e.sig.conv = f.sig.conv /\ e.on = f.on => e = f

\* A call that is under way has a signal.
Calls ==
  {c \in [at : Places, sig : Signals \cup {<<>>}, on : 0..MaxGeneration,
          by : 0..MaxAttempts] : c.at \notin {"idle", "done"} => c.sig \in Signals}

Bodies == [pc : {"idle", "tooling", "resuming", "flushing", "overtaken"},
           fresh : BOOLEAN, on : 0..MaxGeneration]

TypeInv ==
  /\ {rpc, user, authDue, coordinator, installed, suspended, starting, closed}
       \subseteq BOOLEAN
  /\ login \in 0..MaxLogins
  /\ attempt \in [Attempts -> Bodies]
  /\ buffer \subseteq Signals
  /\ \A s, t \in buffer : s.conv = t.conv => s = t
  /\ Cardinality(buffer) <= MaxPending
  /\ catchUps \subseteq [sig : Signals, on : 0..MaxGeneration]
  /\ claims \subseteq [sig : Signals, on : 0..MaxGeneration, by : Attempts]
  /\ handler \in [Requests -> Calls]
  /\ running \subseteq Requests
  /\ probes \subseteq [run : Requests, by : {"resume", "sweep"}]
  /\ stoppedFor \in [0..MaxGeneration -> {"none", "stopped", "auth"}]
  /\ arrived \in 0..MaxSignals
  /\ owed \subseteq Signals /\ discarded \subseteq Signals
  /\ completions \in [Requests -> Nat]
  /\ WindowsAreUnique
  /\ authDue => login < MaxLogins

\* TypeInv says what BridgeTypeOK says, with the records named.
LEMMA TypeInvIsTyped == TypeInv => BridgeTypeOK
<1>1. handler \in [Requests -> Calls] =>
        handler \in [Requests -> [at : Places, sig : Signals \cup {<<>>},
                                  on : 0..MaxGeneration, by : 0..MaxAttempts]]
  BY DEF Calls
<1> QED
  BY <1>1 DEF TypeInv, BridgeTypeOK, Bodies

\* A window keeps one of the signals it was offered.
LEMMA NewestCoalesced ==
  ASSUME TypeInv, NEW s \in Signals, NEW b
  PROVE  /\ Coalesced(s, b) \subseteq Signals
         /\ Newest(Coalesced(s, b)) \in Coalesced(s, b)
         /\ Newest(Coalesced(s, b)).conv = s.conv
<1> DEFINE C == Coalesced(s, b)
<1>1. \A t \in C : t \in Signals /\ t.conv = s.conv
  BY DEF TypeInv, Coalesced, SameWindow
<1>2. \A t \in Signals : t.seq \in Nat
  BY BridgeBoundsAssumption DEF Signals
<1>3. \A t, u \in C : t = s \/ u = s \/ t = u
  BY DEF TypeInv, WindowsAreUnique, Coalesced, SameWindow
<1>4. s \in C
  BY DEF Coalesced
<1>5. \E t \in C : \A u \in C : u.seq <= t.seq
  <2>1. CASE \E t \in C : t # s /\ s.seq <= t.seq
    <3>1. PICK t \in C : t # s /\ s.seq <= t.seq
      BY <2>1
    <3>2. \A u \in C : u = s \/ u = t
      BY <1>3, <3>1
    <3> QED
      BY <1>1, <1>2, <3>1, <3>2
  <2>2. CASE \A t \in C : t # s => ~(s.seq <= t.seq)
    BY <1>1, <1>2, <1>4, <2>2
  <2> QED
    BY <2>1, <2>2
<1>6. Newest(C) \in C
  BY <1>5 DEF Newest
<1> QED
  BY <1>1, <1>6

\* An empty buffer is within its limit.
LEMMA EmptyBufferFits == Cardinality({}) <= MaxPending
BY FS_EmptySet, PendingAssumption

\* The types hold when the bridge starts.
LEMMA TypeInvInit == BridgeInit => TypeInv
<1> SUFFICES ASSUME BridgeInit PROVE TypeInv
  OBVIOUS
<1>1. MaxGeneration \in Nat /\ 0 \in 0..MaxGeneration
  BY MaxGenerationAssumption
<1>2. 0 \in 0..MaxAttempts /\ 0 \in 0..MaxLogins /\ 0 \in 0..MaxSignals
  BY BridgeBoundsAssumption
<1> QED
  BY <1>1, <1>2, EmptyBufferFits DEF BridgeInit, TypeInv, WindowsAreUnique,
     Idle, NotCalled, Places, Calls, Bodies

\* What the handlers share.
LEMMA QueuedType ==
  ASSUME NEW b \in SUBSET Signals, NEW ss \in SUBSET Signals,
         \A s, t \in b : s.conv = t.conv => s = t,
         \A s, t \in ss : s.conv = t.conv => s = t
  PROVE  /\ Queued(b, ss) \subseteq Signals
         /\ \A s, t \in Queued(b, ss) : s.conv = t.conv => s = t
BY DEF Queued, Replaced

\* What is queued and what is owed then: a signal that leaves the buffer, to a
\* newer one or to the limit, is owed no more.
LEMMA QueueDoes ==
  ASSUME NEW b, NEW ss, NEW still, Queue(b, ss, still)
  PROVE  /\ buffer' \subseteq Queued(b, ss)
         /\ buffer' \subseteq b \cup ss
         /\ owed' = still \ ((b \cup ss) \ buffer')
         /\ Cardinality(buffer') <= MaxPending
<1>1. PICK k \in Remaining(b, ss) :
        buffer' = k /\ owed' = still \ ((b \cup ss) \ k)
  BY DEF Queue
<1>2. k \subseteq Queued(b, ss) /\ Cardinality(k) <= MaxPending
  BY PendingAssumption DEF Remaining
<1>3. Queued(b, ss) \subseteq b \cup ss
  BY DEF Queued
<1> QED
  BY <1>1, <1>2, <1>3

\* Queueing keeps the types.
LEMMA QueueType ==
  ASSUME NEW b \in SUBSET Signals, NEW ss \in SUBSET Signals,
         \A s, t \in b : s.conv = t.conv => s = t,
         \A s, t \in ss : s.conv = t.conv => s = t,
         NEW still \in SUBSET Signals, Queue(b, ss, still)
  PROVE  /\ buffer' \subseteq Signals
         /\ \A s, t \in buffer' : s.conv = t.conv => s = t
         /\ Cardinality(buffer') <= MaxPending
         /\ owed' \subseteq Signals
<1>1. \A s, t \in Queued(b, ss) : s.conv = t.conv => s = t
  BY QueuedType
<1>2. Queued(b, ss) \subseteq Signals
  BY QueuedType
<1> QED
  BY <1>1, <1>2, QueueDoes

\* A window that opens or is renewed holds a signal.
LEMMA OpenWindowType ==
  ASSUME TypeInv, NEW s \in Signals, NEW b \in 0..MaxGeneration,
         NEW still \in SUBSET Signals, OpenWindow(s, b, still)
  PROVE  /\ catchUps' \subseteq [sig : Signals, on : 0..MaxGeneration]
         /\ WindowsAreUnique'
         /\ owed' \subseteq Signals
         /\ handler' = handler
<1>1. PICK t \in Signals : t = Newest(Coalesced(s, b)) /\ t.conv = s.conv
  BY NewestCoalesced
<1>2. catchUps' = (catchUps \ SameWindow(s, b)) \cup {[sig |-> t, on |-> b]}
  BY <1>1 DEF OpenWindow
<1>3. catchUps' \subseteq [sig : Signals, on : 0..MaxGeneration]
  BY <1>1, <1>2 DEF TypeInv
<1>4. WindowsAreUnique'
  <2>1. \A e \in catchUps' \ {[sig |-> t, on |-> b]} :
           e \in catchUps /\ ~(e.sig.conv = t.conv /\ e.on = b)
    BY <1>1, <1>2 DEF SameWindow
  <2>2. \A e \in catchUps' : e = [sig |-> t, on |-> b] \/ e \in catchUps' \ {[sig |-> t, on |-> b]}
    OBVIOUS
  <2> QED
    BY <2>1, <2>2, <1>2 DEF WindowsAreUnique, TypeInv
<1> QED
  BY <1>3, <1>4 DEF OpenWindow

\* A call that begins is well formed.
LEMMA DispatchType ==
  ASSUME TypeInv, NEW s \in Signals, NEW b \in 0..MaxGeneration,
         NEW by \in 0..MaxAttempts, Dispatch(s, b, by)
  PROVE  handler' \in [Requests -> Calls]
BY DEF TypeInv, Calls, Dispatch, Places

\* So are both ways to handle a signal.
LEMMA HandleSignalType ==
  ASSUME TypeInv, NEW s \in Signals, NEW b \in 0..MaxGeneration,
         NEW by \in 0..MaxAttempts, NEW still \in SUBSET Signals,
         HandleSignal(s, b, by, still)
  PROVE  /\ catchUps' \subseteq [sig : Signals, on : 0..MaxGeneration]
         /\ WindowsAreUnique'
         /\ owed' \subseteq Signals
         /\ handler' \in [Requests -> Calls]
<1>1. CASE s.conv \in Airflow
  <2>1. OpenWindow(s, b, still)
    BY <1>1 DEF HandleSignal
  <2> QED
    BY <2>1, OpenWindowType DEF TypeInv
<1>2. CASE s.conv \notin Airflow
  <2>1. Dispatch(s, b, by) /\ owed' = still /\ UNCHANGED catchUps
    BY <1>2 DEF HandleSignal
  <2> QED
    BY <2>1, DispatchType DEF TypeInv, WindowsAreUnique
<1> QED
  BY <1>1, <1>2

\* A new generation leaves well-formed attempts and no probe.
LEMMA NewGenerationType ==
  ASSUME TypeInv, NewGeneration
  PROVE  /\ starting' \in BOOLEAN
         /\ attempt' \in [Attempts -> Bodies]
         /\ probes' \subseteq [run : Requests, by : {"resume", "sweep"}]
<1>1. 0 \in 0..MaxGeneration
  BY MaxGenerationAssumption
<1> QED
  BY <1>1 DEF TypeInv, Bodies, NewGeneration, Overtaken

\* Rejecting the requests in flight moves calls to "failed".
LEMMA RejectedType ==
  ASSUME TypeInv
  PROVE  Rejected(handler) \in [Requests -> Calls]
<1>1. \A c \in Calls : c.at \notin {"idle", "done"}
                          => [c EXCEPT !.at = "failed"] \in Calls
  BY DEF Calls, Places
<1> QED
  BY <1>1 DEF TypeInv, Rejected

\* Stopping the bridge keeps the types.
LEMMA StopType ==
  ASSUME TypeInv, NEW reason \in {"stopped", "auth"},
         NEW b \in SUBSET Signals, NEW hs, NEW still \in SUBSET Signals,
         \A s, t \in b : s.conv = t.conv => s = t,
         StopCsBridge(reason, b, hs, still)
  PROVE  /\ {starting', installed', suspended', closed'} \subseteq BOOLEAN
         /\ attempt' \in [Attempts -> Bodies]
         /\ buffer' \subseteq Signals
         /\ \A s, t \in buffer' : s.conv = t.conv => s = t
         /\ Cardinality(buffer') <= MaxPending /\ owed' \subseteq Signals
         /\ catchUps' \subseteq [sig : Signals, on : 0..MaxGeneration]
         /\ WindowsAreUnique'
         /\ handler' = hs
         /\ probes' \subseteq [run : Requests, by : {"resume", "sweep"}]
         /\ stoppedFor' \in [0..MaxGeneration -> {"none", "stopped", "auth"}]
<1>1. HandsOver(reason) \in SUBSET Signals
  BY DEF HandsOver, Windows, TypeInv
<1>2. \A s, t \in HandsOver(reason) : s.conv = t.conv => s = t
  BY DEF HandsOver, Windows, TypeInv, WindowsAreUnique
<1>3. /\ buffer' \subseteq Signals
      /\ \A s, t \in buffer' : s.conv = t.conv => s = t
      /\ Cardinality(buffer') <= MaxPending /\ owed' \subseteq Signals
  <2>1. Queue(b, HandsOver(reason), still)
    BY DEF StopCsBridge
  <2> QED
    BY <1>1, <1>2, <2>1, QueueType
<1>4. stoppedFor' \in [0..MaxGeneration -> {"none", "stopped", "auth"}]
  BY DEF StopCsBridge, TypeInv
<1>5. /\ catchUps' \subseteq catchUps
      /\ catchUps' \subseteq [sig : Signals, on : 0..MaxGeneration]
  BY DEF StopCsBridge, TypeInv
<1>6. WindowsAreUnique'
  BY <1>5 DEF TypeInv, WindowsAreUnique
<1> QED
  BY <1>3, <1>4, <1>5, <1>6, NewGenerationType DEF StopCsBridge

\* A pass of the replay keeps the types.
LEMMA FlushType ==
  ASSUME TypeInv, NEW a \in Attempts, NEW b \in 0..MaxGeneration,
         FlushPass(a, b) \/ FlushPassEnds(a) \/ Finish(a)
  PROVE  attempt' \in [Attempts -> Bodies] /\ starting' \in BOOLEAN
<1>1. Idle \in Bodies
  BY MaxGenerationAssumption DEF Idle, Bodies
<1>2. attempt \in [Attempts -> Bodies] /\ starting \in BOOLEAN
  BY DEF TypeInv, Bodies
<1>3. \A c \in Bodies : [c EXCEPT !.pc = "flushing", !.on = b] \in Bodies
  BY DEF Bodies
<1>4. \A c \in Bodies : [attempt EXCEPT ![a] = c] \in [Attempts -> Bodies]
  BY <1>2
<1>5. Finish(a) => attempt' \in [Attempts -> Bodies] /\ starting' \in BOOLEAN
  BY <1>1, <1>4 DEF Finish, StillStarting
<1>6. FlushPass(a, b) => attempt' \in [Attempts -> Bodies] /\ starting' \in BOOLEAN
  BY <1>2, <1>3, <1>4, <1>5 DEF FlushPass
<1>7. FlushPassEnds(a) => attempt' \in [Attempts -> Bodies] /\ starting' \in BOOLEAN
  BY <1>2, <1>5 DEF FlushPassEnds
<1> QED
  BY <1>5, <1>6, <1>7

\* A pass that goes on keeps them too.
LEMMA FlushedType ==
  ASSUME TypeInv, NEW a \in Attempts, NEW b \in 0..MaxGeneration,
         generation \in 0..MaxGeneration, FlushPass(a, b) \/ FlushPassEnds(a)
  PROVE  /\ buffer' \subseteq Signals
         /\ \A s, t \in buffer' : s.conv = t.conv => s = t
         /\ Cardinality(buffer') <= MaxPending
         /\ claims' \subseteq [sig : Signals, on : 0..MaxGeneration, by : Attempts]
<1>1. buffer' = buffer \/ buffer' = {}
  BY DEF FlushPass, FlushPassEnds
<1>2. Cardinality(buffer') <= MaxPending
  BY <1>1, EmptyBufferFits DEF TypeInv
<1> QED
  BY <1>2 DEF FlushPass, FlushPassEnds, TypeInv

\* A call that moves on or returns is well formed.
LEMMA PlaceType ==
  ASSUME TypeInv, NEW h \in Requests
  PROVE  /\ \A place \in Places \ {"idle", "done"} :
              Goes(h, place) /\ handler[h].at \notin {"idle", "done"}
                => handler' \in [Requests -> Calls]
         /\ Returns(h) => handler' \in [Requests -> Calls]
<1>1. NotCalled("done") \in Calls
  BY MaxGenerationAssumption, BridgeBoundsAssumption DEF Places, NotCalled, Calls
<1>2. handler \in [Requests -> Calls] /\ handler[h] \in Calls
  BY DEF TypeInv
<1>3. \A c \in Calls : \A place \in Places :
        c.at \notin {"idle", "done"} => [c EXCEPT !.at = place] \in Calls
  BY DEF Calls
<1>4. \A c \in Calls : [handler EXCEPT ![h] = c] \in [Requests -> Calls]
  BY <1>2
<1>5. ASSUME NEW place \in Places, Goes(h, place), handler[h].at \notin {"idle", "done"}
      PROVE  handler' \in [Requests -> Calls]
  BY <1>2, <1>3, <1>4, <1>5 DEF Goes
<1>6. ASSUME Returns(h)
      PROVE  handler' \in [Requests -> Calls]
  BY <1>1, <1>4, <1>6 DEF Returns
<1> QED
  BY <1>5, <1>6

\* Completing a run counts it.
LEMMA CompletesType ==
  ASSUME TypeInv, NEW h \in Requests, Completes(h)
  PROVE  handler' \in [Requests -> Calls] /\ completions' \in [Requests -> Nat]
BY PlaceType DEF Completes, TypeInv

\* Each step keeps the types.
LEMMA TypeInvStep ==
  ASSUME TypeInv, generation \in 0..MaxGeneration, [BridgeNext]_bridgeVars
  PROVE  TypeInv'
<1> USE DEF TypeInv, lifecycleVars, workVars, runVars, worldVars,
        historyVars, WindowsAreUnique
<1>1. CASE RpcConnects
  BY <1>1 DEF RpcConnects
<1>2. CASE RpcDrops
  BY <1>2, NewGenerationType, RejectedType DEF RpcDrops
<1>3. CASE GatewayStops
  <2>1. StopCsBridge("stopped", buffer, Rejected(handler), owed)
    BY <1>3 DEF GatewayStops
  <2>2. closed' = FALSE
    BY <2>1 DEF StopCsBridge
  <2>3. handler' \in [Requests -> Calls]
    BY <2>1, RejectedType DEF StopCsBridge
  <2>4. running' = {} /\ rpc' = FALSE /\ coordinator' = FALSE
    BY <1>3 DEF GatewayStops
  <2>5. UNCHANGED <<user, authDue, login, claims, completions, arrived, discarded>>
    BY <1>3 DEF GatewayStops
  <2>6. \A s, t \in buffer : s.conv = t.conv => s = t
    OBVIOUS
  <2> QED
    BY <2>1, <2>2, <2>3, <2>4, <2>5, <2>6, StopType
<1>4. CASE UserChanges
  BY <1>4, BridgeBoundsAssumption DEF UserChanges
<1>5. CASE AuthChange
  <2>1. StopCsBridge("auth", {}, handler, owed \ GivenUp)
    BY <1>5 DEF AuthChange
  <2>2. closed' = FALSE
    BY <2>1 DEF StopCsBridge
  <2>3. GivenUp \subseteq Signals
    <3>1. \A h \in Requests : handler[h].at \in {"setup", "gate"}
                                => handler[h].sig \in Signals
      BY DEF Calls
    <3> QED
      BY <3>1 DEF GivenUp
  <2>4. login' \in 0..MaxLogins
    BY <1>5, BridgeBoundsAssumption DEF AuthChange
  <2>5. /\ discarded' \subseteq Signals
        /\ authDue' = FALSE
        /\ UNCHANGED <<rpc, user, coordinator, claims, running, completions, arrived>>
    BY <1>5, <2>3 DEF AuthChange
  <2>6. handler' = handler
    BY <2>1 DEF StopCsBridge
  <2>7. /\ {} \in SUBSET Signals /\ \A s, t \in {} : s.conv = t.conv => s = t
        /\ owed \ GivenUp \in SUBSET Signals
    OBVIOUS
  <2>8. /\ {starting', installed', suspended', closed'} \subseteq BOOLEAN
        /\ attempt' \in [Attempts -> Bodies]
        /\ buffer' \subseteq Signals
        /\ \A s, t \in buffer' : s.conv = t.conv => s = t
        /\ Cardinality(buffer') <= MaxPending /\ owed' \subseteq Signals
        /\ catchUps' \subseteq [sig : Signals, on : 0..MaxGeneration]
        /\ WindowsAreUnique'
        /\ probes' \subseteq [run : Requests, by : {"resume", "sweep"}]
        /\ stoppedFor' \in [0..MaxGeneration -> {"none", "stopped", "auth"}]
    BY <2>1, <2>2, <2>7, StopType
  <2> QED
    BY <2>4, <2>5, <2>6, <2>8
<1>6. ASSUME NEW c \in Conversations, SignalArrives(c) PROVE TypeInv'
  <2> DEFINE s == [conv |-> c, seq |-> arrived', login |-> login]
  <2>1. arrived' \in 1..MaxSignals /\ s \in Signals
    BY <1>6, BridgeBoundsAssumption DEF SignalArrives, Signals
  <2>2. 0 \in 0..MaxAttempts
    BY BridgeBoundsAssumption
  <2>5. UNCHANGED <<worldVars, lifecycleVars, claims, runVars, stoppedFor, discarded>>
    BY <1>6 DEF SignalArrives
  <2> HIDE DEF s
  <2>3. CASE installed
    <3>1. HandleSignal(s, generation, 0, owed \cup {s}) /\ UNCHANGED buffer
      BY <1>6, <2>3 DEF SignalArrives, s
    <3>2. owed \cup {s} \in SUBSET Signals
      BY <2>1
    <3>3. /\ catchUps' \subseteq [sig : Signals, on : 0..MaxGeneration]
          /\ WindowsAreUnique'
          /\ owed' \subseteq Signals
          /\ handler' \in [Requests -> Calls]
      BY <2>1, <2>2, <3>1, <3>2, HandleSignalType
    <3> QED
      BY <2>1, <2>5, <3>1, <3>3
  <2>4. CASE ~installed
    <3>1. /\ Queue(buffer, {s}, owed \cup {s})
          /\ UNCHANGED <<catchUps, handler>>
      BY <1>6, <2>4 DEF SignalArrives, s
    <3>2. /\ buffer' \subseteq Signals
          /\ \A t, u \in buffer' : t.conv = u.conv => t = u
          /\ Cardinality(buffer') <= MaxPending
          /\ owed' \subseteq Signals
      <4>1. owed \cup {s} \in SUBSET Signals /\ {s} \in SUBSET Signals
        BY <2>1
      <4> QED
        BY <3>1, <4>1, QueueType
    <3>3. WindowsAreUnique'
      BY <3>1
    <3>4. UNCHANGED <<catchUps, handler>>
      BY <3>1
    <3> QED
      BY <2>1, <2>5, <3>2, <3>3, <3>4
  <2> QED
    BY <2>3, <2>4
<1>7. CASE TryStart
  <2>1. CASE starting \/ ~user \/ (installed /\ ~suspended)
    BY <1>7, <2>1 DEF TryStart
  <2>2. CASE ~(starting \/ ~user \/ (installed /\ ~suspended))
    <3>1. /\ attempt' \in [Attempts -> Bodies]
          /\ starting' = TRUE /\ closed' \in BOOLEAN
          /\ UNCHANGED <<installed, suspended>>
      <4>1. /\ [pc |-> "resuming", fresh |-> TRUE, on |-> generation] \in Bodies
            /\ [pc |-> "tooling", fresh |-> TRUE, on |-> 0] \in Bodies
        BY MaxGenerationAssumption DEF Bodies
      <4>2. \A a \in Attempts : \A c \in Bodies :
               [attempt EXCEPT ![a] = c] \in [Attempts -> Bodies]
        OBVIOUS
      <4>3. CASE installed
        BY <1>7, <2>2, <4>1, <4>2, <4>3 DEF TryStart
      <4>4. CASE ~installed
        BY <1>7, <2>2, <4>1, <4>2, <4>4 DEF TryStart
      <4> QED
        BY <4>3, <4>4
    <3>2. probes' \subseteq [run : Requests, by : {"resume", "sweep"}]
      BY <1>7, <2>2 DEF TryStart, Pending
    <3> QED
      BY <1>7, <3>1, <3>2 DEF TryStart
  <2> QED
    BY <2>1, <2>2
<1>8. ASSUME NEW a \in Attempts, ToolingReady(a) PROVE TypeInv'
  BY <1>8, FlushType, FlushedType DEF ToolingReady, Install
<1>9. ASSUME NEW a \in Attempts, Resumed(a) PROVE TypeInv'
  BY <1>9, FlushType, FlushedType DEF Resumed
<1>10. ASSUME NEW a \in Attempts, Returned(a) PROVE TypeInv'
  BY <1>10, FlushType DEF Returned
<1>11. ASSUME NEW a \in Attempts, FlushPassEnds(a) PROVE TypeInv'
  BY <1>11, FlushType, FlushedType DEF FlushPassEnds
<1>12. ASSUME NEW k \in claims, ReplayStarts(k) PROVE TypeInv'
  <2>1. k.sig \in Signals /\ k.on \in 0..MaxGeneration /\ k.by \in 0..MaxAttempts
    BY BridgeBoundsAssumption DEF Attempts
  <2> QED
    BY <1>12, <2>1, HandleSignalType DEF ReplayStarts
<1>13. ASSUME NEW e \in catchUps, WindowEnds(e) PROVE TypeInv'
  BY <1>13, DispatchType, BridgeBoundsAssumption DEF WindowEnds
<1>14. ASSUME NEW h \in Requests,
              SetupFails(h) \/ ReachesGate(h) \/ Granted(h) \/ AgentAccepts(h)
                \/ AgentFails(h) \/ Failed(h)
       PROVE  TypeInv'
  <2>1. CASE SetupFails(h) \/ ReachesGate(h)
    BY <2>1, PlaceType DEF SetupFails, ReachesGate, Places
  <2>2. CASE Granted(h) \/ AgentAccepts(h)
    <3>1. handler' \in [Requests -> Calls]
      BY <2>2, PlaceType DEF Granted, AgentAccepts, Places
    <3> QED
      BY <2>2, <3>1 DEF Granted, AgentAccepts
  <2>3. CASE AgentFails(h)
    BY <2>3, PlaceType DEF AgentFails, Places
  <2>4. CASE Failed(h)
    <3>1. handler' \in [Requests -> Calls]
      BY <2>4, PlaceType DEF Failed
    <3>2. owed' \subseteq owed
      BY <2>4 DEF Failed
    <3> QED
      BY <2>4, <3>1, <3>2 DEF Failed
  <2> QED
    BY <1>14, <2>1, <2>2, <2>3, <2>4
<1>15. ASSUME NEW h \in Requests, AgentReplies(h) PROVE TypeInv'
  <2>1. \A c \in Calls : c.at \notin {"idle", "done"}
                            => [c EXCEPT !.at = "run", !.by = 0] \in Calls
    <3>1. 0 \in 0..MaxAttempts /\ "run" \in Places
      BY BridgeBoundsAssumption DEF Places
    <3> QED
      BY <3>1 DEF Calls
  <2>2. handler' \in [Requests -> Calls]
    BY <1>15, <2>1 DEF AgentReplies
  <2> QED
    BY <1>15, <2>2 DEF AgentReplies
<1>16. ASSUME NEW h \in Requests, Cancelled(h) PROVE TypeInv'
  <2>1. handler[h].sig \in Signals
    BY <1>16 DEF Cancelled, Calls
  <2>2. /\ buffer' \subseteq Signals
        /\ \A s, t \in buffer' : s.conv = t.conv => s = t
        /\ Cardinality(buffer') <= MaxPending
        /\ owed' \subseteq Signals
    <3>1. Queue(buffer, {handler[h].sig}, owed) \/ UNCHANGED <<buffer, owed>>
      BY <1>16 DEF Cancelled
    <3>2. {handler[h].sig} \in SUBSET Signals
      BY <2>1
    <3> QED
      BY <3>1, <3>2, QueueType
  <2> QED
    BY <1>16, <2>2, PlaceType DEF Cancelled
<1>17. ASSUME NEW h \in Requests, RunEnds(h) PROVE TypeInv'
  BY <1>17, CompletesType DEF RunEnds
<1>18. ASSUME NEW h \in Requests, SweepProbes(h) PROVE TypeInv'
  BY <1>18 DEF SweepProbes
<1>19. ASSUME NEW p \in probes, ProbeFindsNothing(p) PROVE TypeInv'
  BY <1>19 DEF ProbeFindsNothing
<1>20. ASSUME NEW p \in probes, ProbeCompletes(p) PROVE TypeInv'
  BY <1>20, CompletesType DEF ProbeCompletes
<1>21. CASE UNCHANGED bridgeVars
  BY <1>21 DEF bridgeVars
<1> QED
  BY <1>1, <1>2, <1>3, <1>4, <1>5, <1>6, <1>7, <1>8, <1>9, <1>10, <1>11,
     <1>12, <1>13, <1>14, <1>15, <1>16, <1>17, <1>18, <1>19, <1>20, <1>21
     DEF BridgeNext
-----------------------------------------------------------------------------
(***************************************************************************)
(* The attempts to start the bridge.  OneAttempt needs that an attempt     *)
(* before its first await or between its awaits is of the present          *)
(* generation unless it was told that it is overtaken; the closed gate,    *)
(* that an attempt which is about to resume has a connected gateway.       *)
(***************************************************************************)

AttemptInv ==
  /\ OneAttempt
  /\ \A a \in Attempts :
       /\ attempt[a].pc = "idle" => ~attempt[a].fresh
       /\ attempt[a].pc \in {"tooling", "resuming"} => attempt[a].fresh

GateInv ==
  /\ coordinator => rpc
  /\ \A a \in Attempts : attempt[a].pc = "resuming" => rpc /\ installed
  /\ ClosedBridgeAdmitsNobody

LifecycleInv == AttemptInv /\ GateInv

\* No attempt is under way when the bridge starts.
LEMMA LifecycleInvInit == BridgeInit => LifecycleInv
BY DEF BridgeInit, LifecycleInv, AttemptInv, GateInv, OneAttempt, Idle,
       ClosedBridgeAdmitsNobody

\* A stop or a disconnect leaves no attempt of the present generation.
LEMMA NewGenerationAttempts ==
  ASSUME TypeInv, AttemptInv, NewGeneration
  PROVE  AttemptInv' /\ \A a \in Attempts : attempt'[a].pc # "resuming"
BY DEF TypeInv, Bodies, AttemptInv, OneAttempt, NewGeneration, Overtaken

\* An attempt that ends opens the gate of tryStartCsBridge() if it held it.
LEMMA FinishAttempts ==
  ASSUME TypeInv, AttemptInv, NEW a \in Attempts, Finish(a)
  PROVE  /\ AttemptInv'
         /\ \A b \in Attempts : attempt'[b].pc = "resuming" => attempt[b].pc = "resuming"
BY DEF TypeInv, Bodies, AttemptInv, OneAttempt, Finish, StillStarting, Idle

\* A pass of the replay starts no attempt.
LEMMA FlushAttempts ==
  ASSUME TypeInv, AttemptInv, NEW a \in Attempts, NEW b \in 0..MaxGeneration,
         FlushPass(a, b), attempt[a].pc # "idle"
  PROVE  /\ AttemptInv'
         /\ \A c \in Attempts : attempt'[c].pc = "resuming" => attempt[c].pc = "resuming"
<1>1. CASE buffer = {}
  BY <1>1, FinishAttempts DEF FlushPass
<1>2. CASE buffer # {}
  <2>1. /\ attempt' = [attempt EXCEPT ![a] = [@ EXCEPT !.pc = "flushing", !.on = b]]
        /\ UNCHANGED starting
    BY <1>2 DEF FlushPass
  <2>2. \A c \in Bodies : /\ [c EXCEPT !.pc = "flushing", !.on = b].pc = "flushing"
                          /\ [c EXCEPT !.pc = "flushing", !.on = b].fresh = c.fresh
    BY DEF Bodies
  <2>3. \A c \in Attempts : /\ attempt'[c].fresh = attempt[c].fresh
                            /\ attempt'[c].pc = IF c = a THEN "flushing" ELSE attempt[c].pc
    BY <2>1, <2>2 DEF TypeInv
  <2> QED
    BY <2>1, <2>3 DEF AttemptInv, OneAttempt
<1> QED
  BY <1>1, <1>2

\* The coordinator starts an attempt only when none holds the gate.
LEMMA TryStartLifecycle ==
  ASSUME TypeInv, generation \in 0..MaxGeneration, LifecycleInv, TryStart
  PROVE  LifecycleInv'
<1> USE DEF LifecycleInv, GateInv, ClosedBridgeAdmitsNobody
<1>1. CASE starting \/ ~user \/ (installed /\ ~suspended)
  BY <1>1 DEF TryStart, AttemptInv, OneAttempt, lifecycleVars, admissionVars
<1>2. CASE ~(starting \/ ~user \/ (installed /\ ~suspended))
  <2>1. PICK a \in Attempts :
          /\ attempt[a].pc = "idle"
          /\ starting' = TRUE
          /\ attempt' = IF installed
               THEN [attempt EXCEPT ![a] =
                       [pc |-> "resuming", fresh |-> TRUE, on |-> generation]]
               ELSE [attempt EXCEPT ![a] =
                       [pc |-> "tooling", fresh |-> TRUE, on |-> 0]]
    BY <1>2 DEF TryStart
  <2>2. \A b \in Attempts : ~attempt[b].fresh
    BY <1>2 DEF AttemptInv, OneAttempt
  <2>3. \A b \in Attempts :
          /\ attempt'[b].fresh <=> b = a
          /\ attempt'[b].pc = IF b # a THEN attempt[b].pc
                              ELSE IF installed THEN "resuming" ELSE "tooling"
    BY <2>1, <2>2 DEF TypeInv, Bodies
  <2>4. AttemptInv'
    BY <2>1, <2>2, <2>3 DEF AttemptInv, OneAttempt
  <2>5. /\ coordinator /\ ~coordinator' /\ rpc
        /\ UNCHANGED <<rpc, installed>>
    BY <1>2 DEF TryStart, worldVars
  <2> QED
    BY <2>3, <2>4, <2>5
<1> QED
  BY <1>1, <1>2

\* Each step keeps one attempt at the gate and a closed bridge closed.
LEMMA LifecycleInvStep ==
  ASSUME TypeInv, generation \in 0..MaxGeneration, LifecycleInv,
         [BridgeNext]_bridgeVars
  PROVE  LifecycleInv'
<1> USE DEF LifecycleInv, GateInv, ClosedBridgeAdmitsNobody
<1>1. ASSUME UNCHANGED <<rpc, coordinator, lifecycleVars, paused>>
      PROVE  LifecycleInv'
  BY <1>1 DEF lifecycleVars, AttemptInv, OneAttempt
<1>2. ASSUME NEW h \in Requests, GivesBack(h)
      PROVE  UNCHANGED paused
  BY <1>2 DEF GivesBack, Release, ReleaseLeases, admissionVars
<1>3. ASSUME NEW h \in Requests, Completes(h)
      PROVE  UNCHANGED paused
  BY <1>2, <1>3 DEF Completes
<1>4. CASE RpcConnects
  BY <1>4 DEF RpcConnects, lifecycleVars, admissionVars, AttemptInv, OneAttempt
<1>5. CASE RpcDrops
  <2>1. AttemptInv' /\ \A a \in Attempts : attempt'[a].pc # "resuming"
    BY <1>5, NewGenerationAttempts DEF RpcDrops
  <2>2. /\ coordinator' = FALSE /\ rpc' = FALSE /\ installed' = installed
        /\ installed => closed' /\ paused'
    BY <1>5 DEF RpcDrops, Pause, admissionVars
  <2> QED
    BY <2>1, <2>2
<1>6. CASE GatewayStops \/ AuthChange
  <2>1. NewGeneration /\ installed' = FALSE
    BY <1>6 DEF GatewayStops, AuthChange, StopCsBridge
  <2>2. AttemptInv' /\ \A a \in Attempts : attempt'[a].pc # "resuming"
    BY <2>1, NewGenerationAttempts
  <2>3. installed' = FALSE
    BY <2>1
  <2>4. coordinator' => rpc'
    BY <1>6 DEF GatewayStops, AuthChange
  <2> QED
    BY <2>2, <2>3, <2>4
<1>7. CASE TryStart
  BY <1>7, TryStartLifecycle
<1>8. ASSUME NEW a \in Attempts, ToolingReady(a) PROVE LifecycleInv'
  <2>1. UNCHANGED <<rpc, coordinator>> /\ attempt[a].pc = "tooling"
    BY <1>8 DEF ToolingReady, worldVars
  <2>2. CASE Install(a) /\ MayInstall
    BY <2>1, <2>2, FlushAttempts DEF Install, MayInstall
  <2>3. CASE Finish(a) /\ UNCHANGED <<installed, closed, admissionVars>>
    BY <2>1, <2>3, FinishAttempts DEF admissionVars
  <2> QED
    BY <1>8, <2>2, <2>3 DEF ToolingReady
<1>9. ASSUME NEW a \in Attempts, Resumed(a) PROVE LifecycleInv'
  BY <1>9, FlushAttempts DEF Resumed, worldVars
<1>10. ASSUME NEW a \in Attempts, Returned(a) PROVE LifecycleInv'
  BY <1>10, FinishAttempts DEF Returned, worldVars, admissionVars
<1>11. ASSUME NEW a \in Attempts, FlushPassEnds(a) PROVE LifecycleInv'
  <2>1. UNCHANGED <<rpc, coordinator, installed, closed, paused>>
    BY <1>11 DEF FlushPassEnds, worldVars, admissionVars
  <2>2. Finish(a) \/ UNCHANGED <<attempt, starting>>
    BY <1>11 DEF FlushPassEnds
  <2> QED
    BY <2>1, <2>2, FinishAttempts DEF AttemptInv, OneAttempt
<1>12. ASSUME NEW h \in Requests, ReachesGate(h) PROVE LifecycleInv'
  BY <1>1, <1>12 DEF ReachesGate, AcquireQueued, Join, worldVars, admissionVars
<1>13. ASSUME NEW h \in Requests, Failed(h) PROVE LifecycleInv'
  BY <1>1, <1>2, <1>13 DEF Failed, worldVars
<1>14. ASSUME NEW h \in Requests, RunEnds(h) PROVE LifecycleInv'
  BY <1>1, <1>3, <1>14 DEF RunEnds, worldVars, admissionVars
<1>15. ASSUME NEW p \in probes, ProbeCompletes(p) PROVE LifecycleInv'
  BY <1>1, <1>3, <1>15 DEF ProbeCompletes, Concerns, Pending, worldVars
<1>16. CASE \/ UserChanges \/ \E c \in Conversations : SignalArrives(c)
            \/ \E k \in claims : ReplayStarts(k)
            \/ \E e \in catchUps : WindowEnds(e)
            \/ \E p \in probes : ProbeFindsNothing(p)
            \/ UNCHANGED bridgeVars
  BY <1>1, <1>16 DEF UserChanges, SignalArrives, ReplayStarts, WindowEnds,
     ProbeFindsNothing, bridgeVars, worldVars, admissionVars
<1>17. CASE \E h \in Requests :
               \/ SetupFails(h) \/ Cancelled(h) \/ Granted(h) \/ AgentAccepts(h)
               \/ AgentReplies(h) \/ AgentFails(h) \/ SweepProbes(h)
  BY <1>1, <1>17 DEF SetupFails, Cancelled, Granted, AgentAccepts, AgentReplies,
     AgentFails, SweepProbes, worldVars, admissionVars
<1> QED
  BY <1>4, <1>5, <1>6, <1>7, <1>8, <1>9, <1>10, <1>11, <1>12, <1>13, <1>14,
     <1>15, <1>16, <1>17 DEF BridgeNext
-----------------------------------------------------------------------------
(***************************************************************************)
(* SignalsAreKept.  A dispatch that is not admitted gives its signal back  *)
(* to the buffer only if its bridge was stopped with the gateway.  So the  *)
(* argument needs what is known of a signal s that is on its way through   *)
(* bridge b and not admitted: Early(s, b).  The signals of a bridge that   *)
(* was stopped for a change of account are owed no more, later signals     *)
(* have later numbers, and the controller of the installed bridge turns    *)
(* nobody away.                                                            *)
(***************************************************************************)

Early(s, b) ==
  /\ s.seq <= arrived
  /\ b <= generation
  /\ b = generation => installed
  /\ stoppedFor[b] = "auth" => s \notin owed

UnderWay == {"setup", "gate", "agent", "accepted", "failed"}

KeptInv ==
  /\ SignalsAreKept
  /\ \A g \in 0..MaxGeneration :
       IF g < generation THEN stoppedFor[g] \in {"stopped", "auth"}
                         ELSE stoppedFor[g] = "none"
  /\ \A s \in buffer : s.seq <= arrived
  /\ \A k \in claims : Early(k.sig, k.on)
  /\ \A e \in catchUps : Early(e.sig, e.on)
  /\ \A h \in Requests :
       handler[h].at \in {"setup", "gate"} => Early(handler[h].sig, handler[h].on)
  /\ \A h \in Requests :
       handler[h].at = "gate" /\ handler[h].on = generation
         => status[h] \in {"queued", "granted"}

\* Nothing is owed when the bridge starts.
LEMMA KeptInvInit == BridgeInit => KeptInv
BY DEF BridgeInit, AdmissionInit, KeptInv, SignalsAreKept, NotCalled

\* The drain loop rejects nobody when the queue is of its generation.
LEMMA DrainTurnsNobodyAway ==
  ASSUME NEW q \in Seq(Requests), NEW occ \in 0..MaxConcurrent, NEW ls, NEW st, NEW born,
         \A i \in 1..Len(q) : born[q[i]] = generation,
         Drain(q, occ, ls, st, born)
  PROVE  \A r \in Requests : status'[r] = "granted" \/ status'[r] = st[r]
<1> DEFINE n == Taken(q, Room(occ), born, generation)
<1>1. Room(occ) \in Nat
  BY MaxConcurrentAssumption DEF Room
<1>2. n \in 0..Len(q) /\ Fresh(q, n, born, generation) = 1..n
  BY <1>1, TakenFromFreshQueue
<1>3. status' = [r \in Requests |->
         IF r \in {q[i] : i \in Fresh(q, n, born, generation)} THEN "granted"
         ELSE IF r \in {q[i] : i \in 1..n} THEN "rejected" ELSE st[r]]
  BY DEF Drain
<1> HIDE DEF n
<1> QED
  BY <1>2, <1>3

\* Short of a reset, who waits at the gate keeps waiting or is let in; and
\* acquire() on a controller that is not retired parks the caller.
LEMMA NobodyTurnedAway ==
  ASSUME AdmissionInv, [AdmissionNext]_admissionVars, generation' = generation
  PROVE  /\ \A r \in Requests : status[r] \in {"queued", "granted"}
                                  => status'[r] \in {"queued", "granted"}
         /\ \A r \in Requests : AcquireQueued(r) => status'[r] \in {"queued", "granted"}
<1>1. /\ queue \in Seq(Requests) /\ active \in 0..MaxConcurrent
      /\ status \in [Requests -> Status]
      /\ \A i \in 1..Len(queue) : bornIn[queue[i]] = generation /\ status[queue[i]] = "queued"
      /\ generation \in Nat
  BY DEF AdmissionInv, AdmissionTypeOK, Consistent
<1>2. ASSUME NEW r \in Requests, AcquireQueued(r)
      PROVE  /\ \A s \in Requests : status[s] \in {"queued", "granted"}
                                      => status'[s] \in {"queued", "granted"}
             /\ status'[r] \in {"queued", "granted"}
  <2> DEFINE st == [status EXCEPT ![r] = "queued"]
             born == [bornIn EXCEPT ![r] = generation]
             q == Append(queue, r)
  <2>1. Drain(q, active, leases, st, born)
    BY <1>2 DEF AcquireQueued, Join
  <2>2. q \in Seq(Requests)
    BY <1>1
  <2>3. \A i \in 1..Len(q) : born[q[i]] = generation
    BY <1>1 DEF AdmissionInv, AdmissionTypeOK
  <2> HIDE DEF q, born, st
  <2>4. \A s \in Requests : status'[s] = "granted" \/ status'[s] = st[s]
    BY <1>1, <2>1, <2>2, <2>3, DrainTurnsNobodyAway
  <2> QED
    BY <1>1, <2>4 DEF st
<1>3. ASSUME NEW rs \in SUBSET Requests, ReleaseLeases(rs),
             \A r \in rs : status[r] = "granted" /\ r \notin released
      PROVE  \A s \in Requests : status'[s] = "granted" \/ status'[s] = status[s]
  <2>1. CASE OfThisGeneration(rs) = {}
    BY <1>3, <2>1 DEF ReleaseLeases
  <2>2. CASE OfThisGeneration(rs) # {}
    <3> DEFINE back == Cardinality(OfThisGeneration(rs))
               occ == IF active > back THEN active - back ELSE 0
    <3>1. Drain(queue, occ, leases \ rs, status, bornIn)
      BY <1>3, <2>2 DEF ReleaseLeases
    <3>2. back \in 0..active
      BY <1>3, ReleaseKeepsConsistent
    <3>3. occ \in 0..MaxConcurrent
      BY <1>1, <3>2, MaxConcurrentAssumption
    <3> HIDE DEF occ
    <3> QED
      BY <1>1, <3>1, <3>3, DrainTurnsNobodyAway
  <2> QED
    BY <2>1, <2>2
<1>4. CASE \E r \in Requests : Release(r)
  <2>1. PICK r \in Requests : Release(r)
    BY <1>4
  <2>2. {r} \in SUBSET Requests /\ ReleaseLeases({r})
    BY <2>1 DEF Release
  <2>3. \A s \in {r} : status[s] = "granted" /\ s \notin released
    BY <2>1 DEF Release
  <2> QED
    BY <1>2, <1>3, <2>2, <2>3
<1>5. CASE Sweep
  <2>1. /\ aged \in SUBSET Requests
        /\ \A r \in aged : status[r] = "granted" /\ r \notin released
    BY DEF AdmissionInv, AdmissionTypeOK, Consistent
  <2> QED
    BY <1>2, <1>3, <1>5, <2>1 DEF Sweep
<1>6. CASE Resume
  <2>1. \A s \in Requests : status'[s] = "granted" \/ status'[s] = status[s]
    BY <1>1, <1>6, DrainTurnsNobodyAway DEF Resume
  <2> QED
    BY <1>2, <2>1
<1>7. CASE Reset
  BY <1>1, <1>7 DEF Reset
<1>8. CASE Pause \/ (\E r \in Requests : Age(r)) \/ UNCHANGED admissionVars
  BY <1>2, <1>8 DEF Pause, Age, admissionVars
<1>9. CASE \E r \in Requests : AcquireRetired(r)
  BY <1>1, <1>2, <1>9 DEF AcquireRetired
<1>10. CASE \E r \in Requests : AcquireQueued(r)
  BY <1>2, <1>10
<1> QED
  BY <1>4, <1>5, <1>6, <1>7, <1>8, <1>9, <1>10 DEF AdmissionNext, Acquire

\* What a step that neither stops the bridge nor brings a signal leaves as it
\* is, and what it may do.
LEMMA QuietStepKeeps ==
  ASSUME TypeInv, generation \in 0..MaxGeneration, KeptInv,
         UNCHANGED <<generation, stoppedFor, arrived>>,
         installed => installed',
         owed' \subseteq owed,
         \A s \in buffer' : s.seq <= arrived,
         \A k \in claims' : k \in claims \/ (k.sig \in buffer /\ k.on = generation /\ installed'),
         catchUps' \subseteq catchUps,
         \A h \in Requests : handler'[h].at \in {"setup", "gate"} =>
           /\ handler[h].at \in {"setup", "gate"}
           /\ handler'[h].sig = handler[h].sig /\ handler'[h].on = handler[h].on,
         \A h \in Requests : handler'[h].at = "gate" /\ handler'[h].on = generation =>
           status'[h] \in {"queued", "granted"},
         SignalsAreKept'
  PROVE  KeptInv'
<1>1. \A s, b : Early(s, b) => Early(s, b)'
  BY DEF Early
<1>2. \A k \in claims' : Early(k.sig, k.on)'
  <2> SUFFICES ASSUME NEW k \in claims', k \notin claims PROVE Early(k.sig, k.on)'
    BY <1>1 DEF KeptInv
  <2>1. stoppedFor[generation] = "none"
    BY DEF KeptInv
  <2> QED
    BY <2>1 DEF KeptInv, Early
<1> QED
  BY <1>1, <1>2 DEF KeptInv

\* When no signal that is still owed leaves its place without another place.
LEMMA OwedFollows ==
  ASSUME SignalsAreKept, owed' \subseteq owed,
         \A s \in buffer \cap owed' : s \in buffer' \/ \E k \in claims' : k.sig = s,
         claims \subseteq claims',
         catchUps \subseteq catchUps',
         \A h \in Requests : handler[h].at \in UnderWay /\ handler[h].sig \in owed' =>
           \/ handler'[h].at \in UnderWay /\ handler'[h].sig = handler[h].sig
           \/ handler[h].sig \in buffer'
  PROVE  SignalsAreKept'
BY DEF SignalsAreKept, OnItsWay, UnderWay

\* Call h goes to another place and no other call changes.
LEMMA GoesOn ==
  ASSUME TypeInv, NEW h \in Requests, NEW place, Goes(h, place)
  PROVE  /\ \A g \in Requests : handler'[g].sig = handler[g].sig /\ handler'[g].on = handler[g].on
         /\ \A g \in Requests : handler'[g].at = IF g = h THEN place ELSE handler[g].at
<1>1. \A c \in Calls : /\ [c EXCEPT !.at = place].sig = c.sig
                       /\ [c EXCEPT !.at = place].on = c.on
                       /\ [c EXCEPT !.at = place].at = place
  BY DEF Calls
<1>2. handler[h] \in Calls /\ handler \in [Requests -> Calls]
  BY DEF TypeInv
<1> QED
  BY <1>1, <1>2 DEF Goes

\* A call that returns is the only one that changes.
LEMMA ReturnsOnly ==
  ASSUME TypeInv, NEW h \in Requests, Returns(h)
  PROVE  /\ handler'[h].at = "done"
         /\ \A g \in Requests \ {h} : handler'[g] = handler[g]
BY DEF TypeInv, Returns, NotCalled

\* A socket that goes changes the calls that await an answer only.
LEMMA RejectedOnly ==
  ASSUME TypeInv
  PROVE  \A g \in Requests :
           /\ Rejected(handler)[g].sig = handler[g].sig
           /\ Rejected(handler)[g].on = handler[g].on
           /\ Rejected(handler)[g].at = IF handler[g].at \in {"agent", "accepted"}
                                        THEN "failed" ELSE handler[g].at
<1>1. \A c \in Calls : /\ [c EXCEPT !.at = "failed"].sig = c.sig
                       /\ [c EXCEPT !.at = "failed"].on = c.on
                       /\ [c EXCEPT !.at = "failed"].at = "failed"
  BY DEF Calls
<1> QED
  BY <1>1 DEF TypeInv, Rejected

\* Nobody at the gate of the installed bridge is turned away while it is not
\* stopped.
LEMMA GateHolds ==
  ASSUME AdmissionInv, [AdmissionNext]_admissionVars, KeptInv, generation' = generation,
         NEW h \in Requests, handler[h].at = "gate", handler[h].on = generation
  PROVE  status'[h] \in {"queued", "granted"}
BY NobodyTurnedAway DEF KeptInv

\* Steps that leave the work of the bridge where it is, but for handlers.
LEMMA HandlersMove ==
  ASSUME TypeInv, KeptInv, AdmissionInv, [AdmissionNext]_admissionVars,
         UNCHANGED <<generation, stoppedFor, arrived, buffer, claims, catchUps>>,
         installed => installed',
         owed' \subseteq owed,
         \A h \in Requests :
           \/ handler'[h].sig = handler[h].sig /\ handler'[h].on = handler[h].on
           \/ handler'[h].at \notin UnderWay,
         \A h \in Requests : handler'[h].at \in {"setup", "gate"} => handler'[h].at = handler[h].at,
         \A h \in Requests : handler[h].at \in UnderWay /\ handler[h].sig \in owed'
                               => handler'[h].at \in UnderWay
  PROVE  KeptInv'
<1>1. generation \in 0..MaxGeneration
  BY DEF AdmissionInv, AdmissionTypeOK
<1>2. \A h \in Requests : handler'[h].at \in {"setup", "gate"} =>
        /\ handler[h].at = handler'[h].at
        /\ handler'[h].sig = handler[h].sig /\ handler'[h].on = handler[h].on
  BY DEF UnderWay
<1>3. \A h \in Requests : handler'[h].at = "gate" /\ handler'[h].on = generation =>
        status'[h] \in {"queued", "granted"}
  BY <1>2, GateHolds
<1>4. SignalsAreKept'
  BY OwedFollows DEF KeptInv
<1>5. \A s \in buffer' : s.seq <= arrived
  BY DEF KeptInv
<1> QED
  BY <1>1, <1>2, <1>3, <1>4, <1>5, QuietStepKeeps

\* The passes of a replay, and an attempt that ends.
LEMMA ReplayKeeps ==
  ASSUME TypeInv, KeptInv, AdmissionInv, [AdmissionNext]_admissionVars,
         UNCHANGED <<generation, stoppedFor, arrived, catchUps, handler, owed>>,
         installed => installed',
         NEW a \in Attempts,
         \/ UNCHANGED <<buffer, claims>>
         \/ /\ claims' = claims \cup {[sig |-> s, on |-> generation, by |-> a] : s \in buffer}
            /\ buffer' = {} /\ installed'
  PROVE  KeptInv'
<1>1. generation \in 0..MaxGeneration
  BY DEF AdmissionInv, AdmissionTypeOK
<1>2. \A h \in Requests : handler'[h].at = "gate" /\ handler'[h].on = generation =>
        status'[h] \in {"queued", "granted"}
  BY GateHolds
<1>3. \A s \in buffer' : s.seq <= arrived
  BY DEF KeptInv
<1>4. \A k \in claims' : k \in claims \/ (k.sig \in buffer /\ k.on = generation /\ installed')
  OBVIOUS
<1>5. ASSUME NEW s \in buffer PROVE s \in buffer' \/ \E k \in claims' : k.sig = s
  <2>1. [sig |-> s, on |-> generation, by |-> a].sig = s
    OBVIOUS
  <2> QED
    BY <2>1
<1>6. SignalsAreKept'
  <2>1. claims \subseteq claims' /\ catchUps \subseteq catchUps'
    OBVIOUS
  <2> QED
    BY <1>5, <2>1, OwedFollows DEF KeptInv
<1> QED
  BY <1>1, <1>2, <1>3, <1>4, <1>6, QuietStepKeeps

\* A signal s that may start on bridge b, after which the signals of `still`
\* are owed: one that is new, or one that was on its way through b already.
Starts(s, b, still) ==
  /\ arrived <= arrived' /\ s.seq <= arrived'
  /\ b <= generation /\ (b = generation => installed)
  /\ stoppedFor[b] = "auth" => s \notin still
  /\ still \subseteq owed \cup {s}
  /\ s \in still => s \in owed \/ s.seq > arrived

\* What was on its way stays so.
LEMMA StartsKeepsEarly ==
  ASSUME TypeInv, UNCHANGED <<generation, stoppedFor, installed>>,
         arrived' \in Nat, NEW s \in Signals, NEW b, NEW still, Starts(s, b, still),
         owed' \subseteq still
  PROVE  /\ \A t \in Signals : \A c : Early(t, c) => Early(t, c)'
         /\ Early(s, b)'
<1>1. arrived \in Nat /\ \A t \in Signals : t.seq \in Nat
  BY BridgeBoundsAssumption DEF TypeInv, Signals
<1> QED
  BY <1>1 DEF Early, Starts

\* It starts in a handler, and leaves the replay or window it comes from.
LEMMA DispatchKeeps ==
  ASSUME TypeInv, KeptInv, AdmissionInv, [AdmissionNext]_admissionVars,
         UNCHANGED <<generation, stoppedFor, buffer, installed>>, arrived' \in Nat,
         NEW s \in Signals, NEW b \in 0..MaxGeneration, NEW by, NEW still,
         Starts(s, b, still), Dispatch(s, b, by), owed' = still,
         claims' \subseteq claims, \A k \in claims \ claims' : k.sig = s,
         catchUps' \subseteq catchUps, \A e \in catchUps \ catchUps' : e.sig = s
  PROVE  KeptInv'
<1>1. PICK h \in Requests :
        /\ handler[h].at = "idle"
        /\ handler' = [handler EXCEPT ![h] = [at |-> "setup", sig |-> s, on |-> b, by |-> by]]
  BY DEF Dispatch
<1>2. /\ handler'[h].at = "setup" /\ handler'[h].sig = s /\ handler'[h].on = b
      /\ \A g \in Requests \ {h} : handler'[g] = handler[g]
  BY <1>1 DEF TypeInv
<1>3. /\ \A t \in Signals : \A c : Early(t, c) => Early(t, c)'
      /\ Early(s, b)'
  BY StartsKeepsEarly
<1>4. SignalsAreKept'
  <2> SUFFICES ASSUME NEW t \in owed' PROVE t \in OnItsWay'
    BY DEF SignalsAreKept
  <2>1. CASE t = s
    BY <1>2, <2>1 DEF OnItsWay
  <2>2. CASE t # s
    <3>1. t \in OnItsWay
      BY <2>2 DEF Starts, KeptInv, SignalsAreKept
    <3> QED
      BY <1>1, <1>2, <2>2, <3>1 DEF OnItsWay
  <2> QED
    BY <2>1, <2>2
<1>5. \A g \in Requests : handler'[g].at = "gate" /\ handler'[g].on = generation
        => status'[g] \in {"queued", "granted"}
  BY <1>2, GateHolds
<1>6. \A g \in Requests : handler[g].at \in {"setup", "gate"} => handler[g].sig \in Signals
  BY DEF TypeInv, Calls
<1>7. ASSUME NEW g \in Requests, handler'[g].at \in {"setup", "gate"}
      PROVE  Early(handler[g].sig, handler[g].on)'
  <2>1. PICK t, c : t = handler'[g].sig /\ c = handler'[g].on
    OBVIOUS
  <2>2. CASE g = h
    BY <1>2, <1>3, <2>2 DEF Early
  <2>3. CASE g # h
    <3>1. Early(t, c)'
      BY <1>2, <1>3, <1>6, <1>7, <2>1, <2>3 DEF KeptInv
    <3> QED
      BY <2>1, <3>1 DEF Early
  <2> QED
    BY <2>2, <2>3
<1>8. \A t \in buffer' : t.seq <= arrived'
  BY BridgeBoundsAssumption DEF KeptInv, Starts, TypeInv, Signals
<1>9. /\ \A k \in claims' : Early(k.sig, k.on)'
      /\ \A e \in catchUps' : Early(e.sig, e.on)'
  BY <1>3 DEF KeptInv, TypeInv
<1>10. \A g \in 0..MaxGeneration :
         IF g < generation' THEN stoppedFor'[g] \in {"stopped", "auth"}
                            ELSE stoppedFor'[g] = "none"
  BY DEF KeptInv
<1> QED
  BY <1>4, <1>5, <1>7, <1>8, <1>9, <1>10 DEF KeptInv

\* It starts in a window, whose newest signal is owed from then on.
LEMMA OpenWindowKeeps ==
  ASSUME TypeInv, KeptInv, AdmissionInv, [AdmissionNext]_admissionVars,
         UNCHANGED <<generation, stoppedFor, buffer, installed>>, arrived' \in Nat,
         NEW s \in Signals, NEW b \in 0..MaxGeneration, NEW still,
         Starts(s, b, still), OpenWindow(s, b, still),
         claims' \subseteq claims, \A k \in claims \ claims' : k.sig = s
  PROVE  KeptInv'
<1> DEFINE C == Coalesced(s, b)
<1>1. PICK t \in C : t = Newest(C) /\ t \in Signals
  BY NewestCoalesced
<1>2. /\ catchUps' = (catchUps \ SameWindow(s, b)) \cup {[sig |-> t, on |-> b]}
      /\ owed' = still \ (C \ {t})
      /\ handler' = handler
  BY <1>1 DEF OpenWindow
<1>3. /\ s \in C
      /\ \A e \in SameWindow(s, b) : e.sig \in C
      /\ \A u \in C : u = s \/ \E e \in catchUps : e.sig = u /\ e.on = b
  BY DEF Coalesced, SameWindow
<1>4. /\ \A u \in Signals : \A c : Early(u, c) => Early(u, c)'
      /\ Early(s, b)'
  BY <1>2, StartsKeepsEarly
<1>5. Early(t, b)'
  BY <1>1, <1>3, <1>4 DEF KeptInv
<1> HIDE DEF C
<1>6. SignalsAreKept'
  <2> SUFFICES ASSUME NEW u \in owed' PROVE u \in OnItsWay'
    BY DEF SignalsAreKept
  <2>1. CASE u = t
    <3>1. [sig |-> t, on |-> b] \in catchUps' /\ [sig |-> t, on |-> b].sig = t
      BY <1>2
    <3> QED
      BY <2>1, <3>1 DEF OnItsWay
  <2>2. CASE u # t
    <3>1. u \notin C /\ u \in owed
      BY <1>2, <1>3, <2>2 DEF Starts
    <3>2. u \in OnItsWay /\ u # s
      BY <1>3, <3>1 DEF KeptInv, SignalsAreKept
    <3>3. \A e \in catchUps : e.sig = u => e \in catchUps'
      BY <1>2, <1>3, <3>1
    <3>4. \A k \in claims : k.sig = u => k \in claims'
      BY <3>2
    <3> QED
      BY <1>2, <3>2, <3>3, <3>4 DEF OnItsWay
  <2> QED
    BY <2>1, <2>2
<1>7. \A g \in Requests : handler'[g].at = "gate" /\ handler'[g].on = generation
        => status'[g] \in {"queued", "granted"}
  BY <1>2, GateHolds
<1>8. ASSUME NEW g \in Requests, handler'[g].at \in {"setup", "gate"}
      PROVE  Early(handler[g].sig, handler[g].on)'
  <2>1. handler[g].sig \in Signals
    BY <1>2, <1>8 DEF TypeInv, Calls
  <2>2. PICK u, c : u = handler[g].sig /\ c = handler[g].on
    OBVIOUS
  <2>3. Early(u, c)'
    BY <1>2, <1>4, <1>8, <2>1, <2>2 DEF KeptInv
  <2> QED
    BY <1>2, <2>2, <2>3 DEF Early
<1>9. \A u \in buffer' : u.seq <= arrived'
  BY BridgeBoundsAssumption DEF KeptInv, Starts, TypeInv, Signals
<1>10. /\ \A k \in claims' : Early(k.sig, k.on)'
       /\ \A e \in catchUps' : Early(e.sig, e.on)'
  <2>1. \A e \in catchUps' : e \in catchUps \/ (e.sig = t /\ e.on = b)
    BY <1>2
  <2> QED
    BY <1>4, <1>5, <2>1 DEF KeptInv, TypeInv
<1>11. \A g \in 0..MaxGeneration :
         IF g < generation' THEN stoppedFor'[g] \in {"stopped", "auth"}
                            ELSE stoppedFor'[g] = "none"
  BY DEF KeptInv
<1> QED
  BY <1>6, <1>7, <1>8, <1>9, <1>10, <1>11 DEF KeptInv

\* The bridge is stopped: what was on its way through it is owed no more, or
\* can be taken back.
LEMMA StopKeeps ==
  ASSUME TypeInv, KeptInv, generation \in 0..MaxGeneration,
         NEW reason \in {"stopped", "auth"}, NEW b, NEW hs, NEW still \in SUBSET owed,
         StopCsBridge(reason, b, hs, still),
         UNCHANGED <<arrived, claims>>,
         \A g \in Requests :
           /\ hs[g].sig = handler[g].sig /\ hs[g].on = handler[g].on
           /\ hs[g].at \in {"setup", "gate"} => hs[g].at = handler[g].at,
         reason = "auth" /\ installed =>
           /\ \A k \in claims : k.on = generation => k.sig \notin owed'
           /\ \A g \in Requests : handler[g].at \in {"setup", "gate"}
                /\ handler[g].on = generation => handler[g].sig \notin owed',
         \A s \in b : s.seq <= arrived,
         SignalsAreKept'
  PROVE  KeptInv'
<1>1. /\ ~installed' /\ handler' = hs
      /\ catchUps' = catchUps \ Windows
      /\ buffer' \subseteq b \cup {e.sig : e \in Windows}
      /\ owed' \subseteq owed
  BY QueueDoes DEF StopCsBridge, HandsOver
<1>2. IF installed
      THEN /\ generation' = generation + 1 /\ generation' \in 0..MaxGeneration
           /\ \A g \in 0..MaxGeneration :
                stoppedFor'[g] = IF g = generation THEN reason ELSE stoppedFor[g]
      ELSE generation' = generation /\ stoppedFor' = stoppedFor
  BY MaxGenerationAssumption DEF StopCsBridge, Reset, admissionVars, TypeInv
<1>3. ASSUME NEW s, NEW c \in 0..MaxGeneration, Early(s, c),
             installed /\ c = generation /\ reason = "auth" => s \notin owed'
      PROVE  Early(s, c)' /\ c < generation'
  <2>1. CASE installed
    BY <1>1, <1>2, <1>3, <2>1 DEF Early
  <2>2. CASE ~installed
    BY <1>1, <1>2, <1>3, <2>2 DEF Early
  <2> QED
    BY <2>1, <2>2
<1>4. \A g \in 0..MaxGeneration :
        IF g < generation' THEN stoppedFor'[g] \in {"stopped", "auth"}
                           ELSE stoppedFor'[g] = "none"
  <2> TAKE g \in 0..MaxGeneration
  <2>1. IF g < generation THEN stoppedFor[g] \in {"stopped", "auth"}
                          ELSE stoppedFor[g] = "none"
    BY DEF KeptInv
  <2>2. CASE installed
    BY <1>2, <2>1, <2>2, MaxGenerationAssumption
  <2>3. CASE ~installed
    BY <1>2, <2>1, <2>3
  <2> QED
    BY <2>2, <2>3
<1>5. \A s \in buffer' : s.seq <= arrived'
  BY <1>1 DEF KeptInv, Early, Windows
<1>6. \A k \in claims' : Early(k.sig, k.on)'
  BY <1>3 DEF KeptInv, TypeInv
<1>7. \A e \in catchUps' : Early(e.sig, e.on)'
  BY <1>1, <1>3 DEF KeptInv, TypeInv, Windows
<1>8. ASSUME NEW g \in Requests, handler'[g].at \in {"setup", "gate"}
      PROVE  Early(handler[g].sig, handler[g].on)' /\ handler'[g].on < generation'
  <2>1. handler[g].on \in 0..MaxGeneration
    BY DEF TypeInv, Calls
  <2>2. PICK s, c : /\ c \in 0..MaxGeneration
                    /\ s = handler[g].sig /\ c = handler[g].on
    BY <2>1
  <2>3. Early(s, c)' /\ c < generation'
    BY <1>1, <1>3, <1>8, <2>2 DEF KeptInv
  <2>4. handler'[g].sig = s /\ handler'[g].on = c
    BY <1>1, <2>2
  <2> QED
    BY <2>3, <2>4 DEF Early
<1>9. \A g \in Requests : handler'[g].at = "gate" => handler'[g].on # generation'
  <2>1. generation' \in Nat
    BY <1>2
  <2>2. \A g \in Requests : handler'[g].on \in Nat
    BY <1>1 DEF TypeInv, Calls
  <2> QED
    BY <1>8, <2>1, <2>2
<1> QED
  BY <1>4, <1>5, <1>6, <1>7, <1>8, <1>9 DEF KeptInv

\* A gateway that stops loses no signal.
LEMMA GatewayStopsKeeps ==
  ASSUME TypeInv, KeptInv, generation \in 0..MaxGeneration, GatewayStops
  PROVE  KeptInv'
<1>1. /\ StopCsBridge("stopped", buffer, Rejected(handler), owed)
      /\ UNCHANGED <<arrived, claims>>
  BY DEF GatewayStops
<1>2. /\ handler' = Rejected(handler) /\ catchUps' = catchUps \ Windows
      /\ owed' = owed \ ((buffer \cup {e.sig : e \in Windows}) \ buffer')
  BY <1>1, QueueDoes DEF StopCsBridge, HandsOver
<1>3. \A g \in Requests :
        /\ Rejected(handler)[g].sig = handler[g].sig
        /\ Rejected(handler)[g].on = handler[g].on
        /\ handler[g].at \in UnderWay => Rejected(handler)[g].at \in UnderWay
        /\ Rejected(handler)[g].at \in {"setup", "gate"}
             => Rejected(handler)[g].at = handler[g].at
  BY RejectedOnly DEF UnderWay
<1> HIDE DEF Rejected
<1>4. SignalsAreKept'
  <2> SUFFICES ASSUME NEW t \in owed' PROVE t \in OnItsWay'
    BY DEF SignalsAreKept
  <2>1. /\ t \in OnItsWay
        /\ t \in buffer \cup {e.sig : e \in Windows} => t \in buffer'
    BY <1>2 DEF KeptInv, SignalsAreKept
  <2>2. CASE t \in buffer \/ \E k \in claims : k.sig = t
    BY <1>1, <1>2, <2>1, <2>2 DEF OnItsWay
  <2>3. CASE \E e \in catchUps : e.sig = t
    BY <1>2, <2>1, <2>3 DEF OnItsWay
  <2>4. CASE \E g \in Requests : handler[g].at \in UnderWay /\ handler[g].sig = t
    <3>1. PICK g \in Requests : handler[g].at \in UnderWay /\ handler[g].sig = t
      BY <2>4
    <3>2. handler'[g].at \in UnderWay /\ handler'[g].sig = t
      BY <1>2, <1>3, <3>1
    <3> QED
      BY <3>2 DEF OnItsWay, UnderWay
  <2> QED
    BY <2>1, <2>2, <2>3, <2>4 DEF OnItsWay, UnderWay
<1>5. \A s \in buffer : s.seq <= arrived
  BY DEF KeptInv
<1> QED
  BY <1>1, <1>3, <1>4, <1>5, StopKeeps

\* A sign-out takes out of what is owed only what it gives up.
LEMMA AuthChangeKeeps ==
  ASSUME TypeInv, KeptInv, generation \in 0..MaxGeneration, AuthChange
  PROVE  KeptInv'
<1>1. /\ StopCsBridge("auth", {}, handler, owed \ GivenUp)
      /\ UNCHANGED <<arrived, claims>>
  BY DEF AuthChange
<1>2. /\ handler' = handler /\ catchUps' = catchUps \ Windows
      /\ owed' \subseteq owed \ GivenUp
  BY <1>1, QueueDoes DEF StopCsBridge
<1>3. /\ buffer \subseteq GivenUp
      /\ \A e \in Windows : e.sig \in GivenUp
      /\ installed =>
           /\ \A k \in claims : k.on = generation => k.sig \in GivenUp
           /\ \A g \in Requests : handler[g].at \in {"setup", "gate"}
                /\ handler[g].on = generation => handler[g].sig \in GivenUp
  BY DEF GivenUp, Windows
<1>4. SignalsAreKept'
  <2> SUFFICES ASSUME NEW t \in owed' PROVE t \in OnItsWay'
    BY DEF SignalsAreKept
  <2>1. t \in OnItsWay /\ t \notin GivenUp
    BY <1>2 DEF KeptInv, SignalsAreKept
  <2> QED
    BY <1>1, <1>2, <1>3, <2>1 DEF OnItsWay
<1>5. owed \ GivenUp \in SUBSET owed
  OBVIOUS
<1>6. installed =>
        /\ \A k \in claims : k.on = generation => k.sig \notin owed'
        /\ \A g \in Requests : handler[g].at \in {"setup", "gate"}
             /\ handler[g].on = generation => handler[g].sig \notin owed'
  BY <1>2, <1>3
<1> QED
  BY <1>1, <1>4, <1>5, <1>6, StopKeeps

\* A cancelled call puts its signal back, unless a sign-out cancelled it.
LEMMA CancelledKeeps ==
  ASSUME TypeInv, KeptInv, AdmissionInv, [AdmissionNext]_admissionVars,
         NEW h \in Requests, Cancelled(h)
  PROVE  KeptInv'
<1> DEFINE s == handler[h].sig
           b == handler[h].on
<1>1. /\ handler[h].at = "gate" /\ status[h] \in {"idle", "rejected"}
      /\ Returns(h)
      /\ UNCHANGED <<generation, stoppedFor, arrived, catchUps, claims, installed>>
      /\ IF stoppedFor[b] = "stopped"
         THEN Queue(buffer, {s}, owed)
         ELSE UNCHANGED <<buffer, owed>>
  BY DEF Cancelled, Requeued, lifecycleVars, admissionVars
<1>2. /\ handler'[h].at = "done"
      /\ \A g \in Requests \ {h} : handler'[g] = handler[g]
  BY <1>1, ReturnsOnly
<1>3. Early(s, b) /\ b \in 0..MaxGeneration /\ b # generation
  BY <1>1 DEF KeptInv, TypeInv, Calls
<1>4. generation \in 0..MaxGeneration
  BY DEF AdmissionInv, AdmissionTypeOK
<1>5. stoppedFor[b] \in {"stopped", "auth"}
  BY <1>3, <1>4 DEF Early, KeptInv
<1>6. CASE stoppedFor[b] = "stopped"
  <2>1. /\ buffer' \subseteq buffer \cup {s}
        /\ owed' = owed \ ((buffer \cup {s}) \ buffer')
    BY <1>1, <1>6, QueueDoes
  <2>2. SignalsAreKept'
    <3> SUFFICES ASSUME NEW t \in owed' PROVE t \in OnItsWay'
      BY DEF SignalsAreKept
    <3>1. t \in OnItsWay /\ (t \in buffer \cup {s} => t \in buffer')
      BY <2>1 DEF KeptInv, SignalsAreKept
    <3> QED
      BY <1>1, <1>2, <3>1 DEF OnItsWay
  <2>3. \A u \in buffer' : u.seq <= arrived
    BY <1>3, <2>1 DEF KeptInv, Early
  <2>4. \A g \in Requests : handler'[g].at = "gate" /\ handler'[g].on = generation
          => status'[g] \in {"queued", "granted"}
    BY <1>1, <1>2, GateHolds
  <2>5. \A g \in Requests : handler'[g].at \in {"setup", "gate"} =>
          /\ handler[g].at \in {"setup", "gate"}
          /\ handler'[g].sig = handler[g].sig /\ handler'[g].on = handler[g].on
    BY <1>2
  <2>6. owed' \subseteq owed
    BY <2>1
  <2> QED
    BY <1>1, <1>4, <2>2, <2>3, <2>4, <2>5, <2>6, QuietStepKeeps
<1>7. CASE stoppedFor[b] = "auth"
  <2>1. UNCHANGED <<buffer, owed>> /\ s \notin owed
    BY <1>1, <1>3, <1>7 DEF Early
  <2>2. \A g \in Requests :
          \/ handler'[g].sig = handler[g].sig /\ handler'[g].on = handler[g].on
          \/ handler'[g].at \notin UnderWay
    BY <1>2 DEF UnderWay
  <2>3. \A g \in Requests : handler'[g].at \in {"setup", "gate"}
                              => handler'[g].at = handler[g].at
    BY <1>2
  <2>4. \A g \in Requests : handler[g].at \in UnderWay /\ handler[g].sig \in owed'
                              => handler'[g].at \in UnderWay
    BY <1>2, <2>1
  <2> QED
    BY <1>1, <2>1, <2>2, <2>3, <2>4, HandlersMove
<1> QED
  BY <1>5, <1>6, <1>7

\* The call of the controller: on the installed bridge the caller is parked.
LEMMA ReachesGateKeeps ==
  ASSUME TypeInv, KeptInv, AdmissionInv, [AdmissionNext]_admissionVars,
         NEW h \in Requests, ReachesGate(h)
  PROVE  KeptInv'
<1>1. /\ handler[h].at = "setup" /\ Goes(h, "gate")
      /\ UNCHANGED <<stoppedFor, arrived, buffer, claims, catchUps, owed, installed>>
      /\ IF OnInstalled(h) THEN AcquireQueued(h) ELSE UNCHANGED admissionVars
  BY DEF ReachesGate, lifecycleVars, historyVars
<1>2. generation' = generation /\ generation \in 0..MaxGeneration
  BY <1>1 DEF AcquireQueued, Join, admissionVars, AdmissionInv, AdmissionTypeOK
<1>3. /\ \A g \in Requests : handler'[g].sig = handler[g].sig /\ handler'[g].on = handler[g].on
      /\ \A g \in Requests : handler'[g].at = IF g = h THEN "gate" ELSE handler[g].at
  BY <1>1, GoesOn
<1>4. handler[h].on = generation => AcquireQueued(h)
  BY <1>1 DEF KeptInv, Early, OnInstalled
<1>5. \A g \in Requests : handler'[g].at = "gate" /\ handler'[g].on = generation
        => status'[g] \in {"queued", "granted"}
  BY <1>2, <1>3, <1>4, GateHolds, NobodyTurnedAway
<1>6. \A g \in Requests : handler'[g].at \in {"setup", "gate"} =>
        /\ handler[g].at \in {"setup", "gate"}
        /\ handler'[g].sig = handler[g].sig /\ handler'[g].on = handler[g].on
  BY <1>1, <1>3
<1>7. \A g \in Requests : handler[g].at \in UnderWay => handler'[g].at \in UnderWay
  BY <1>3 DEF UnderWay
<1>8. SignalsAreKept'
  BY <1>1, <1>3, <1>7, OwedFollows DEF KeptInv
<1>9. \A u \in buffer' : u.seq <= arrived
  BY <1>1 DEF KeptInv
<1> QED
  BY <1>1, <1>2, <1>5, <1>6, <1>8, <1>9, QuietStepKeeps

\* A signal that arrives is kept.
LEMMA SignalArrivesKeeps ==
  ASSUME TypeInv, TypeInv', KeptInv, AdmissionInv, [AdmissionNext]_admissionVars,
         NEW c \in Conversations, SignalArrives(c)
  PROVE  KeptInv'
<1> DEFINE s == [conv |-> c, seq |-> arrived', login |-> login]
<1>1. /\ arrived' = arrived + 1 /\ arrived' \in 1..MaxSignals /\ s \in Signals
      /\ s.seq = arrived'
      /\ UNCHANGED <<generation, stoppedFor, installed, claims>>
  BY BridgeBoundsAssumption
     DEF SignalArrives, TypeInv, Signals, lifecycleVars, admissionVars
<1>2. generation \in 0..MaxGeneration /\ arrived \in Nat /\ arrived' \in Nat
  BY <1>1 DEF AdmissionInv, AdmissionTypeOK, TypeInv
<1> HIDE DEF s
<1>3. CASE installed
  <2>1. HandleSignal(s, generation, 0, owed \cup {s}) /\ UNCHANGED buffer
    BY <1>3 DEF SignalArrives, s
  <2>2. Starts(s, generation, owed \cup {s})
    BY <1>1, <1>2, <1>3 DEF Starts, KeptInv
  <2>3. CASE c \in Airflow
    BY <1>1, <1>2, <2>1, <2>2, <2>3, OpenWindowKeeps DEF HandleSignal, s
  <2>4. CASE c \notin Airflow
    BY <1>1, <1>2, <2>1, <2>2, <2>4, DispatchKeeps DEF HandleSignal, s
  <2> QED
    BY <2>3, <2>4
<1>4. CASE ~installed
  <2>1. /\ buffer' \subseteq buffer \cup {s}
        /\ owed' = (owed \cup {s}) \ ((buffer \cup {s}) \ buffer')
        /\ UNCHANGED <<catchUps, handler>>
    BY <1>4, QueueDoes DEF SignalArrives, s
  <2>2. SignalsAreKept'
    <3> SUFFICES ASSUME NEW t \in owed' PROVE t \in OnItsWay'
      BY DEF SignalsAreKept
    <3>1. t \in buffer \cup {s} => t \in buffer'
      BY <2>1
    <3>2. CASE t = s
      BY <3>1, <3>2 DEF OnItsWay
    <3>3. CASE t # s
      <4>1. t \in OnItsWay
        BY <2>1, <3>3 DEF KeptInv, SignalsAreKept
      <4> QED
        BY <1>1, <2>1, <3>1, <4>1 DEF OnItsWay
    <3> QED
      BY <3>2, <3>3
  <2>3. ASSUME NEW t \in Signals, NEW b, Early(t, b) PROVE Early(t, b)'
    BY <1>1, <1>2, <2>1, <2>3, BridgeBoundsAssumption DEF Early, Signals
  <2>4. ASSUME NEW h \in Requests, handler'[h].at \in {"setup", "gate"}
        PROVE  Early(handler[h].sig, handler[h].on)'
    <3>1. PICK t, b : t = handler[h].sig /\ b = handler[h].on
      OBVIOUS
    <3>2. t \in Signals /\ Early(t, b)
      BY <2>1, <2>4, <3>1 DEF KeptInv, TypeInv, Calls
    <3>3. Early(t, b)'
      BY <2>3, <3>2
    <3> QED
      BY <2>1, <3>1, <3>3 DEF Early
  <2>5. \A t \in buffer' : t.seq <= arrived'
    BY <1>1, <1>2, <2>1, BridgeBoundsAssumption DEF KeptInv, TypeInv, Signals
  <2>6. /\ \A k \in claims' : Early(k.sig, k.on)'
        /\ \A e \in catchUps' : Early(e.sig, e.on)'
    BY <1>1, <2>1, <2>3 DEF KeptInv, TypeInv
  <2>7. \A h \in Requests : handler'[h].at = "gate" /\ handler'[h].on = generation
          => status'[h] \in {"queued", "granted"}
    BY <1>1, <2>1, GateHolds
  <2>8. \A g \in 0..MaxGeneration :
          IF g < generation' THEN stoppedFor'[g] \in {"stopped", "auth"}
                             ELSE stoppedFor'[g] = "none"
    BY <1>1 DEF KeptInv
  <2> QED
    BY <1>1, <2>2, <2>4, <2>5, <2>6, <2>7, <2>8 DEF KeptInv
<1> QED
  BY <1>3, <1>4

\* Each step keeps the signals that are owed on their way.
LEMMA KeptInvStep ==
  ASSUME TypeInv, TypeInv', LifecycleInv, KeptInv, AdmissionInv, [BridgeNext]_bridgeVars
  PROVE  KeptInv'
<1> USE BridgeStepAdmits
<1>1. generation \in 0..MaxGeneration
  BY DEF AdmissionInv, AdmissionTypeOK
<1>2. ASSUME UNCHANGED <<workVars, installed, stoppedFor, arrived, owed, generation>>
      PROVE  KeptInv'
  BY <1>2, HandlersMove DEF workVars
<1>3. ASSUME NEW h \in Requests, GivesBack(h)
      PROVE  UNCHANGED generation
  BY <1>3 DEF GivesBack, Release, ReleaseLeases, admissionVars
<1>4. ASSUME NEW h \in Requests, NEW place \in UnderWay \ {"setup", "gate"},
             Goes(h, place), handler[h].at \in UnderWay,
             UNCHANGED <<buffer, claims, catchUps, installed, stoppedFor, arrived,
                         owed, generation>>
      PROVE  KeptInv'
  <2>1. /\ \A g \in Requests : handler'[g].sig = handler[g].sig /\ handler'[g].on = handler[g].on
        /\ \A g \in Requests : handler'[g].at = IF g = h THEN place ELSE handler[g].at
    BY <1>4, GoesOn
  <2> QED
    BY <1>4, <2>1, HandlersMove
<1>5. ASSUME NEW h \in Requests, Returns(h),
             handler[h].at \in UnderWay => handler[h].sig \notin owed',
             owed' \subseteq owed,
             UNCHANGED <<buffer, claims, catchUps, installed, stoppedFor, arrived, generation>>
      PROVE  KeptInv'
  <2>1. /\ handler'[h].at = "done"
        /\ \A g \in Requests \ {h} : handler'[g] = handler[g]
    BY <1>5, ReturnsOnly
  <2>2. /\ \A g \in Requests :
             \/ handler'[g].sig = handler[g].sig /\ handler'[g].on = handler[g].on
             \/ handler'[g].at \notin UnderWay
        /\ \A g \in Requests : handler'[g].at \in {"setup", "gate"}
                                 => handler'[g].at = handler[g].at
        /\ \A g \in Requests : handler[g].at \in UnderWay /\ handler[g].sig \in owed'
                                 => handler'[g].at \in UnderWay
    BY <1>5, <2>1 DEF UnderWay
  <2> QED
    BY <1>5, <2>2, HandlersMove
<1>6. CASE RpcDrops
  <2>1. /\ handler' = Rejected(handler)
        /\ UNCHANGED <<buffer, claims, catchUps, installed, stoppedFor, arrived,
                       owed, generation>>
    BY <1>6 DEF RpcDrops, Pause, historyVars, admissionVars
  <2>2. \A g \in Requests :
          /\ handler'[g].sig = handler[g].sig /\ handler'[g].on = handler[g].on
          /\ handler'[g].at = IF handler[g].at \in {"agent", "accepted"}
                              THEN "failed" ELSE handler[g].at
    BY <2>1, RejectedOnly
  <2>3. \A g \in Requests : handler[g].at \in UnderWay => handler'[g].at \in UnderWay
    BY <2>2 DEF UnderWay
  <2> QED
    BY <2>1, <2>2, <2>3, HandlersMove
<1>7. CASE GatewayStops
  BY <1>1, <1>7, GatewayStopsKeeps
<1>8. CASE AuthChange
  BY <1>1, <1>8, AuthChangeKeeps
<1>9. CASE \E c \in Conversations : SignalArrives(c)
  BY <1>9, SignalArrivesKeeps
<1>10. ASSUME NEW a \in Attempts, ToolingReady(a) \/ Resumed(a) PROVE KeptInv'
  <2>1. UNCHANGED <<generation, stoppedFor, arrived, catchUps, handler, owed>>
    BY <1>10 DEF ToolingReady, Install, Resumed, Resume, historyVars, admissionVars
  <2>2. installed => installed'
    BY <1>10 DEF ToolingReady, Install, Resumed
  <2>3. \/ UNCHANGED <<buffer, claims>>
        \/ FlushPass(a, generation) /\ installed'
    BY <1>10 DEF ToolingReady, Install, Resumed, LifecycleInv, GateInv
  <2> QED
    BY <2>1, <2>2, <2>3, ReplayKeeps DEF FlushPass
<1>11. ASSUME NEW a \in Attempts, FlushPassEnds(a) PROVE KeptInv'
  <2>1. UNCHANGED <<generation, stoppedFor, arrived, catchUps, handler, owed, installed>>
    BY <1>11 DEF FlushPassEnds, historyVars, admissionVars
  <2>2. \/ UNCHANGED <<buffer, claims>>
        \/ /\ claims' = claims \cup {[sig |-> s, on |-> generation, by |-> a] : s \in buffer}
           /\ buffer' = {} /\ installed'
    BY <1>11, <2>1 DEF FlushPassEnds
  <2> QED
    BY <2>1, <2>2, ReplayKeeps
<1>12. ASSUME NEW k \in claims, ReplayStarts(k) PROVE KeptInv'
  <2>1. /\ k.sig \in Signals /\ k.on \in 0..MaxGeneration
        /\ arrived' \in Nat
    BY BridgeBoundsAssumption DEF TypeInv
  <2>2. /\ claims' = claims \ {k}
        /\ HandleSignal(k.sig, k.on, k.by, owed)
        /\ UNCHANGED <<generation, stoppedFor, buffer, installed, arrived>>
    BY <1>12 DEF ReplayStarts, lifecycleVars, admissionVars
  <2>3. Starts(k.sig, k.on, owed)
    BY <2>1, <2>2 DEF Starts, KeptInv, Early, TypeInv
  <2>4. CASE k.sig.conv \in Airflow
    BY <2>1, <2>2, <2>3, <2>4, OpenWindowKeeps DEF HandleSignal
  <2>5. CASE k.sig.conv \notin Airflow
    BY <2>1, <2>2, <2>3, <2>5, DispatchKeeps DEF HandleSignal
  <2> QED
    BY <2>4, <2>5
<1>13. ASSUME NEW e \in catchUps, WindowEnds(e) PROVE KeptInv'
  <2>1. /\ e.sig \in Signals /\ e.on \in 0..MaxGeneration /\ arrived' \in Nat
    BY BridgeBoundsAssumption DEF TypeInv
  <2>2. /\ catchUps' = catchUps \ {e}
        /\ Dispatch(e.sig, e.on, 0)
        /\ UNCHANGED <<generation, stoppedFor, buffer, claims, installed, arrived, owed>>
    BY <1>13 DEF WindowEnds, lifecycleVars, historyVars, admissionVars
  <2>3. Starts(e.sig, e.on, owed)
    BY <2>1, <2>2 DEF Starts, KeptInv, Early, TypeInv
  <2> QED
    BY <2>1, <2>2, <2>3, DispatchKeeps
<1>14. ASSUME NEW h \in Requests, SetupFails(h) PROVE KeptInv'
  BY <1>5, <1>14 DEF SetupFails, lifecycleVars, admissionVars
<1>15. ASSUME NEW h \in Requests, ReachesGate(h) PROVE KeptInv'
  BY <1>15, ReachesGateKeeps
<1>16. ASSUME NEW h \in Requests, Cancelled(h) PROVE KeptInv'
  BY <1>16, CancelledKeeps
<1>17. ASSUME NEW h \in Requests, Granted(h) \/ AgentAccepts(h) \/ AgentFails(h)
       PROVE  KeptInv'
  BY <1>4, <1>17 DEF Granted, AgentAccepts, AgentFails, UnderWay, lifecycleVars,
     historyVars, admissionVars
<1>18. ASSUME NEW h \in Requests, AgentReplies(h) PROVE KeptInv'
  <2>1. /\ handler' = [handler EXCEPT ![h] = [@ EXCEPT !.at = "run", !.by = 0]]
        /\ owed' = owed \ {handler[h].sig}
        /\ UNCHANGED <<generation, stoppedFor, arrived, buffer, claims, catchUps, installed>>
    BY <1>18 DEF AgentReplies, lifecycleVars, admissionVars
  <2>2. \A c \in Calls : /\ [c EXCEPT !.at = "run", !.by = 0].sig = c.sig
                         /\ [c EXCEPT !.at = "run", !.by = 0].on = c.on
                         /\ [c EXCEPT !.at = "run", !.by = 0].at = "run"
    BY DEF Calls
  <2>3. \A g \in Requests :
          /\ handler'[g].sig = handler[g].sig /\ handler'[g].on = handler[g].on
          /\ handler'[g].at = IF g = h THEN "run" ELSE handler[g].at
    BY <2>1, <2>2 DEF TypeInv
  <2> QED
    BY <2>1, <2>3, HandlersMove
<1>19. ASSUME NEW h \in Requests, Failed(h) PROVE KeptInv'
  BY <1>3, <1>5, <1>19 DEF Failed, lifecycleVars
<1>20. ASSUME NEW h \in Requests, RunEnds(h) PROVE KeptInv'
  <2>1. UNCHANGED <<buffer, claims, catchUps, installed, stoppedFor, arrived, owed>>
    BY <1>20 DEF RunEnds, lifecycleVars, historyVars
  <2>2. CASE h \in Pending /\ Completes(h)
    <3>1. handler[h].at \notin UnderWay /\ Returns(h) /\ UNCHANGED generation
      BY <1>3, <2>2 DEF Pending, Completes, UnderWay
    <3> QED
      BY <1>5, <2>1, <3>1
  <2>3. CASE UNCHANGED <<handler, admissionVars>>
    BY <1>2, <2>1, <2>3 DEF workVars, admissionVars
  <2> QED
    BY <1>20, <2>2, <2>3 DEF RunEnds
<1>21. ASSUME NEW p \in probes, ProbeCompletes(p) PROVE KeptInv'
  <2>1. /\ p.run \in Requests /\ handler[p.run].at \notin UnderWay
        /\ Returns(p.run) /\ UNCHANGED generation
    BY <1>3, <1>21 DEF ProbeCompletes, Concerns, Pending, Completes, UnderWay
  <2> QED
    BY <1>5, <1>21, <2>1 DEF ProbeCompletes, lifecycleVars, historyVars
<1>22. CASE \/ RpcConnects \/ UserChanges \/ TryStart \/ UNCHANGED bridgeVars
            \/ \E a \in Attempts : Returned(a)
            \/ \E h \in Requests : SweepProbes(h)
            \/ \E p \in probes : ProbeFindsNothing(p)
  BY <1>2, <1>22 DEF RpcConnects, UserChanges, TryStart, Returned, SweepProbes,
     ProbeFindsNothing, bridgeVars, lifecycleVars, historyVars, admissionVars, worldVars
<1> QED
  BY <1>6, <1>7, <1>8, <1>9, <1>10, <1>11, <1>12, <1>13, <1>14, <1>15, <1>16,
     <1>17, <1>18, <1>19, <1>20, <1>21, <1>22 DEF BridgeNext
-----------------------------------------------------------------------------
(***************************************************************************)
(* LeasesAreOwned and CompletedOnce.  Each call acquires once and gives    *)
(* its lease back when it ends, so its place tells what its promise is: a  *)
(* call that waits is at the gate of the installed bridge, and one that is *)
(* past the gate has a lease of its bridge's generation.                   *)
(***************************************************************************)

Leased == {"agent", "accepted", "failed", "run"}

LeaseInv ==
  /\ \A h \in Requests : handler[h].on <= generation
  /\ \A h \in Requests : handler[h].at \in {"idle", "setup"} => status[h] = "idle"
  /\ \A h \in released : handler[h].at = "done"
  /\ \A h \in Requests : handler[h].on = generation =>
       /\ handler[h].at \in Leased => status[h] = "granted"
       /\ handler[h].at \in Leased \cup {"gate"} => bornIn[h] = generation
  /\ \A h \in Requests : status[h] = "queued" =>
       handler[h].at = "gate" /\ handler[h].on = generation
  /\ \A h \in Holding :
       handler[h].on = generation /\ handler[h].at \in Leased \cup {"gate"}
  /\ \A h \in Requests : /\ completions[h] <= 1
                         /\ handler[h].at # "done" => completions[h] = 0

\* No slot is held when the bridge starts.
LEMMA LeaseInvInit == BridgeInit => LeaseInv
BY DEF BridgeInit, AdmissionInit, LeaseInv, Holding, NotCalled, Leased

\* What the controller does to the promises of those who do not call it.
PromisesKept ==
  /\ UNCHANGED bornIn
  /\ \A r \in Requests : \/ status'[r] = status[r]
                         \/ status[r] = "queued" /\ status'[r] = "granted"

\* Who is granted by a drain was queued.
LEMMA DrainGrantsTheQueued ==
  ASSUME NEW q \in Seq(Requests), NEW occ \in 0..MaxConcurrent, NEW ls, NEW st, NEW born,
         \A i \in 1..Len(q) : born[q[i]] = generation /\ st[q[i]] = "queued",
         Drain(q, occ, ls, st, born)
  PROVE  \A r \in Requests : \/ status'[r] = st[r]
                             \/ st[r] = "queued" /\ status'[r] = "granted"
<1> DEFINE n == Taken(q, Room(occ), born, generation)
<1>1. Room(occ) \in Nat
  BY MaxConcurrentAssumption DEF Room
<1>2. n \in 0..Len(q) /\ Fresh(q, n, born, generation) = 1..n
  BY <1>1, TakenFromFreshQueue
<1>3. status' = [r \in Requests |->
         IF r \in {q[i] : i \in Fresh(q, n, born, generation)} THEN "granted"
         ELSE IF r \in {q[i] : i \in 1..n} THEN "rejected" ELSE st[r]]
  BY DEF Drain
<1> HIDE DEF n
<1> QED
  BY <1>2, <1>3

\* Opening the gate grants slots to waiting calls only.
LEMMA ResumeKeepsPromises ==
  ASSUME AdmissionInv, Resume
  PROVE  PromisesKept /\ UNCHANGED <<generation, released>>
<1>1. /\ queue \in Seq(Requests) /\ active \in 0..MaxConcurrent
      /\ \A i \in 1..Len(queue) : bornIn[queue[i]] = generation /\ status[queue[i]] = "queued"
  BY DEF AdmissionInv, AdmissionTypeOK, Consistent
<1> QED
  BY <1>1, DrainGrantsTheQueued DEF Resume, PromisesKept

\* A lease that is given back is released; a slot it frees goes to the queue.
LEMMA GivesBackKeepsPromises ==
  ASSUME AdmissionInv, NEW h \in Requests, GivesBack(h)
  PROVE  PromisesKept /\ released' = released \cup {h} /\ UNCHANGED generation
<1>1. CASE h \in released /\ UNCHANGED admissionVars
  BY <1>1 DEF admissionVars, PromisesKept
<1>2. CASE Release(h)
  <2>1. /\ ReleaseLeases({h}) /\ status[h] = "granted" /\ h \notin released
    BY <1>2 DEF Release
  <2>2. /\ queue \in Seq(Requests) /\ active \in 0..MaxConcurrent
        /\ \A i \in 1..Len(queue) : bornIn[queue[i]] = generation /\ status[queue[i]] = "queued"
    BY DEF AdmissionInv, AdmissionTypeOK, Consistent
  <2>3. UNCHANGED <<bornIn, generation>> /\ released' = released \cup {h}
    BY <2>1 DEF ReleaseLeases
  <2>4. CASE OfThisGeneration({h}) = {}
    BY <2>1, <2>3, <2>4 DEF ReleaseLeases, PromisesKept
  <2>5. CASE OfThisGeneration({h}) # {}
    <3> DEFINE back == Cardinality(OfThisGeneration({h}))
               occ == IF active > back THEN active - back ELSE 0
    <3>1. Drain(queue, occ, leases \ {h}, status, bornIn)
      BY <2>1, <2>5 DEF ReleaseLeases
    <3>2. back \in 0..active
      <4>1. {h} \in SUBSET Requests /\ \A r \in {h} : status[r] = "granted" /\ r \notin released
        BY <2>1
      <4> QED
        BY <4>1, ReleaseKeepsConsistent
    <3>3. occ \in 0..MaxConcurrent
      BY <2>2, <3>2, MaxConcurrentAssumption
    <3> HIDE DEF occ
    <3> QED
      BY <2>2, <2>3, <3>1, <3>3, DrainGrantsTheQueued DEF PromisesKept
  <2> QED
    BY <2>4, <2>5
<1> QED
  BY <1>1, <1>2 DEF GivesBack

\* A call at the gate is granted a slot, or waits.
LEMMA AcquireKeepsPromises ==
  ASSUME AdmissionInv, NEW h \in Requests, AcquireQueued(h)
  PROVE  /\ \A r \in Requests \ {h} :
              /\ bornIn'[r] = bornIn[r]
              /\ \/ status'[r] = status[r]
                 \/ status[r] = "queued" /\ status'[r] = "granted"
         /\ status'[h] \in {"queued", "granted"} /\ bornIn'[h] = generation
         /\ UNCHANGED <<generation, released>>
<1> DEFINE st == [status EXCEPT ![h] = "queued"]
           born == [bornIn EXCEPT ![h] = generation]
           q == Append(queue, h)
<1>1. bornIn' = born /\ UNCHANGED <<generation, released>>
  BY DEF AcquireQueued, Join
<1>2. /\ queue \in Seq(Requests) /\ active \in 0..MaxConcurrent
      /\ status \in [Requests -> Status] /\ bornIn \in [Requests -> 0..MaxGeneration]
      /\ \A i \in 1..Len(queue) : bornIn[queue[i]] = generation /\ status[queue[i]] = "queued"
  BY DEF AdmissionInv, AdmissionTypeOK, Consistent
<1>3. /\ q \in Seq(Requests)
      /\ \A i \in 1..Len(q) : born[q[i]] = generation /\ st[q[i]] = "queued"
  BY <1>2
<1>4. /\ st[h] = "queued" /\ born[h] = generation
      /\ \A r \in Requests \ {h} : st[r] = status[r] /\ born[r] = bornIn[r]
  BY <1>2
<1>5. Drain(q, active, leases, st, born)
  BY DEF AcquireQueued, Join
<1> HIDE DEF st, born, q
<1>6. active \in 0..MaxConcurrent
  BY <1>2
<1>7. \A r \in Requests : \/ status'[r] = st[r]
                          \/ st[r] = "queued" /\ status'[r] = "granted"
  BY <1>3, <1>5, <1>6, DrainGrantsTheQueued
<1> QED
  BY <1>1, <1>4, <1>7

\* A step in which nobody acquires and nothing is reset: calls move on, end
\* or begin.
LEMMA LeasesFollow ==
  ASSUME TypeInv, AdmissionInv, LeaseInv, PromisesKept, UNCHANGED generation,
         \A h \in released' : handler'[h].at = "done",
         released \subseteq released',
         \A h \in Requests :
           \/ handler'[h].on = handler[h].on /\ handler'[h].at = handler[h].at
           \/ /\ handler'[h].on = handler[h].on
              /\ handler'[h].at \in Leased
              /\ handler[h].at \in Leased \/ (handler[h].at = "gate" /\ status[h] = "granted")
           \/ /\ handler'[h].at = "done" /\ handler'[h].on <= generation
              /\ status[h] # "queued" /\ (status[h] = "granted" => h \in released')
           \/ handler[h].at = "idle" /\ handler'[h].at = "setup" /\ handler'[h].on <= generation,
         \A h \in Requests :
           \/ completions'[h] = completions[h]
           \/ /\ completions'[h] = completions[h] + 1
              /\ handler[h].at = "run" /\ handler'[h].at = "done"
  PROVE  LeaseInv'
<1>1. \A h \in Requests : completions[h] \in Nat
  BY DEF TypeInv
<1>2. \A h \in Requests : status[h] = "granted" \/ h \notin released
  BY DEF AdmissionInv, Consistent
<1>3. \A h \in Requests : status[h] = "queued" => bornIn[h] = generation
  BY DEF AdmissionInv, Consistent
<1>4. \A h \in Requests : handler'[h].on <= generation'
  BY DEF LeaseInv
<1>5. \A h \in Requests : handler'[h].at \in {"idle", "setup"} => status'[h] = "idle"
  BY DEF LeaseInv, PromisesKept, Leased
<1>6. \A h \in Requests : handler'[h].on = generation' =>
        /\ handler'[h].at \in Leased => status'[h] = "granted"
        /\ handler'[h].at \in Leased \cup {"gate"} => bornIn'[h] = generation'
  BY DEF LeaseInv, PromisesKept, Leased
<1>7. \A h \in Requests : status'[h] = "queued" =>
        handler'[h].at = "gate" /\ handler'[h].on = generation'
  BY DEF LeaseInv, PromisesKept, Leased, AdmissionInv, Consistent
<1>8. ASSUME NEW h \in Holding'
      PROVE  handler'[h].on = generation' /\ handler'[h].at \in Leased \cup {"gate"}
  <2>1. /\ h \in Requests /\ status'[h] = "granted" /\ h \notin released'
        /\ bornIn[h] = generation
    BY <1>8 DEF Holding, PromisesKept
  <2>2. CASE status[h] = "granted"
    <3>1. h \in Holding
      BY <2>1, <2>2 DEF Holding
    <3>2. handler[h].on = generation /\ handler[h].at \in Leased \cup {"gate"}
      BY <3>1 DEF LeaseInv
    <3> QED
      BY <2>1, <2>2, <3>2 DEF Leased
  <2>3. CASE status[h] = "queued"
    BY <2>1, <2>3 DEF LeaseInv, Leased
  <2> QED
    BY <2>1, <2>2, <2>3 DEF PromisesKept
<1>9. \A h \in Requests : /\ completions'[h] <= 1
                          /\ handler'[h].at # "done" => completions'[h] = 0
  BY <1>1 DEF LeaseInv, Leased
<1> QED
  BY <1>4, <1>5, <1>6, <1>7, <1>8, <1>9 DEF LeaseInv

\* The bridge is stopped: no lease is of the generation that begins.
LEMMA StopKeepsLeases ==
  ASSUME TypeInv, AdmissionInv, LeaseInv, NEW reason, NEW b, NEW hs, NEW still,
         StopCsBridge(reason, b, hs, still),
         UNCHANGED completions,
         \A g \in Requests :
           /\ hs[g].on = handler[g].on
           /\ hs[g].at = handler[g].at \/ (hs[g].at = "failed" /\ handler[g].at \in Leased)
  PROVE  LeaseInv'
<1>1. handler' = hs
  BY DEF StopCsBridge
<1>2. CASE installed
  <2>1. Reset
    BY <1>2 DEF StopCsBridge
  <2>2. /\ generation' = generation + 1 /\ generation \in Nat
        /\ UNCHANGED <<bornIn, released>>
        /\ \A r \in Requests : bornIn[r] \in Nat /\ bornIn[r] <= generation
        /\ \A r \in Requests : handler[r].on \in Nat
    BY <2>1 DEF Reset, AdmissionInv, AdmissionTypeOK, TypeInv, Calls
  <2>3. \A r \in Requests : /\ status'[r] # "queued"
                            /\ status'[r] = status[r] \/ status[r] = "queued"
    <3>1. /\ DOMAIN queue = 1..Len(queue)
          /\ \A r \in Requests : status[r] = "queued" <=> \E i \in 1..Len(queue) : queue[i] = r
      BY DEF AdmissionInv, AdmissionTypeOK, Consistent
    <3>2. \A r \in Requests : status'[r] = IF \E i \in DOMAIN queue : queue[i] = r
                                           THEN "rejected" ELSE status[r]
      BY <2>1 DEF Reset
    <3> QED
      BY <3>1, <3>2
  <2>4. Holding' = {}
    BY <2>2 DEF Holding
  <2>5. \A r \in Requests : handler'[r].on < generation'
    BY <1>1, <2>2 DEF LeaseInv
  <2>6. \A r \in Requests : handler'[r].at \in {"idle", "setup", "done"} => handler'[r].at = handler[r].at
    BY <1>1
  <2>7. \A r \in Requests : handler'[r].at \in {"idle", "setup"} => status'[r] = "idle"
    BY <2>3, <2>6 DEF LeaseInv
  <2>8. \A r \in released' : handler'[r].at = "done"
    BY <1>1, <2>2 DEF LeaseInv, Leased, AdmissionInv, AdmissionTypeOK
  <2>9. \A r \in Requests : handler'[r].at # "done" => completions'[r] = 0
    BY <1>1 DEF LeaseInv, Leased
  <2>10. \A r \in Requests : handler'[r].on <= generation' /\ handler'[r].on # generation'
    BY <1>1, <2>2, <2>5
  <2> QED
    BY <2>3, <2>4, <2>7, <2>8, <2>9, <2>10 DEF LeaseInv
<1>3. CASE ~installed
  <2>1. UNCHANGED admissionVars
    BY <1>3 DEF StopCsBridge
  <2>2. PromisesKept /\ UNCHANGED <<generation, released>>
    BY <2>1 DEF PromisesKept, admissionVars
  <2>3. \A g \in Requests :
          \/ handler'[g].on = handler[g].on /\ handler'[g].at = handler[g].at
          \/ /\ handler'[g].on = handler[g].on
             /\ handler'[g].at \in Leased /\ handler[g].at \in Leased
    BY <1>1 DEF Leased
  <2>4. \A g \in released' : handler'[g].at = "done"
    BY <1>1, <2>2 DEF LeaseInv, Leased, AdmissionInv, AdmissionTypeOK
  <2> QED
    BY <2>2, <2>3, <2>4, LeasesFollow
<1> QED
  BY <1>2, <1>3

\* Each step keeps the slots with the calls that need them.
LEMMA LeaseInvStep ==
  ASSUME TypeInv, AdmissionInv, KeptInv, LeaseInv, [BridgeNext]_bridgeVars
  PROVE  LeaseInv'
<1>1. /\ UNCHANGED admissionVars => PromisesKept /\ UNCHANGED <<generation, released>>
      /\ Pause => PromisesKept /\ UNCHANGED <<generation, released>>
  BY DEF admissionVars, Pause, PromisesKept
<1>2. /\ generation \in Nat /\ released \subseteq Requests
      /\ \A h \in released : status[h] = "granted"
  BY DEF AdmissionInv, AdmissionTypeOK, Consistent
<1>3. ASSUME PromisesKept, UNCHANGED <<generation, released, completions>>,
             \A h \in Requests : /\ handler'[h].at = handler[h].at
                                 /\ handler'[h].on = handler[h].on
      PROVE  LeaseInv'
  BY <1>2, <1>3, LeasesFollow DEF LeaseInv
<1>4. ASSUME NEW h \in Requests, NEW place \in Leased, Goes(h, place),
             handler[h].at \in Leased \/ (handler[h].at = "gate" /\ status[h] = "granted"),
             UNCHANGED <<admissionVars, completions>>
      PROVE  LeaseInv'
  <2>1. /\ \A g \in Requests : handler'[g].on = handler[g].on
        /\ \A g \in Requests : handler'[g].at = IF g = h THEN place ELSE handler[g].at
    BY <1>4, GoesOn
  <2>2. \A g \in released' : handler'[g].at = "done"
    BY <1>1, <1>2, <1>4, <2>1 DEF LeaseInv, Leased
  <2> QED
    BY <1>1, <1>4, <2>1, <2>2, LeasesFollow
<1>5. ASSUME NEW h \in Requests, Returns(h),
             PromisesKept, UNCHANGED generation,
             released' = released \cup {h} \/
               (released' = released /\ status[h] \notin {"queued", "granted"}),
             status[h] # "queued",
             \/ completions' = completions
             \/ /\ completions' = [completions EXCEPT ![h] = @ + 1]
                /\ handler[h].at = "run"
      PROVE  LeaseInv'
  <2>1. /\ handler'[h].at = "done" /\ handler'[h].on = 0
        /\ \A g \in Requests \ {h} : handler'[g] = handler[g]
    BY <1>5 DEF Returns, NotCalled, TypeInv
  <2>2. \A g \in released' : handler'[g].at = "done"
    BY <1>2, <1>5, <2>1 DEF LeaseInv
  <2>3. \A g \in Requests :
          \/ completions'[g] = completions[g]
          \/ /\ completions'[g] = completions[g] + 1
             /\ handler[g].at = "run" /\ handler'[g].at = "done"
    BY <1>5, <2>1 DEF TypeInv
  <2> QED
    BY <1>2, <1>5, <2>1, <2>2, <2>3, LeasesFollow
<1>6. ASSUME NEW h \in Requests, Returns(h), GivesBack(h),
             \/ handler[h].at = "failed" /\ completions' = completions
             \/ /\ completions' = [completions EXCEPT ![h] = @ + 1]
                /\ handler[h].at = "run"
      PROVE  LeaseInv'
  <2>1. status[h] # "queued"
    BY <1>6 DEF LeaseInv
  <2> QED
    BY <1>5, <1>6, <2>1, GivesBackKeepsPromises
<1>7. ASSUME NEW s \in Signals, NEW b \in 0..MaxGeneration, NEW by, Early(s, b),
             Dispatch(s, b, by), UNCHANGED <<admissionVars, completions>>
      PROVE  LeaseInv'
  <2>1. PICK h \in Requests :
          /\ handler[h].at = "idle"
          /\ handler' = [handler EXCEPT ![h] = [at |-> "setup", sig |-> s, on |-> b, by |-> by]]
    BY <1>7 DEF Dispatch
  <2>2. /\ handler'[h].at = "setup" /\ handler'[h].on = b /\ b <= generation
        /\ \A g \in Requests \ {h} : handler'[g] = handler[g]
    BY <1>7, <2>1 DEF TypeInv, Early
  <2>3. \A g \in released' : handler'[g].at = "done"
    BY <1>1, <1>2, <1>7, <2>1, <2>2 DEF LeaseInv
  <2> QED
    BY <1>1, <1>7, <2>1, <2>2, <2>3, LeasesFollow
<1>8. CASE RpcDrops
  <2>1. handler' = Rejected(handler) /\ UNCHANGED completions
    BY <1>8 DEF RpcDrops
  <2>2. PromisesKept /\ UNCHANGED <<generation, released>>
    BY <1>1, <1>8 DEF RpcDrops, admissionVars
  <2>3. \A g \in Requests :
          /\ handler'[g].on = handler[g].on
          /\ handler'[g].at = IF handler[g].at \in {"agent", "accepted"}
                              THEN "failed" ELSE handler[g].at
    BY <2>1, RejectedOnly
  <2>4. \A g \in released' : handler'[g].at = "done"
    BY <1>2, <2>2, <2>3 DEF LeaseInv
  <2>5. \A g \in Requests :
          \/ handler'[g].on = handler[g].on /\ handler'[g].at = handler[g].at
          \/ /\ handler'[g].on = handler[g].on
             /\ handler'[g].at \in Leased /\ handler[g].at \in Leased
    BY <2>3 DEF Leased
  <2> QED
    BY <2>1, <2>2, <2>4, <2>5, LeasesFollow
<1>9. CASE GatewayStops
  <2>1. \A g \in Requests :
          /\ Rejected(handler)[g].on = handler[g].on
          /\ \/ Rejected(handler)[g].at = handler[g].at
             \/ Rejected(handler)[g].at = "failed" /\ handler[g].at \in Leased
    BY RejectedOnly DEF Leased
  <2> HIDE DEF Rejected
  <2> QED
    BY <1>9, <2>1, StopKeepsLeases DEF GatewayStops
<1>10. CASE AuthChange
  BY <1>10, StopKeepsLeases DEF AuthChange
<1>11. ASSUME NEW c \in Conversations, SignalArrives(c) PROVE LeaseInv'
  <2> DEFINE s == [conv |-> c, seq |-> arrived', login |-> login]
  <2>1. UNCHANGED <<admissionVars, completions>>
    BY <1>11 DEF SignalArrives, runVars
  <2>2. UNCHANGED handler \/ (installed /\ Dispatch(s, generation, 0))
    BY <1>11 DEF SignalArrives, HandleSignal, OpenWindow
  <2>3. CASE UNCHANGED handler
    BY <1>1, <1>3, <2>1, <2>3
  <2>4. CASE installed /\ Dispatch(s, generation, 0)
    <3>1. PICK h \in Requests :
            /\ handler[h].at = "idle"
            /\ handler' = [handler EXCEPT ![h] =
                 [at |-> "setup", sig |-> s, on |-> generation, by |-> 0]]
      BY <2>4 DEF Dispatch
    <3>2. /\ handler'[h].at = "setup" /\ handler'[h].on = generation
          /\ \A g \in Requests \ {h} : handler'[g] = handler[g]
      BY <3>1 DEF TypeInv
    <3>3. \A g \in released' : handler'[g].at = "done"
      BY <1>1, <1>2, <2>1, <3>1, <3>2 DEF LeaseInv
    <3> QED
      BY <1>1, <1>2, <2>1, <3>1, <3>2, <3>3, LeasesFollow
  <2> QED
    BY <2>2, <2>3, <2>4
<1>12. ASSUME NEW a \in Attempts, ToolingReady(a) \/ Resumed(a) PROVE LeaseInv'
  <2>1. UNCHANGED <<handler, completions>> /\ (Resume \/ UNCHANGED admissionVars)
    BY <1>12 DEF ToolingReady, Install, Resumed, runVars
  <2> QED
    BY <1>1, <1>3, <2>1, ResumeKeepsPromises
<1>13. ASSUME NEW k \in claims, ReplayStarts(k) PROVE LeaseInv'
  <2>1. UNCHANGED <<admissionVars, completions>>
    BY <1>13 DEF ReplayStarts, runVars
  <2>2. UNCHANGED handler \/ Dispatch(k.sig, k.on, k.by)
    BY <1>13 DEF ReplayStarts, HandleSignal, OpenWindow
  <2>3. k.sig \in Signals /\ k.on \in 0..MaxGeneration /\ Early(k.sig, k.on)
    BY DEF TypeInv, KeptInv
  <2> QED
    BY <1>1, <1>3, <1>7, <2>1, <2>2, <2>3
<1>14. ASSUME NEW e \in catchUps, WindowEnds(e) PROVE LeaseInv'
  <2>1. e.sig \in Signals /\ e.on \in 0..MaxGeneration /\ Early(e.sig, e.on)
    BY DEF TypeInv, KeptInv
  <2> QED
    BY <1>7, <1>14, <2>1 DEF WindowEnds, runVars
<1>15. ASSUME NEW h \in Requests, SetupFails(h) PROVE LeaseInv'
  <2>1. status[h] = "idle"
    BY <1>15 DEF SetupFails, LeaseInv
  <2> QED
    BY <1>1, <1>5, <1>15, <2>1 DEF SetupFails, runVars
<1>16. ASSUME NEW h \in Requests, ReachesGate(h) PROVE LeaseInv'
  <2>1. /\ handler[h].at = "setup" /\ UNCHANGED completions
        /\ IF OnInstalled(h) THEN AcquireQueued(h) ELSE UNCHANGED admissionVars
    BY <1>16 DEF ReachesGate, runVars
  <2>2. /\ \A g \in Requests : handler'[g].on = handler[g].on
        /\ \A g \in Requests : handler'[g].at = IF g = h THEN "gate" ELSE handler[g].at
    BY <1>16, GoesOn DEF ReachesGate
  <2>3. /\ status[h] = "idle" /\ h \notin released
        /\ handler[h].on = generation => installed
    BY <2>1, <1>2 DEF LeaseInv, KeptInv, Early
  <2>4. CASE OnInstalled(h)
    <3>1. /\ \A r \in Requests \ {h} :
               /\ bornIn'[r] = bornIn[r]
               /\ \/ status'[r] = status[r]
                  \/ status[r] = "queued" /\ status'[r] = "granted"
          /\ status'[h] \in {"queued", "granted"} /\ bornIn'[h] = generation
          /\ UNCHANGED <<generation, released>>
      BY <2>1, <2>4, AcquireKeepsPromises
    <3>2. handler[h].on = generation
      BY <2>4 DEF OnInstalled
    <3>3. \A r \in Requests : status[r] = "queued" => bornIn[r] = generation
      BY DEF AdmissionInv, Consistent
    <3>4. \A r \in Requests : handler'[r].at \in {"idle", "setup"} => status'[r] = "idle"
      BY <2>2, <3>1 DEF LeaseInv
    <3>5. \A r \in released' : handler'[r].at = "done"
      BY <1>2, <2>2, <2>3, <3>1 DEF LeaseInv
    <3>6. \A r \in Requests : handler'[r].on = generation' =>
            /\ handler'[r].at \in Leased => status'[r] = "granted"
            /\ handler'[r].at \in Leased \cup {"gate"} => bornIn'[r] = generation'
      BY <2>2, <3>1, <3>2 DEF LeaseInv, Leased
    <3>7. \A r \in Requests : status'[r] = "queued" =>
            handler'[r].at = "gate" /\ handler'[r].on = generation'
      BY <2>2, <3>1, <3>2 DEF LeaseInv
    <3>8. ASSUME NEW r \in Holding'
          PROVE  handler'[r].on = generation' /\ handler'[r].at \in Leased \cup {"gate"}
      <4>1. CASE r = h
        BY <2>2, <3>1, <3>2, <4>1
      <4>2. CASE r # h
        <5>1. r \in Requests /\ status'[r] = "granted" /\ r \notin released
              /\ bornIn[r] = generation
          BY <3>1, <3>8, <4>2 DEF Holding
        <5>2. CASE status[r] = "granted"
          BY <2>2, <3>1, <4>2, <5>1, <5>2 DEF Holding, LeaseInv
        <5>3. CASE status[r] = "queued"
          BY <2>2, <3>1, <4>2, <5>1, <5>3 DEF LeaseInv
        <5> QED
          BY <3>1, <4>2, <5>1, <5>2, <5>3
      <4> QED
        BY <4>1, <4>2
    <3>9. /\ \A r \in Requests : handler'[r].on <= generation'
          /\ \A r \in Requests : /\ completions'[r] <= 1
                                 /\ handler'[r].at # "done" => completions'[r] = 0
      BY <2>1, <2>2, <3>1 DEF LeaseInv
    <3> QED
      BY <3>4, <3>5, <3>6, <3>7, <3>8, <3>9 DEF LeaseInv
  <2>5. CASE ~OnInstalled(h)
    <3>1. UNCHANGED <<admissionVars, completions>> /\ handler[h].on # generation
      BY <2>1, <2>3, <2>5 DEF OnInstalled
    <3>2. UNCHANGED <<status, bornIn, generation, released>> /\ Holding' = Holding
      BY <3>1 DEF admissionVars, Holding
    <3>3. \A r \in Requests : handler'[r].on = generation => handler'[r].at = handler[r].at
      BY <2>2, <3>1
    <3>4. \A r \in Requests : handler'[r].at = "done" <=> handler[r].at = "done"
      BY <2>1, <2>2
    <3>5. \A r \in Requests : status[r] = "queued" => r # h
      BY <2>3
    <3>6. h \notin Holding
      BY <2>3 DEF Holding
    <3>7. \A r \in Requests : handler'[r].at \in {"idle", "setup"} => status'[r] = "idle"
      BY <2>2, <3>2 DEF LeaseInv
    <3>8. \A r \in Requests : handler'[r].on <= generation'
      BY <2>2, <3>2 DEF LeaseInv
    <3>9. \A r \in released' : handler'[r].at = "done"
      BY <1>2, <3>2, <3>4 DEF LeaseInv
    <3>10. \A r \in Requests : handler'[r].on = generation' =>
             /\ handler'[r].at \in Leased => status'[r] = "granted"
             /\ handler'[r].at \in Leased \cup {"gate"} => bornIn'[r] = generation'
      BY <2>2, <3>2, <3>3 DEF LeaseInv
    <3>11. \A r \in Requests : status'[r] = "queued" =>
             handler'[r].at = "gate" /\ handler'[r].on = generation'
      BY <2>2, <3>2, <3>5 DEF LeaseInv
    <3>12. \A r \in Holding' :
             handler'[r].on = generation' /\ handler'[r].at \in Leased \cup {"gate"}
      <4>1. \A r \in Holding : r \in Requests /\ r # h
        BY <3>6 DEF Holding
      <4> QED
        BY <2>2, <3>2, <4>1 DEF LeaseInv
    <3>13. \A r \in Requests : /\ completions'[r] <= 1
                               /\ handler'[r].at # "done" => completions'[r] = 0
      BY <3>1, <3>4 DEF LeaseInv
    <3> QED
      BY <3>7, <3>8, <3>9, <3>10, <3>11, <3>12, <3>13 DEF LeaseInv
  <2> QED
    BY <2>4, <2>5
<1>17. ASSUME NEW h \in Requests, Cancelled(h) PROVE LeaseInv'
  BY <1>1, <1>5, <1>17 DEF Cancelled, runVars
<1>18. ASSUME NEW h \in Requests, Granted(h) \/ AgentAccepts(h) \/ AgentFails(h)
       PROVE  LeaseInv'
  BY <1>4, <1>18 DEF Granted, AgentAccepts, AgentFails, Leased, runVars
<1>19. ASSUME NEW h \in Requests, AgentReplies(h) PROVE LeaseInv'
  <2>1. /\ handler' = [handler EXCEPT ![h] = [@ EXCEPT !.at = "run", !.by = 0]]
        /\ handler[h].at = "accepted" /\ UNCHANGED <<completions, admissionVars>>
    BY <1>19 DEF AgentReplies, runVars
  <2>2. \A c \in Calls : /\ [c EXCEPT !.at = "run", !.by = 0].on = c.on
                         /\ [c EXCEPT !.at = "run", !.by = 0].at = "run"
    BY DEF Calls
  <2>3. \A g \in Requests : /\ handler'[g].on = handler[g].on
                            /\ handler'[g].at = IF g = h THEN "run" ELSE handler[g].at
    BY <2>1, <2>2 DEF TypeInv
  <2>4. \A g \in released' : handler'[g].at = "done"
    BY <1>1, <1>2, <2>1, <2>3 DEF LeaseInv
  <2>5. \A g \in Requests :
          \/ handler'[g].on = handler[g].on /\ handler'[g].at = handler[g].at
          \/ /\ handler'[g].on = handler[g].on
             /\ handler'[g].at \in Leased /\ handler[g].at \in Leased
    BY <2>1, <2>3 DEF Leased
  <2> QED
    BY <1>1, <2>1, <2>4, <2>5, LeasesFollow
<1>20. ASSUME NEW h \in Requests, Failed(h) PROVE LeaseInv'
  BY <1>6, <1>20 DEF Failed, runVars
<1>21. ASSUME NEW h \in Requests, h \in Pending, Completes(h) PROVE LeaseInv'
  BY <1>6, <1>21 DEF Completes, Pending
<1>22. ASSUME NEW h \in Requests, RunEnds(h) PROVE LeaseInv'
  BY <1>1, <1>3, <1>21, <1>22 DEF RunEnds
<1>23. ASSUME NEW p \in probes, ProbeCompletes(p) PROVE LeaseInv'
  BY <1>21, <1>23 DEF ProbeCompletes, Concerns, Pending
<1>24. CASE \/ RpcConnects \/ UserChanges \/ TryStart \/ UNCHANGED bridgeVars
            \/ \E a \in Attempts : Returned(a) \/ FlushPassEnds(a)
            \/ \E h \in Requests : SweepProbes(h)
            \/ \E p \in probes : ProbeFindsNothing(p)
  BY <1>1, <1>3, <1>24 DEF RpcConnects, UserChanges, TryStart, Returned, FlushPassEnds,
     SweepProbes, ProbeFindsNothing, bridgeVars, workVars, runVars
<1> QED
  BY <1>8, <1>9, <1>10, <1>11, <1>12, <1>13, <1>14, <1>15, <1>16, <1>17, <1>18,
     <1>19, <1>20, <1>22, <1>23, <1>24 DEF BridgeNext
-----------------------------------------------------------------------------
(***************************************************************************)
(* DiscardedStaysOut.  Only a dispatch of a bridge that was stopped with   *)
(* the gateway comes back to the buffer, so it is enough that the signals  *)
(* a sign-out gave up are on their way through a bridge that was stopped   *)
(* for it, if at all; and for that, that a signal is in one place.         *)
(***************************************************************************)

OnePlace ==
  /\ \A k \in claims : /\ k.sig \notin buffer
                       /\ \A j \in claims : j.sig = k.sig => j = k
  /\ \A e \in catchUps : /\ e.sig \notin buffer
                         /\ \A k \in claims : k.sig # e.sig
                         /\ \A f \in catchUps : f.sig = e.sig => f = e
  /\ \A h \in Requests : handler[h].at \in {"setup", "gate"} =>
       /\ handler[h].sig \notin buffer
       /\ \A k \in claims : k.sig # handler[h].sig
       /\ \A e \in catchUps : e.sig # handler[h].sig
       /\ \A g \in Requests :
            handler[g].at \in {"setup", "gate"} /\ handler[g].sig = handler[h].sig => g = h

GivenUpInv ==
  /\ DiscardedStaysOut
  /\ \A s \in discarded : s.seq <= arrived
  /\ \A k \in claims : k.sig \in discarded => stoppedFor[k.on] = "auth"
  /\ \A e \in catchUps : e.sig \in discarded => stoppedFor[e.on] = "auth"
  /\ \A h \in Requests : handler[h].at \in {"setup", "gate"} /\ handler[h].sig \in discarded
       => stoppedFor[handler[h].on] = "auth"

DiscardedInv == OnePlace /\ GivenUpInv

\* Nothing is given up when the bridge starts.
LEMMA DiscardedInvInit == BridgeInit => DiscardedInv
BY DEF BridgeInit, DiscardedInv, OnePlace, GivenUpInv, DiscardedStaysOut, NotCalled

\* Signals that leave their places for the gateway, or for good.
LEMMA LeavingKeepsApart ==
  ASSUME DiscardedInv,
         UNCHANGED <<stoppedFor, arrived, discarded, buffer>>,
         claims' \subseteq claims, catchUps' \subseteq catchUps,
         \A h \in Requests : handler'[h].at \in {"setup", "gate"} =>
           /\ handler[h].at \in {"setup", "gate"}
           /\ handler'[h].sig = handler[h].sig /\ handler'[h].on = handler[h].on
  PROVE  DiscardedInv'
BY DEF DiscardedInv, OnePlace, GivenUpInv, DiscardedStaysOut

\* A pass of a replay takes all that is buffered.
LEMMA ReplayKeepsApart ==
  ASSUME DiscardedInv, UNCHANGED <<stoppedFor, arrived, discarded, catchUps, handler>>,
         NEW a, NEW b,
         claims' = claims \cup {[sig |-> s, on |-> b, by |-> a] : s \in buffer},
         buffer' = {}
  PROVE  DiscardedInv'
<1>1. \A k \in claims' : k \in claims
        \/ \E s \in buffer : k.sig = s /\ k = [sig |-> s, on |-> b, by |-> a]
  OBVIOUS
<1>2. \A k \in claims' : k \in claims \/ k.sig \in buffer
  BY <1>1
<1>3. \A k, j \in claims' : k.sig = j.sig => j = k
  BY <1>1 DEF DiscardedInv, OnePlace
<1>4. OnePlace'
  BY <1>2, <1>3 DEF DiscardedInv, OnePlace
<1>5. GivenUpInv'
  BY <1>2 DEF DiscardedInv, GivenUpInv, DiscardedStaysOut
<1> QED
  BY <1>4, <1>5 DEF DiscardedInv

\* Signal s is nowhere but in the claim or window it leaves.
Nowhere(s) ==
  /\ s \notin buffer
  /\ \A k \in claims' : k.sig # s
  /\ \A e \in catchUps' : e.sig # s
  /\ \A h \in Requests : handler[h].at \in {"setup", "gate"} => handler[h].sig # s

\* A signal that is nowhere begins a call.
LEMMA DispatchKeepsApart ==
  ASSUME TypeInv, DiscardedInv, UNCHANGED <<stoppedFor, discarded, buffer>>,
         arrived' \in Nat, arrived <= arrived',
         NEW s \in Signals, NEW b, NEW by, Dispatch(s, b, by),
         claims' \subseteq claims, catchUps' \subseteq catchUps,
         Nowhere(s), s \in discarded => stoppedFor[b] = "auth"
  PROVE  DiscardedInv'
<1>1. PICK h \in Requests :
        /\ handler[h].at = "idle"
        /\ handler' = [handler EXCEPT ![h] = [at |-> "setup", sig |-> s, on |-> b, by |-> by]]
  BY DEF Dispatch
<1>2. /\ handler'[h].at = "setup" /\ handler'[h].sig = s /\ handler'[h].on = b
      /\ \A g \in Requests \ {h} : handler'[g] = handler[g]
  BY <1>1 DEF TypeInv
<1>3. OnePlace'
  BY <1>1, <1>2 DEF DiscardedInv, OnePlace, Nowhere
<1>4. \A t \in discarded' : t.seq <= arrived'
  BY BridgeBoundsAssumption DEF DiscardedInv, GivenUpInv, TypeInv, Signals
<1>5. GivenUpInv'
  BY <1>1, <1>2, <1>4 DEF DiscardedInv, GivenUpInv, DiscardedStaysOut
<1> QED
  BY <1>3, <1>5 DEF DiscardedInv

\* A window keeps the newest of two signals, each in no other place.
LEMMA OpenWindowKeepsApart ==
  ASSUME TypeInv, DiscardedInv, UNCHANGED <<stoppedFor, discarded, buffer>>,
         arrived' \in Nat, arrived <= arrived',
         NEW s \in Signals, NEW b \in 0..MaxGeneration, NEW still, OpenWindow(s, b, still),
         claims' \subseteq claims, \A k \in claims' : k.sig # s,
         \A e \in catchUps : e.sig # s,
         s \notin buffer,
         \A h \in Requests : handler[h].at \in {"setup", "gate"} => handler[h].sig # s,
         s \in discarded => stoppedFor[b] = "auth"
  PROVE  DiscardedInv'
<1> DEFINE C == Coalesced(s, b)
<1>1. PICK t \in C : t = Newest(C) /\ t \in Signals
  BY NewestCoalesced
<1>2. /\ catchUps' = (catchUps \ SameWindow(s, b)) \cup {[sig |-> t, on |-> b]}
      /\ handler' = handler
  BY <1>1 DEF OpenWindow
<1>3. t = s \/ \E e \in SameWindow(s, b) : e.sig = t /\ e \in catchUps /\ e.on = b
  BY <1>1 DEF Coalesced, SameWindow
<1>4. /\ t \notin buffer
      /\ \A k \in claims' : k.sig # t
      /\ \A h \in Requests : handler[h].at \in {"setup", "gate"} => handler[h].sig # t
      /\ \A e \in catchUps \ SameWindow(s, b) : e.sig # t
      /\ t \in discarded => stoppedFor[b] = "auth"
  BY <1>3 DEF DiscardedInv, OnePlace, GivenUpInv
<1> HIDE DEF C
<1>5. \A e \in catchUps' : \/ e \in catchUps \ SameWindow(s, b)
                           \/ e = [sig |-> t, on |-> b] /\ e.sig = t /\ e.on = b
  BY <1>2
<1>6. OnePlace'
  BY <1>2, <1>4, <1>5 DEF DiscardedInv, OnePlace
<1>7. \A u \in discarded' : u.seq <= arrived'
  BY BridgeBoundsAssumption DEF DiscardedInv, GivenUpInv, TypeInv, Signals
<1>8. GivenUpInv'
  BY <1>2, <1>4, <1>5, <1>7 DEF DiscardedInv, GivenUpInv, DiscardedStaysOut
<1> QED
  BY <1>6, <1>8 DEF DiscardedInv

\* Signal s enters the buffer, from nowhere or from a call that ends.
LEMMA QueuedKeepsApart ==
  ASSUME TypeInv, DiscardedInv, UNCHANGED <<stoppedFor, discarded, claims, catchUps>>,
         arrived' \in Nat, arrived <= arrived', NEW s \in Signals,
         s \notin discarded,
         \A k \in claims : k.sig # s, \A e \in catchUps : e.sig # s,
         \A h \in Requests : handler'[h].at \in {"setup", "gate"} =>
           handler[h].sig # s /\ handler'[h] = handler[h],
         buffer' \subseteq buffer \cup {s}
  PROVE  DiscardedInv'
<1>1. OnePlace'
  BY DEF DiscardedInv, OnePlace
<1>2. \A u \in discarded' : u.seq <= arrived'
  BY BridgeBoundsAssumption DEF DiscardedInv, GivenUpInv, TypeInv, Signals
<1>3. GivenUpInv'
  BY <1>2 DEF DiscardedInv, GivenUpInv, DiscardedStaysOut
<1> QED
  BY <1>1, <1>3 DEF DiscardedInv

\* What the windows hand to the buffer was given up by nobody.
LEMMA GatewayStopsKeepsApart ==
  ASSUME TypeInv, KeptInv, DiscardedInv, generation \in 0..MaxGeneration, GatewayStops
  PROVE  DiscardedInv'
<1>1. /\ StopCsBridge("stopped", buffer, Rejected(handler), owed)
      /\ UNCHANGED <<arrived, claims, discarded>>
  BY DEF GatewayStops
<1>2. /\ handler' = Rejected(handler) /\ catchUps' = catchUps \ Windows
      /\ buffer' \subseteq buffer \cup {e.sig : e \in Windows}
  BY <1>1, QueueDoes DEF StopCsBridge, HandsOver
<1>3. \A h \in Requests : handler'[h].at \in {"setup", "gate"} =>
        /\ handler[h].at \in {"setup", "gate"}
        /\ handler'[h].sig = handler[h].sig /\ handler'[h].on = handler[h].on
  BY <1>2, RejectedOnly
<1>4. \A t \in buffer' : t \in buffer \/ \E e \in Windows : e.sig = t
  BY <1>2
<1>5. \A e \in Windows : e \in catchUps /\ e.sig \notin discarded
  BY DEF Windows, DiscardedInv, GivenUpInv, KeptInv
<1>6. \A g \in 0..MaxGeneration : stoppedFor[g] = "auth" => stoppedFor'[g] = "auth"
  <2>1. \/ stoppedFor' = stoppedFor
        \/ stoppedFor' = [stoppedFor EXCEPT ![generation] = "stopped"]
    BY <1>1 DEF StopCsBridge
  <2>2. stoppedFor[generation] = "none"
    BY DEF KeptInv
  <2> QED
    BY <2>1, <2>2 DEF TypeInv
<1> HIDE DEF Rejected
<1>7. OnePlace'
  <2>1. ASSUME NEW k \in claims'
        PROVE  k.sig \notin buffer' /\ \A j \in claims' : j.sig = k.sig => j = k
    BY <1>1, <1>4, <1>5 DEF DiscardedInv, OnePlace
  <2>2. ASSUME NEW e \in catchUps'
        PROVE  /\ e.sig \notin buffer'
               /\ \A k \in claims' : k.sig # e.sig
               /\ \A f \in catchUps' : f.sig = e.sig => f = e
    BY <1>1, <1>2, <1>4, <1>5 DEF DiscardedInv, OnePlace
  <2>3. ASSUME NEW h \in Requests, handler'[h].at \in {"setup", "gate"}
        PROVE  /\ handler'[h].sig \notin buffer'
               /\ \A k \in claims' : k.sig # handler'[h].sig
               /\ \A e \in catchUps' : e.sig # handler'[h].sig
               /\ \A g \in Requests : handler'[g].at \in {"setup", "gate"}
                    /\ handler'[g].sig = handler'[h].sig => g = h
    BY <1>1, <1>2, <1>3, <1>4, <1>5, <2>3 DEF DiscardedInv, OnePlace
  <2> QED
    BY <2>1, <2>2, <2>3 DEF OnePlace
<1>8. GivenUpInv'
  <2>1. DiscardedStaysOut'
    BY <1>1, <1>4, <1>5 DEF DiscardedInv, GivenUpInv, DiscardedStaysOut
  <2>2. \A k \in claims' : k.sig \in discarded' => stoppedFor'[k.on] = "auth"
    BY <1>1, <1>6 DEF DiscardedInv, GivenUpInv, TypeInv
  <2>3. \A e \in catchUps' : e.sig \in discarded' => stoppedFor'[e.on] = "auth"
    BY <1>1, <1>2, <1>6 DEF DiscardedInv, GivenUpInv, TypeInv
  <2>4. \A h \in Requests : handler'[h].at \in {"setup", "gate"}
          /\ handler'[h].sig \in discarded' => stoppedFor'[handler'[h].on] = "auth"
    BY <1>1, <1>3, <1>6 DEF DiscardedInv, GivenUpInv, TypeInv, Calls
  <2>5. \A s \in discarded' : s.seq <= arrived'
    BY <1>1 DEF DiscardedInv, GivenUpInv
  <2> QED
    BY <2>1, <2>2, <2>3, <2>4, <2>5 DEF GivenUpInv
<1> QED
  BY <1>7, <1>8 DEF DiscardedInv

\* What a sign-out gives up is in one place each, on the bridge it stops.
LEMMA AuthChangeKeepsApart ==
  ASSUME TypeInv, KeptInv, DiscardedInv, generation \in 0..MaxGeneration, AuthChange
  PROVE  DiscardedInv'
<1>1. /\ StopCsBridge("auth", {}, handler, owed \ GivenUp)
      /\ discarded' = discarded \cup GivenUp
      /\ UNCHANGED <<arrived, claims>>
  BY DEF AuthChange
<1>2. handler' = handler /\ catchUps' = catchUps \ Windows /\ buffer' = {}
  BY <1>1, QueueDoes DEF StopCsBridge, HandsOver
<1>3. \A g \in 0..MaxGeneration :
        stoppedFor[g] = "auth" \/ (installed /\ g = generation) => stoppedFor'[g] = "auth"
  BY <1>1 DEF StopCsBridge, KeptInv, TypeInv
<1>4. \A t \in GivenUp :
        \/ t \in buffer
        \/ \E k \in claims : installed /\ k.on = generation /\ k.sig = t
        \/ \E e \in Windows : e \in catchUps /\ e.sig = t
        \/ \E h \in Requests : /\ installed /\ handler[h].on = generation /\ handler[h].sig = t
                               /\ handler[h].at \in {"setup", "gate"}
  BY DEF GivenUp, Windows
<1>5. OnePlace'
  BY <1>1, <1>2 DEF DiscardedInv, OnePlace
<1>6. ASSUME NEW k \in claims', k.sig \in discarded' PROVE stoppedFor'[k.on] = "auth"
  <2>1. CASE k.sig \in discarded
    BY <1>1, <1>3, <1>6, <2>1 DEF DiscardedInv, GivenUpInv, TypeInv
  <2>2. CASE k.sig \in GivenUp
    <3>1. installed /\ k.on = generation
      BY <1>1, <1>4, <1>6, <2>2 DEF DiscardedInv, OnePlace
    <3> QED
      BY <1>3, <3>1
  <2> QED
    BY <1>1, <1>6, <2>1, <2>2
<1>7. ASSUME NEW e \in catchUps', e.sig \in discarded' PROVE stoppedFor'[e.on] = "auth"
  <2>1. CASE e.sig \in discarded
    BY <1>2, <1>3, <2>1 DEF DiscardedInv, GivenUpInv, TypeInv
  <2>2. CASE e.sig \in GivenUp
    BY <1>2, <1>4, <2>2 DEF DiscardedInv, OnePlace
  <2> QED
    BY <1>1, <1>7, <2>1, <2>2
<1>8. ASSUME NEW h \in Requests, handler'[h].at \in {"setup", "gate"},
             handler'[h].sig \in discarded'
      PROVE  stoppedFor'[handler'[h].on] = "auth"
  <2>1. CASE handler[h].sig \in discarded
    BY <1>2, <1>3, <1>8, <2>1 DEF DiscardedInv, GivenUpInv, TypeInv, Calls
  <2>2. CASE handler[h].sig \in GivenUp
    <3>1. installed /\ handler[h].on = generation
      BY <1>2, <1>4, <1>8, <2>2 DEF DiscardedInv, OnePlace
    <3> QED
      BY <1>2, <1>3, <3>1
  <2> QED
    BY <1>1, <1>2, <1>8, <2>1, <2>2
<1>9. \A s \in discarded' : s.seq <= arrived'
  <2>1. \A s \in GivenUp : s.seq <= arrived
    BY <1>4 DEF KeptInv, Early
  <2> QED
    BY <1>1, <2>1 DEF DiscardedInv, GivenUpInv
<1>10. GivenUpInv'
  BY <1>2, <1>6, <1>7, <1>8, <1>9 DEF GivenUpInv, DiscardedStaysOut
<1> QED
  BY <1>5, <1>10 DEF DiscardedInv

\* Each step keeps the signals apart and what is given up away.
LEMMA DiscardedInvStep ==
  ASSUME TypeInv, TypeInv', AdmissionInv, KeptInv, DiscardedInv, [BridgeNext]_bridgeVars
  PROVE  DiscardedInv'
<1>1. /\ generation \in 0..MaxGeneration /\ arrived \in Nat /\ arrived' \in Nat
      /\ \A h \in Requests : handler[h].at \in {"setup", "gate"} => handler[h].sig \in Signals
  <2>1. generation \in 0..MaxGeneration
    BY DEF AdmissionInv, AdmissionTypeOK
  <2>2. arrived \in 0..MaxSignals /\ arrived' \in 0..MaxSignals
    BY DEF TypeInv
  <2>3. arrived \in Nat /\ arrived' \in Nat
    BY <2>2, BridgeBoundsAssumption
  <2>4. ASSUME NEW h \in Requests, handler[h].at \in {"setup", "gate"}
        PROVE  handler[h].sig \in Signals
    BY <2>4 DEF TypeInv, Calls
  <2> QED
    BY <2>1, <2>3, <2>4
<1>2. ASSUME UNCHANGED <<workVars, stoppedFor, arrived, discarded>>
      PROVE  DiscardedInv'
  BY <1>2, LeavingKeepsApart DEF workVars
<1>3. ASSUME NEW h \in Requests, UNCHANGED <<buffer, claims, catchUps, stoppedFor, arrived, discarded>>,
             \/ Returns(h)
             \/ \E place \in Places \ {"setup"} : Goes(h, place) /\ handler[h].at # "idle"
                  /\ (place = "gate" => handler[h].at = "setup")
      PROVE  DiscardedInv'
  <2>1. \A g \in Requests : handler'[g].at \in {"setup", "gate"} =>
          /\ handler[g].at \in {"setup", "gate"}
          /\ handler'[g].sig = handler[g].sig /\ handler'[g].on = handler[g].on
    <3>1. CASE Returns(h)
      BY <3>1, ReturnsOnly
    <3>2. ASSUME NEW place \in Places \ {"setup"}, Goes(h, place),
                 place = "gate" => handler[h].at = "setup"
          PROVE  \A g \in Requests : handler'[g].at \in {"setup", "gate"} =>
                   /\ handler[g].at \in {"setup", "gate"}
                   /\ handler'[g].sig = handler[g].sig /\ handler'[g].on = handler[g].on
      BY <3>2, GoesOn
    <3> QED
      BY <1>3, <3>1, <3>2
  <2> QED
    BY <1>3, <2>1, LeavingKeepsApart
<1>4. CASE RpcDrops
  <2>1. /\ handler' = Rejected(handler)
        /\ UNCHANGED <<buffer, claims, catchUps, stoppedFor, arrived, discarded>>
    BY <1>4 DEF RpcDrops, historyVars
  <2>2. \A g \in Requests : handler'[g].at \in {"setup", "gate"} =>
          /\ handler[g].at \in {"setup", "gate"}
          /\ handler'[g].sig = handler[g].sig /\ handler'[g].on = handler[g].on
    BY <2>1, RejectedOnly
  <2> QED
    BY <2>1, <2>2, LeavingKeepsApart
<1>5. CASE GatewayStops
  BY <1>1, <1>5, GatewayStopsKeepsApart
<1>6. CASE AuthChange
  BY <1>1, <1>6, AuthChangeKeepsApart
<1>7. ASSUME NEW c \in Conversations, SignalArrives(c) PROVE DiscardedInv'
  <2> DEFINE s == [conv |-> c, seq |-> arrived', login |-> login]
  <2>1. /\ arrived' = arrived + 1 /\ s \in Signals /\ s.seq = arrived + 1 /\ s.conv = c
        /\ UNCHANGED <<stoppedFor, claims, discarded>>
    <3>1. arrived' = arrived + 1 /\ arrived' \in 1..MaxSignals
      BY <1>7, BridgeBoundsAssumption DEF SignalArrives, TypeInv
    <3> QED
      BY <1>7, <3>1 DEF SignalArrives, TypeInv, Signals
  <2>2. IF installed
        THEN HandleSignal(s, generation, 0, owed \cup {s}) /\ UNCHANGED buffer
        ELSE Queue(buffer, {s}, owed \cup {s}) /\ UNCHANGED <<catchUps, handler>>
    BY <1>7 DEF SignalArrives
  <2> HIDE DEF s
  <2>3. \A t \in Signals : t.seq <= arrived => t # s
    BY <1>1, <2>1
  <2>4. /\ s \notin buffer /\ s \notin discarded
        /\ \A k \in claims : k.sig # s
        /\ \A e \in catchUps : e.sig # s
        /\ \A h \in Requests : handler[h].at \in {"setup", "gate"} => handler[h].sig # s
    BY <1>1, <2>3 DEF KeptInv, Early, DiscardedInv, GivenUpInv, TypeInv
  <2>5. arrived <= arrived'
    BY <1>1, <2>1
  <2>6. CASE installed /\ c \in Airflow
    <3>1. OpenWindow(s, generation, owed \cup {s}) /\ UNCHANGED buffer
      BY <2>1, <2>2, <2>6 DEF HandleSignal
    <3> QED
      BY <1>1, <2>1, <2>4, <2>5, <3>1, OpenWindowKeepsApart
  <2>7. CASE installed /\ c \notin Airflow
    <3>1. Dispatch(s, generation, 0) /\ UNCHANGED <<buffer, catchUps>>
      BY <2>1, <2>2, <2>7 DEF HandleSignal
    <3>2. Nowhere(s)
      BY <2>1, <2>4, <3>1 DEF Nowhere
    <3> QED
      BY <1>1, <2>1, <2>4, <2>5, <3>1, <3>2, DispatchKeepsApart
  <2>8. CASE ~installed
    <3>1. buffer' \subseteq buffer \cup {s} /\ UNCHANGED <<catchUps, handler>>
      BY <2>2, <2>8, QueueDoes
    <3> QED
      BY <1>1, <2>1, <2>4, <2>5, <3>1, QueuedKeepsApart
  <2> QED
    BY <2>6, <2>7, <2>8
<1>8. ASSUME NEW a \in Attempts, ToolingReady(a) \/ Resumed(a) \/ FlushPassEnds(a)
      PROVE  DiscardedInv'
  <2>1. UNCHANGED <<stoppedFor, arrived, discarded, catchUps, handler>>
    BY <1>8 DEF ToolingReady, Resumed, FlushPassEnds, historyVars
  <2>2. \/ UNCHANGED <<buffer, claims>>
        \/ /\ claims' = claims \cup {[sig |-> s, on |-> generation, by |-> a] : s \in buffer}
           /\ buffer' = {}
    BY <1>8 DEF ToolingReady, Install, Resumed, FlushPassEnds, FlushPass
  <2>3. CASE UNCHANGED <<buffer, claims>>
    BY <1>2, <2>1, <2>3 DEF workVars
  <2>4. CASE /\ claims' = claims \cup {[sig |-> s, on |-> generation, by |-> a] : s \in buffer}
             /\ buffer' = {}
    BY <1>1, <2>1, <2>4, ReplayKeepsApart
  <2> QED
    BY <2>2, <2>3, <2>4
<1>9. ASSUME NEW k \in claims, ReplayStarts(k) PROVE DiscardedInv'
  <2>1. /\ claims' = claims \ {k}
        /\ HandleSignal(k.sig, k.on, k.by, owed)
        /\ UNCHANGED <<stoppedFor, buffer, arrived, discarded>>
    BY <1>9 DEF ReplayStarts
  <2>2. /\ k.sig \in Signals /\ k.on \in 0..MaxGeneration
        /\ k.sig \notin buffer
        /\ \A j \in claims' : j.sig # k.sig
        /\ \A e \in catchUps : e.sig # k.sig
        /\ \A h \in Requests : handler[h].at \in {"setup", "gate"} => handler[h].sig # k.sig
        /\ k.sig \in discarded => stoppedFor[k.on] = "auth"
    BY <2>1 DEF TypeInv, DiscardedInv, OnePlace, GivenUpInv
  <2>3. CASE k.sig.conv \in Airflow
    BY <1>1, <2>1, <2>2, <2>3, OpenWindowKeepsApart DEF HandleSignal
  <2>4. CASE k.sig.conv \notin Airflow
    BY <1>1, <2>1, <2>2, <2>4, DispatchKeepsApart DEF HandleSignal, Nowhere
  <2> QED
    BY <2>3, <2>4
<1>10. ASSUME NEW e \in catchUps, WindowEnds(e) PROVE DiscardedInv'
  <2>1. /\ catchUps' = catchUps \ {e} /\ Dispatch(e.sig, e.on, 0)
        /\ UNCHANGED <<stoppedFor, buffer, claims, arrived, discarded>>
    BY <1>10 DEF WindowEnds, historyVars
  <2>2. e.sig \in Signals /\ Nowhere(e.sig)
        /\ (e.sig \in discarded => stoppedFor[e.on] = "auth")
    BY <2>1 DEF TypeInv, DiscardedInv, OnePlace, GivenUpInv, Nowhere
  <2> QED
    BY <1>1, <2>1, <2>2, DispatchKeepsApart
<1>11. ASSUME NEW h \in Requests, Cancelled(h) PROVE DiscardedInv'
  <2>1. /\ handler[h].at = "gate" /\ Returns(h)
        /\ UNCHANGED <<stoppedFor, arrived, discarded, claims, catchUps>>
        /\ \/ UNCHANGED buffer
           \/ /\ stoppedFor[handler[h].on] = "stopped"
              /\ Queue(buffer, {handler[h].sig}, owed)
    BY <1>11 DEF Cancelled, Requeued
  <2>2. CASE UNCHANGED buffer
    BY <1>3, <2>1, <2>2
  <2>3. CASE /\ stoppedFor[handler[h].on] = "stopped"
             /\ Queue(buffer, {handler[h].sig}, owed)
    <3>1. PICK s \in Signals : s = handler[h].sig
      BY <1>1, <2>1
    <3>2. /\ s \notin discarded
          /\ \A k \in claims : k.sig # s
          /\ \A e \in catchUps : e.sig # s
          /\ \A g \in Requests : handler[g].at \in {"setup", "gate"} /\ handler[g].sig = s => g = h
      BY <2>1, <2>3, <3>1 DEF DiscardedInv, OnePlace, GivenUpInv
    <3>3. \A g \in Requests : handler'[g].at \in {"setup", "gate"} =>
            handler[g].sig # s /\ handler'[g] = handler[g]
      BY <2>1, <3>2, ReturnsOnly
    <3>4. buffer' \subseteq buffer \cup {s}
      BY <2>3, <3>1, QueueDoes
    <3> QED
      BY <1>1, <2>1, <3>1, <3>2, <3>3, <3>4, QueuedKeepsApart
  <2> QED
    BY <2>1, <2>2, <2>3
<1>12. ASSUME NEW h \in Requests,
              \/ SetupFails(h) \/ ReachesGate(h) \/ Granted(h) \/ AgentAccepts(h)
              \/ AgentFails(h) \/ Failed(h)
       PROVE  DiscardedInv'
  BY <1>3, <1>12 DEF SetupFails, ReachesGate, Granted, AgentAccepts, AgentFails,
     Failed, Places, historyVars
<1>13. ASSUME NEW h \in Requests, AgentReplies(h) PROVE DiscardedInv'
  <2>1. /\ handler' = [handler EXCEPT ![h] = [@ EXCEPT !.at = "run", !.by = 0]]
        /\ UNCHANGED <<stoppedFor, arrived, discarded, buffer, claims, catchUps>>
    BY <1>13 DEF AgentReplies
  <2>2. \A c \in Calls : [c EXCEPT !.at = "run", !.by = 0].at = "run"
    BY DEF Calls
  <2>3. \A g \in Requests : handler'[g].at \in {"setup", "gate"} => handler'[g] = handler[g]
    BY <2>1, <2>2 DEF TypeInv
  <2> QED
    BY <2>1, <2>3, LeavingKeepsApart
<1>14. ASSUME NEW h \in Requests, Completes(h),
              UNCHANGED <<buffer, claims, catchUps, stoppedFor, arrived, discarded>>
       PROVE  DiscardedInv'
  BY <1>3, <1>14 DEF Completes
<1>15. ASSUME NEW h \in Requests, RunEnds(h) PROVE DiscardedInv'
  BY <1>2, <1>14, <1>15 DEF RunEnds, workVars, historyVars
<1>16. ASSUME NEW p \in probes, ProbeCompletes(p) PROVE DiscardedInv'
  BY <1>14, <1>16 DEF ProbeCompletes, Concerns, Pending, historyVars
<1>17. CASE \/ RpcConnects \/ UserChanges \/ TryStart \/ UNCHANGED bridgeVars
            \/ \E a \in Attempts : Returned(a)
            \/ \E h \in Requests : SweepProbes(h)
            \/ \E p \in probes : ProbeFindsNothing(p)
  BY <1>2, <1>17 DEF RpcConnects, UserChanges, TryStart, Returned, SweepProbes,
     ProbeFindsNothing, bridgeVars, historyVars
<1> QED
  BY <1>4, <1>5, <1>6, <1>7, <1>8, <1>9, <1>10, <1>11, <1>12, <1>13, <1>15,
     <1>16, <1>17 DEF BridgeNext
-----------------------------------------------------------------------------
(***************************************************************************)
(* The invariant and what follows from it.                                 *)
(***************************************************************************)

BridgeInv == AdmissionInv /\ TypeInv /\ LifecycleInv /\ KeptInv /\ LeaseInv
             /\ DiscardedInv

\* The parts of BridgeInv are inductive together: each step of the bridge
\* keeps them, the controller's part by the theorems about CsRunAdmission.
THEOREM BridgeInvariant == BridgeSpec => []BridgeInv
<1> DEFINE OwnInv == TypeInv /\ LifecycleInv /\ KeptInv /\ LeaseInv /\ DiscardedInv
<1>1. BridgeInit => OwnInv
  BY TypeInvInit, LifecycleInvInit, KeptInvInit, LeaseInvInit, DiscardedInvInit
<1>2. AdmissionInv /\ OwnInv /\ [BridgeNext]_bridgeVars => OwnInv'
  <2> SUFFICES ASSUME AdmissionInv, OwnInv, [BridgeNext]_bridgeVars
               PROVE  OwnInv'
    OBVIOUS
  <2>1. generation \in 0..MaxGeneration
    BY DEF AdmissionInv, AdmissionTypeOK
  <2>2. TypeInv' /\ LifecycleInv' /\ KeptInv' /\ LeaseInv'
    BY <2>1, TypeInvStep, LifecycleInvStep, KeptInvStep, LeaseInvStep
  <2>3. DiscardedInv'
    BY <2>2, DiscardedInvStep
  <2> QED
    BY <2>2, <2>3
<1>3. BridgeSpec => []AdmissionInv
  BY BridgeAdmits, AdmissionInvariant
<1> QED
  BY <1>1, <1>2, <1>3, PTL DEF BridgeSpec, BridgeInv

\* The variables of the bridge keep their types, and the buffer holds one
\* signal of a conversation.
THEOREM BridgeTypeCorrect == BridgeSpec => []BridgeTypeOK
<1>1. BridgeInv => BridgeTypeOK
  BY TypeInvIsTyped DEF BridgeInv
<1> QED
  BY <1>1, BridgeInvariant, PTL

\* At most one attempt to start or resume the bridge is of the present
\* generation, however many disconnects overlap them.
THEOREM BridgeOneAttempt == BridgeSpec => []OneAttempt
<1>1. BridgeInv => OneAttempt
  BY DEF BridgeInv, LifecycleInv, AttemptInv
<1> QED
  BY <1>1, BridgeInvariant, PTL

\* A bridge without a connected gateway is closed and admits nobody.
THEOREM BridgeGateClosed == BridgeSpec => []ClosedBridgeAdmitsNobody
<1>1. BridgeInv => ClosedBridgeAdmitsNobody
  BY DEF BridgeInv, LifecycleInv, GateInv
<1> QED
  BY <1>1, BridgeInvariant, PTL

\* No signal is lost on its way to the gateway, however often the gateway
\* stops and the account changes, but for those that a newer signal, the limit
\* of the buffer or a sign-out takes out, whatever the limit.
THEOREM BridgeKeepsSignals == BridgeSpec => []SignalsAreKept
<1>1. BridgeInv => SignalsAreKept
  BY DEF BridgeInv, KeptInv
<1> QED
  BY <1>1, BridgeInvariant, PTL

\* What a sign-out or a change of account gives up never gets back into the
\* buffer: the dispatches it cancels are dropped, and each of them is in one
\* place only.
THEOREM BridgeDiscardedStaysOut == BridgeSpec => []DiscardedStaysOut
<1>1. BridgeInv => DiscardedStaysOut
  BY DEF BridgeInv, DiscardedInv, GivenUpInv
<1> QED
  BY <1>1, BridgeInvariant, PTL

\* Each occupied slot belongs to a call of the installed bridge that still
\* needs it, and each pending run has one.
THEOREM BridgeLeasesAreOwned == BridgeSpec => []LeasesAreOwned
<1>1. BridgeInv => LeasesAreOwned
  <2> SUFFICES ASSUME BridgeInv PROVE LeasesAreOwned
    OBVIOUS
  <2>1. \A h \in Requests : handler[h].at = "run" => h \notin released
    BY DEF BridgeInv, LeaseInv
  <2> QED
    BY <2>1 DEF BridgeInv, LeaseInv, LeasesAreOwned, Pending, Holding, Leased
<1> QED
  BY <1>1, BridgeInvariant, PTL

\* No run is completed twice.
THEOREM BridgeCompletesOnce == BridgeSpec => []CompletedOnce
<1>1. BridgeInv => CompletedOnce
  BY DEF BridgeInv, LeaseInv, CompletedOnce
<1> QED
  BY <1>1, BridgeInvariant, PTL

\* Driven by the bridge, the controller is the abstract semaphore.
THEOREM BridgeImplementsSemaphore == BridgeSpec => ImplementsSemaphore
BY BridgeAdmits, AdmissionImplementsSemaphore
=============================================================================
