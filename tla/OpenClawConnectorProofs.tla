----------------------- MODULE OpenClawConnectorProofs -----------------------
(***************************************************************************)
(* Proofs about the gateway supervisor and the connector that composes it  *)
(* with the RPC client, for every number of callers, processes, clients    *)
(* and late closes and every restart limit.                                *)
(***************************************************************************)
EXTENDS OpenClawConnector, TLAPS

(***************************************************************************)
(* The supervisor, whose specification is Spec.                            *)
(***************************************************************************)

\* Exactly the state "stopping" has a stop in progress, which is about a child
\* and was requested.
StopInProgress ==
  /\ completion <=> state = "stopping"
  /\ completion => proc # NoPid /\ stopRequested

\* Who is resumed by the end of a stop finds it over.
ResumedAfterStop == \A c \in Callers : pc[c] = "resume" => ~completion

\* The backoff timer stands for a child nobody stopped.
BackoffOfCrash ==
  restartTimer => proc = NoPid /\ state \in {"running", "starting"} /\ ~stopRequested

\* A stopped launcher holds nothing.
StoppedIsEmpty == state = "stopped" => proc = NoPid

\* The launcher gives up at the restart that exceeds the limit.
LimitStops == restartCount > MaxRestarts => state = "stopped"

LauncherInv ==
  /\ TypeOK
  /\ NoOrphan
  /\ StoppedForGood
  /\ IgnoredStartIsServed
  /\ StopInProgress
  /\ ResumedAfterStop
  /\ BackoffOfCrash
  /\ StoppedIsEmpty
  /\ LimitStops
-----------------------------------------------------------------------------
\* The invariant holds when the launcher is made.
LEMMA InitLauncherInv == Init => LauncherInv
<1> SUFFICES ASSUME Init PROVE LauncherInv
  OBVIOUS
<1>0. 0 \in 0..(MaxRestarts + 1)
  BY MaxRestartsAssumption
<1>1. TypeOK
  BY <1>0 DEF Init, TypeOK, Places
<1>2. NoOrphan /\ StoppedForGood /\ IgnoredStartIsServed
  BY DEF Init, NoOrphan, StoppedForGood, IgnoredStartIsServed
<1>3. StopInProgress /\ ResumedAfterStop /\ BackoffOfCrash /\ StoppedIsEmpty
  BY DEF Init, StopInProgress, ResumedAfterStop, BackoffOfCrash, StoppedIsEmpty
<1>4. LimitStops
  BY DEF Init, LimitStops
<1> QED
  BY <1>1, <1>2, <1>3, <1>4 DEF LauncherInv

\* The part of the state that a spawn leaves well formed, whatever becomes of
\* the spawn, when the launcher holds no child and no timer.
LEMMA SpawnSafe ==
  ASSUME TypeOK, NoOrphan, proc = NoPid, SpawnProcess
  PROVE  /\ state' \in {"stopped", "running", "starting"}
         /\ proc' \in Pids \cup {NoPid}
         /\ live' \in SUBSET Pids
         /\ healthy' \in BOOLEAN
         /\ live' \subseteq {proc'}
         /\ state' = "stopped" => proc' = NoPid
         /\ state' = "running" => proc' # NoPid
<1>1. live = {}
  BY NoPidAssumption DEF TypeOK, NoOrphan
<1> QED
  BY <1>1, NoPidAssumption DEF TypeOK, SpawnProcess

\* A start() that awaits no stop, or no longer does.
LEMMA BeginStartSafe ==
  ASSUME LauncherInv, ~completion, BeginStart,
         UNCHANGED <<completion, killed, restartTimer>>,
         pc' \in [Callers -> Places], lastCall' \in {"none", "start", "stop"}
  PROVE  LauncherInv'
<1> USE DEF LauncherInv
<1>1. CASE state \in {"running", "starting"}
  <2>1. UNCHANGED <<state, proc, live, healthy, stopRequested, restartCount>>
    BY <1>1 DEF BeginStart
  <2>2. TypeOK'
    BY <2>1 DEF TypeOK
  <2>3. NoOrphan' /\ StoppedForGood' /\ IgnoredStartIsServed'
    BY <2>1 DEF NoOrphan, StoppedForGood, IgnoredStartIsServed
  <2>4. StopInProgress' /\ ResumedAfterStop' /\ BackoffOfCrash'
    BY <2>1 DEF StopInProgress, ResumedAfterStop, BackoffOfCrash
  <2>5. StoppedIsEmpty' /\ LimitStops'
    BY <2>1 DEF StoppedIsEmpty, LimitStops
  <2> QED
    BY <2>2, <2>3, <2>4, <2>5
<1>2. CASE state \notin {"running", "starting"}
  <2>1. stopRequested' = FALSE /\ restartCount' = 0 /\ SpawnProcess
    BY <1>2 DEF BeginStart
  <2>2. state = "stopped"
    BY <1>2 DEF TypeOK, StopInProgress
  <2>3. proc = NoPid /\ ~restartTimer
    BY <2>2 DEF StoppedIsEmpty, BackoffOfCrash
  <2>4. /\ state' \in {"stopped", "running", "starting"}
        /\ proc' \in Pids \cup {NoPid}
        /\ live' \in SUBSET Pids
        /\ healthy' \in BOOLEAN
        /\ live' \subseteq {proc'}
        /\ state' = "stopped" => proc' = NoPid
        /\ state' = "running" => proc' # NoPid
    BY <2>1, <2>3, SpawnSafe
  <2>0. 0 \in 0..(MaxRestarts + 1)
    BY MaxRestartsAssumption
  <2>5. TypeOK'
    BY <2>0, <2>1, <2>4 DEF TypeOK
  <2>6. NoOrphan' /\ StoppedForGood' /\ IgnoredStartIsServed'
    BY <2>1, <2>4 DEF NoOrphan, StoppedForGood, IgnoredStartIsServed
  <2>7. StopInProgress' /\ ResumedAfterStop' /\ BackoffOfCrash' /\ StoppedIsEmpty'
    BY <2>1, <2>3, <2>4
    DEF StopInProgress, ResumedAfterStop, BackoffOfCrash, StoppedIsEmpty
  <2>8. LimitStops'
    BY <2>1, MaxRestartsAssumption DEF LimitStops
  <2> QED
    BY <2>5, <2>6, <2>7, <2>8
<1> QED
  BY <1>1, <1>2

\* A start() whose callers are due no microtask but their own.
LEMMA StartSafe ==
  ASSUME LauncherInv, NEW c \in Callers, Start(c), NoneResumed
  PROVE  LauncherInv'
<1> USE DEF LauncherInv
<1>1. lastCall' \in {"none", "start", "stop"}
  BY DEF Start
<1>2. pc' \in [Callers -> Places]
  BY DEF Start, TypeOK, Places
<1>3. CASE completion
  <2>1. /\ UNCHANGED <<state, proc, live, healthy, stopRequested, restartCount>>
        /\ UNCHANGED <<completion, killed, restartTimer>>
        /\ pc' = [pc EXCEPT ![c] = "await"]
    BY <1>3 DEF Start
  <2>2. TypeOK'
    BY <1>1, <1>2, <2>1 DEF TypeOK
  <2>3. NoOrphan' /\ StoppedForGood' /\ IgnoredStartIsServed'
    BY <2>1 DEF NoOrphan, StoppedForGood, IgnoredStartIsServed
  <2>4. ResumedAfterStop'
    BY <2>1 DEF ResumedAfterStop, NoneResumed, TypeOK
  <2>5. StopInProgress' /\ BackoffOfCrash' /\ StoppedIsEmpty' /\ LimitStops'
    BY <2>1 DEF StopInProgress, BackoffOfCrash, StoppedIsEmpty, LimitStops
  <2> QED
    BY <2>2, <2>3, <2>4, <2>5
<1>4. CASE ~completion
  <2>1. BeginStart /\ UNCHANGED <<completion, killed, restartTimer>>
    BY <1>4 DEF Start
  <2> QED
    BY <1>1, <1>2, <1>4, <2>1, BeginStartSafe
<1> QED
  BY <1>3, <1>4

\* A stop(), alone or before a start().
LEMMA StopSafe ==
  ASSUME LauncherInv, Settled, NEW c \in Callers,
         NEW next \in {"idle", "call"}, Stop(c, next)
  PROVE  LauncherInv'
<1> USE DEF LauncherInv
<1>1. /\ stopRequested' = TRUE
      /\ lastCall' = "stop"
      /\ UNCHANGED <<proc, live, restartCount, healthy>>
  BY DEF Stop, StopWith
<1>2. pc' \in [Callers -> Places] /\ \A d \in Callers : pc'[d] # "resume"
  BY DEF Stop, StopWith, TypeOK, Places, Settled
<1>3. NoOrphan' /\ ResumedAfterStop'
  BY <1>1, <1>2 DEF NoOrphan, ResumedAfterStop
<1>4. CASE completion
  <2>1. UNCHANGED <<state, completion, killed, restartTimer>>
    BY <1>4 DEF Stop, StopWith
  <2>2. TypeOK'
    BY <1>1, <1>2, <2>1 DEF TypeOK
  <2>3. StoppedForGood' /\ IgnoredStartIsServed' /\ StopInProgress'
    BY <1>1, <1>4, <2>1 DEF StoppedForGood, IgnoredStartIsServed, StopInProgress
  <2>4. BackoffOfCrash' /\ StoppedIsEmpty' /\ LimitStops'
    BY <1>1, <1>4, <2>1 DEF StopInProgress, BackoffOfCrash, StoppedIsEmpty, LimitStops
  <2> QED
    BY <1>3, <2>2, <2>3, <2>4
<1>5. CASE ~completion /\ (proc = NoPid \/ state = "stopped")
  <2>1. proc = NoPid
    BY <1>5 DEF StoppedIsEmpty
  <2>2. /\ restartTimer' = FALSE
        /\ state' = "stopped"
        /\ UNCHANGED <<completion, killed>>
    BY <1>5 DEF Stop, StopWith
  <2>3. TypeOK'
    BY <1>1, <1>2, <2>2 DEF TypeOK
  <2>4. StoppedForGood' /\ IgnoredStartIsServed' /\ StopInProgress'
    BY <1>1, <1>5, <2>1, <2>2
    DEF StoppedForGood, IgnoredStartIsServed, StopInProgress
  <2>5. BackoffOfCrash' /\ StoppedIsEmpty' /\ LimitStops'
    BY <1>1, <2>1, <2>2 DEF BackoffOfCrash, StoppedIsEmpty, LimitStops
  <2> QED
    BY <1>3, <2>3, <2>4, <2>5
<1>6. CASE ~completion /\ proc # NoPid /\ state # "stopped"
  <2>1. /\ restartTimer' = FALSE
        /\ state' = "stopping"
        /\ completion' = TRUE
        /\ killed' = FALSE
    BY <1>6 DEF Stop, StopWith
  <2>2. TypeOK'
    BY <1>1, <1>2, <2>1 DEF TypeOK
  <2>3. StoppedForGood' /\ IgnoredStartIsServed' /\ StopInProgress'
    BY <1>1, <1>6, <2>1 DEF StoppedForGood, IgnoredStartIsServed, StopInProgress
  <2>4. restartCount \in Nat /\ MaxRestarts \in Nat /\ restartCount <= MaxRestarts
    BY <1>6, MaxRestartsAssumption DEF LimitStops, TypeOK
  <2>5. BackoffOfCrash' /\ StoppedIsEmpty' /\ LimitStops'
    BY <1>1, <2>1, <2>4 DEF BackoffOfCrash, StoppedIsEmpty, LimitStops
  <2> QED
    BY <1>3, <2>2, <2>3, <2>5
<1> QED
  BY <1>4, <1>5, <1>6

\* The exit of the child.
LEMMA ExitSafe ==
  ASSUME LauncherInv, Exit
  PROVE  LauncherInv'
<1> USE DEF LauncherInv
<1>1. /\ Settled
      /\ proc # NoPid
      /\ proc' = NoPid
      /\ live' = live \ {proc}
      /\ completion' = FALSE
      /\ UNCHANGED <<stopRequested, killed, healthy, lastCall>>
  BY DEF Exit
<1>2. pc' \in [Callers -> Places]
  BY DEF Exit, AfterCompletion, TypeOK, Places
<1>3. NoOrphan' /\ ResumedAfterStop' /\ StoppedIsEmpty'
  BY <1>1 DEF NoOrphan, ResumedAfterStop, StoppedIsEmpty
<1>4. ~restartTimer
  BY <1>1 DEF BackoffOfCrash
<1>5. state # "stopped" /\ restartCount \in Nat /\ restartCount <= MaxRestarts
  BY <1>1, MaxRestartsAssumption DEF StoppedIsEmpty, LimitStops, TypeOK
<1>6. CASE stopRequested \/ state = "stopping"
  <2>1. state' = "stopped" /\ UNCHANGED <<restartTimer, restartCount>>
    BY <1>6 DEF Exit
  <2>2. TypeOK'
    BY <1>1, <1>2, <2>1 DEF TypeOK
  <2>3. StoppedForGood' /\ IgnoredStartIsServed' /\ StopInProgress'
    BY <1>1, <1>4, <2>1 DEF StoppedForGood, IgnoredStartIsServed, StopInProgress
  <2>4. BackoffOfCrash' /\ LimitStops'
    BY <1>4, <2>1 DEF BackoffOfCrash, LimitStops
  <2> QED
    BY <1>3, <2>2, <2>3, <2>4
<1>7. CASE ~(stopRequested \/ state = "stopping")
  <2>1. ScheduleRestart
    BY <1>7 DEF Exit
  <2>2. state \in {"starting", "running"} /\ ~stopRequested
    BY <1>5, <1>7 DEF TypeOK
  <2>3. /\ restartCount' \in 0..(MaxRestarts + 1)
        /\ \/ /\ state' = "stopped"
              /\ restartTimer' = restartTimer
           \/ /\ state' = state
              /\ restartTimer' = TRUE
              /\ restartCount' <= MaxRestarts
    BY <1>5, <2>1, MaxRestartsAssumption DEF ScheduleRestart
  <2>4. TypeOK'
    BY <1>1, <1>2, <2>2, <2>3 DEF TypeOK
  <2>5. StoppedForGood' /\ IgnoredStartIsServed' /\ StopInProgress'
    BY <1>1, <1>4, <2>2, <2>3
    DEF StoppedForGood, IgnoredStartIsServed, StopInProgress
  <2>6. BackoffOfCrash'
    BY <1>1, <1>4, <2>2, <2>3 DEF BackoffOfCrash
  <2>7. LimitStops'
    <3>1. CASE state' = "stopped"
      BY <3>1 DEF LimitStops
    <3>2. CASE restartCount' <= MaxRestarts
      <4>1. restartCount' \in Nat
        BY <2>3, MaxRestartsAssumption
      <4>2. ~(restartCount' > MaxRestarts)
        BY <3>2, <4>1, MaxRestartsAssumption
      <4> QED
        BY <4>2 DEF LimitStops
    <3> QED
      BY <2>3, <3>1, <3>2
  <2> QED
    BY <1>3, <2>4, <2>5, <2>6, <2>7
<1> QED
  BY <1>6, <1>7

\* The backoff timer fires.
LEMMA RestartTimerSafe ==
  ASSUME LauncherInv, RestartTimer
  PROVE  LauncherInv'
<1> USE DEF LauncherInv
<1>1. /\ proc = NoPid
      /\ ~stopRequested
      /\ state \in {"running", "starting"}
  BY DEF RestartTimer, BackoffOfCrash
<1>2. /\ Settled
      /\ restartTimer' = FALSE
      /\ SpawnProcess
      /\ UNCHANGED <<stopRequested, completion, killed, restartCount, pc, lastCall>>
  BY <1>1 DEF RestartTimer
<1>3. /\ state' \in {"stopped", "running", "starting"}
      /\ proc' \in Pids \cup {NoPid}
      /\ live' \in SUBSET Pids
      /\ healthy' \in BOOLEAN
      /\ live' \subseteq {proc'}
      /\ state' = "stopped" => proc' = NoPid
      /\ state' = "running" => proc' # NoPid
  BY <1>1, <1>2, SpawnSafe
<1>4. TypeOK'
  BY <1>2, <1>3 DEF TypeOK
<1>5. NoOrphan' /\ StoppedForGood' /\ IgnoredStartIsServed'
  BY <1>1, <1>2, <1>3 DEF NoOrphan, StoppedForGood, IgnoredStartIsServed
<1>6. StopInProgress' /\ ResumedAfterStop' /\ BackoffOfCrash' /\ StoppedIsEmpty'
  BY <1>1, <1>2, <1>3
  DEF StopInProgress, ResumedAfterStop, BackoffOfCrash, StoppedIsEmpty, Settled
<1>7. LimitStops'
  BY <1>1, <1>2 DEF LimitStops
<1> QED
  BY <1>4, <1>5, <1>6, <1>7

\* Each step of the launcher keeps it.
LEMMA NextLauncherInv ==
  ASSUME LauncherInv, [Next]_vars
  PROVE  LauncherInv'
<1>1. ASSUME NEW c \in Callers, CallStart(c)
      PROVE  LauncherInv'
  <2>1. Start(c) /\ NoneResumed
    BY <1>1 DEF CallStart, Settled, NoneResumed
  <2> QED
    BY <2>1, StartSafe
<1>2. ASSUME NEW c \in Callers, CallStop(c)
      PROVE  LauncherInv'
  BY <1>2, StopSafe DEF CallStop
<1>3. ASSUME NEW c \in Callers, CallRestart(c)
      PROVE  LauncherInv'
  BY <1>3, StopSafe DEF CallRestart
<1>4. CASE UNCHANGED vars
  BY <1>4 DEF vars, LauncherInv, TypeOK, NoOrphan, StoppedForGood,
     IgnoredStartIsServed, StopInProgress, ResumedAfterStop, BackoffOfCrash,
     StoppedIsEmpty, LimitStops
<1>5. ASSUME NEW c \in Callers, CallReload(c)
      PROVE  LauncherInv'
  BY <1>4, <1>5, StopSafe DEF CallReload
<1>6. ASSUME NEW c \in Callers, Resume(c)
      PROVE  LauncherInv'
  <2>1. /\ BeginStart
        /\ pc' = [pc EXCEPT ![c] = "idle"]
        /\ UNCHANGED <<completion, killed, restartTimer, lastCall>>
        /\ pc[c] = "resume"
    BY <1>6 DEF Resume
  <2>2. ~completion
    BY <1>6, <2>1 DEF LauncherInv, ResumedAfterStop
  <2>3. pc' \in [Callers -> Places] /\ lastCall' \in {"none", "start", "stop"}
    BY <2>1 DEF LauncherInv, TypeOK, Places
  <2> QED
    BY <2>1, <2>2, <2>3, BeginStartSafe
<1>7. ASSUME NEW c \in Callers, Continue(c)
      PROVE  LauncherInv'
  BY <1>7, StartSafe DEF Continue
<1>8. CASE KillTimeout \/ Ripen
  <2>1. /\ UNCHANGED <<state, proc, live, stopRequested, completion>>
        /\ UNCHANGED <<restartTimer, restartCount, pc, lastCall>>
    BY <1>8 DEF KillTimeout, Ripen
  <2>2. killed' \in BOOLEAN /\ healthy' \in BOOLEAN
    BY <1>8 DEF KillTimeout, Ripen, LauncherInv, TypeOK
  <2>3. TypeOK'
    BY <2>1, <2>2 DEF LauncherInv, TypeOK
  <2>4. NoOrphan' /\ StoppedForGood' /\ IgnoredStartIsServed' /\ StopInProgress'
    BY <2>1
    DEF LauncherInv, NoOrphan, StoppedForGood, IgnoredStartIsServed, StopInProgress
  <2>5. ResumedAfterStop' /\ BackoffOfCrash' /\ StoppedIsEmpty' /\ LimitStops'
    BY <2>1
    DEF LauncherInv, ResumedAfterStop, BackoffOfCrash, StoppedIsEmpty, LimitStops
  <2> QED
    BY <2>3, <2>4, <2>5 DEF LauncherInv
<1>9. CASE ChildExit \/ FailedChildExit
  BY <1>9, ExitSafe DEF ChildExit, FailedChildExit
<1>10. CASE RestartTimer
  BY <1>10, RestartTimerSafe
<1> QED
  BY <1>1, <1>2, <1>3, <1>4, <1>5, <1>6, <1>7, <1>8, <1>9, <1>10 DEF Next

\* So it always holds.
LEMMA LauncherInvariant == Spec => []LauncherInv
<1>1. LauncherInv /\ [Next]_vars => LauncherInv'
  BY NextLauncherInv
<1> QED
  BY InitLauncherInv, <1>1, PTL DEF Spec

\* The supervisor's variables keep their types, the restart counter its bound.
THEOREM LauncherTypeCorrect == Spec => []TypeOK
<1>1. LauncherInv => TypeOK
  BY DEF LauncherInv
<1> QED
  BY LauncherInvariant, <1>1, PTL

\* No interleaving of start, stop, reload, restarts and crashes orphans a
\* gateway process or runs two.
THEOREM LauncherNoOrphan == Spec => []NoOrphan
<1>1. LauncherInv => NoOrphan
  BY DEF LauncherInv
<1> QED
  BY LauncherInvariant, <1>1, PTL

\* A finished stop leaves neither a process nor a timer.
THEOREM LauncherStoppedForGood == Spec => []StoppedForGood
<1>1. LauncherInv => StoppedForGood
  BY DEF LauncherInv
<1> QED
  BY LauncherInvariant, <1>1, PTL

\* A start() ignored by a launcher without a child is made good by its timer.
THEOREM LauncherIgnoredStartIsServed == Spec => []IgnoredStartIsServed
<1>1. LauncherInv => IgnoredStartIsServed
  BY DEF LauncherInv
<1> QED
  BY LauncherInvariant, <1>1, PTL
-----------------------------------------------------------------------------
\* A stop is in progress exactly while somebody waits for it.
AwaitedStop == completion <=> Suspended # {}

\* One more caller is suspended, or as many as before.
LEMMA MovedCaller ==
  ASSUME TypeOK, NEW c \in Callers, NEW w \in Places, c \notin Suspended,
         pc' = [pc EXCEPT ![c] = w]
  PROVE  Suspended' = IF w \in {"stop", "restart", "await"}
                        THEN Suspended \cup {c}
                        ELSE Suspended
BY DEF TypeOK, Suspended

\* The launcher holds a live gateway in none of its idle states.
LEMMA NothingLives ==
  ASSUME NoOrphan, TypeOK, proc = NoPid
  PROVE  live = {}
BY NoPidAssumption DEF NoOrphan, TypeOK

\* A stop() is the supervisor's, whether its caller has to wait or not.
LEMMA StopIsSupervised ==
  ASSUME LauncherInv, AwaitedStop, NEW c \in Callers, pc[c] = "idle",
         NEW next \in {"idle", "call"}, Stop(c, next)
  PROVE  Supervised!Stop(c) /\ AwaitedStop'
<1> USE DEF LauncherInv
<1>1. c \notin Suspended /\ stopRequested' = TRUE /\ UNCHANGED <<proc, live>>
  BY DEF Suspended, Stop, StopWith
<1>2. CASE completion
  <2>1. /\ UNCHANGED <<completion, restartTimer>>
        /\ \E w \in {"stop", "restart"} : pc' = [pc EXCEPT ![c] = w]
    BY <1>2 DEF Stop, StopWith
  <2>2. Suspended' = Suspended \cup {c}
    BY <1>1, <2>1, MovedCaller DEF Places
  <2>3. restartTimer' = FALSE
    BY <1>2, <2>1 DEF StopInProgress, BackoffOfCrash, TypeOK
  <2> QED BY <1>1, <1>2, <2>1, <2>2, <2>3 DEF Supervised!Stop, AwaitedStop
<1>3. CASE ~completion /\ (proc = NoPid \/ state = "stopped")
  <2>1. /\ UNCHANGED completion
        /\ restartTimer' = FALSE
        /\ pc' = [pc EXCEPT ![c] = next]
    BY <1>3 DEF Stop, StopWith
  <2>2. Suspended' = Suspended
    BY <1>1, <2>1, MovedCaller DEF Places
  <2>3. live = {}
    BY <1>3, NothingLives DEF StoppedIsEmpty
  <2> QED BY <1>1, <1>3, <2>1, <2>2, <2>3 DEF Supervised!Stop, AwaitedStop
<1>4. CASE ~completion /\ proc # NoPid /\ state # "stopped"
  <2>1. /\ completion' = TRUE
        /\ restartTimer' = FALSE
        /\ \E w \in {"stop", "restart"} : pc' = [pc EXCEPT ![c] = w]
    BY <1>4 DEF Stop, StopWith
  <2>2. Suspended' = Suspended \cup {c}
    BY <1>1, <2>1, MovedCaller DEF Places
  <2> QED BY <1>1, <2>1, <2>2 DEF Supervised!Stop, AwaitedStop
<1> QED BY <1>2, <1>3, <1>4

\* Whatever a spawn leads to when no gateway lives, at most one is born.
LEMMA SpawnIsAttempt ==
  ASSUME live = {}, SpawnProcess
  PROVE  Supervised!Attempt
BY DEF SpawnProcess, Supervised!Attempt

\* A start() that awaits no stop either begins the supervisor's or is ignored.
LEMMA BeginStartIsSupervised ==
  ASSUME LauncherInv, ~completion, AwaitedStop, BeginStart,
         UNCHANGED <<completion, restartTimer>>, Suspended' = Suspended
  PROVE  (Supervised!Start \/ UNCHANGED Supervised!vars) /\ AwaitedStop'
<1> USE DEF LauncherInv
<1>1. AwaitedStop' /\ Suspended = {}
  BY DEF AwaitedStop
<1>2. CASE state \in {"running", "starting"}
  BY <1>1, <1>2 DEF BeginStart, Supervised!vars
<1>3. CASE state \notin {"running", "starting"}
  <2>1. stopRequested' = FALSE /\ SpawnProcess
    BY <1>3 DEF BeginStart
  <2>2. state = "stopped"
    BY <1>3 DEF TypeOK, StopInProgress
  <2>3. live = {} /\ ~restartTimer
    BY <2>2, NothingLives DEF StoppedIsEmpty, BackoffOfCrash
  <2> QED BY <1>1, <2>1, <2>3, SpawnIsAttempt DEF Supervised!Start
<1> QED BY <1>2, <1>3

\* A start() waits like the supervisor's, begins it, or is ignored.
LEMMA StartIsSupervised ==
  ASSUME LauncherInv, AwaitedStop, NEW c \in Callers, pc[c] \in {"idle", "call"},
         Start(c)
  PROVE  /\ Supervised!Wait(c) \/ Supervised!Start \/ UNCHANGED Supervised!vars
         /\ AwaitedStop'
<1>1. c \notin Suspended /\ TypeOK /\ UNCHANGED <<completion, restartTimer>>
  BY DEF Suspended, LauncherInv, Start
<1>2. CASE completion
  <2>1. /\ UNCHANGED <<live, stopRequested>>
        /\ pc' = [pc EXCEPT ![c] = "await"]
    BY <1>2 DEF Start
  <2>2. Suspended' = Suspended \cup {c}
    BY <1>1, <2>1, MovedCaller DEF Places
  <2> QED BY <1>1, <1>2, <2>1, <2>2 DEF AwaitedStop, Supervised!Wait
<1>3. CASE ~completion
  <2>1. BeginStart /\ pc' = [pc EXCEPT ![c] = "idle"]
    BY <1>3 DEF Start
  <2>2. Suspended' = Suspended
    BY <1>1, <2>1, MovedCaller DEF Places
  <2> QED BY <1>1, <1>3, <2>1, <2>2, BeginStartIsSupervised
<1> QED BY <1>2, <1>3

\* The exit of the child lets everybody go on who waited, and schedules a
\* restart only if nobody asked for a stop.
LEMMA ExitIsSupervised ==
  ASSUME LauncherInv, AwaitedStop, Exit
  PROVE  Supervised!End /\ AwaitedStop'
<1> USE DEF LauncherInv
<1>1. /\ proc # NoPid
      /\ live' = live \ {proc}
      /\ completion' = FALSE
      /\ UNCHANGED stopRequested
      /\ pc' = IF completion THEN AfterCompletion ELSE pc
  BY DEF Exit
<1>2. ~restartTimer /\ live' = {}
  BY <1>1 DEF BackoffOfCrash, NoOrphan
<1>3. Suspended' = {}
  <2>1. CASE completion
    <3>1. \A d \in Callers : pc'[d] \notin {"stop", "restart", "await"}
      BY <1>1, <2>1 DEF AfterCompletion
    <3> QED BY <3>1 DEF Suspended
  <2>2. CASE ~completion
    BY <1>1, <2>2 DEF AwaitedStop, Suspended
  <2> QED BY <2>1, <2>2
<1>4. restartTimer' \in {FALSE, ~stopRequested}
  <2>1. CASE stopRequested \/ state = "stopping"
    BY <1>2, <2>1 DEF Exit, TypeOK
  <2>2. CASE ~(stopRequested \/ state = "stopping")
    <3>1. restartTimer' = restartTimer \/ restartTimer' = TRUE
      BY <2>2 DEF Exit, ScheduleRestart
    <3> QED BY <1>2, <2>2, <3>1 DEF TypeOK
  <2> QED BY <2>1, <2>2
<1> QED BY <1>1, <1>2, <1>3, <1>4 DEF Supervised!End, AwaitedStop

\* The backoff timer restarts what nobody stopped.
LEMMA RestartTimerIsSupervised ==
  ASSUME LauncherInv, AwaitedStop, RestartTimer
  PROVE  Supervised!Restart /\ AwaitedStop'
<1> USE DEF LauncherInv
<1>1. proc = NoPid /\ ~stopRequested /\ restartTimer /\ Suspended = {} /\ live = {}
  BY NothingLives DEF RestartTimer, BackoffOfCrash, StopInProgress, AwaitedStop
<1>2. /\ restartTimer' = FALSE
      /\ SpawnProcess
      /\ UNCHANGED <<stopRequested, completion, pc>>
  BY <1>1 DEF RestartTimer
<1>3. Suspended' = Suspended
  BY <1>2 DEF Suspended
<1> QED BY <1>1, <1>2, <1>3, SpawnIsAttempt DEF Supervised!Restart, AwaitedStop

\* Each step of the launcher is one of the supervisor's or changes nothing that
\* it promises.
LEMMA StepIsSupervised ==
  ASSUME LauncherInv, AwaitedStop, [Next]_vars
  PROVE  [Supervised!Next]_(Supervised!vars) /\ AwaitedStop'
<1>1. ASSUME NEW c \in Callers, CallStart(c)
      PROVE  [Supervised!Next]_(Supervised!vars) /\ AwaitedStop'
  BY <1>1, StartIsSupervised DEF CallStart, Supervised!Next
<1>2. ASSUME NEW c \in Callers, CallStop(c) \/ CallRestart(c)
      PROVE  [Supervised!Next]_(Supervised!vars) /\ AwaitedStop'
  BY <1>2, StopIsSupervised DEF CallStop, CallRestart, Supervised!Next
<1>3. CASE UNCHANGED vars
  BY <1>3 DEF vars, Supervised!vars, AwaitedStop, Suspended
<1>4. ASSUME NEW c \in Callers, CallReload(c)
      PROVE  [Supervised!Next]_(Supervised!vars) /\ AwaitedStop'
  BY <1>3, <1>4, StopIsSupervised DEF CallReload, Supervised!Next
<1>5. ASSUME NEW c \in Callers, Resume(c)
      PROVE  [Supervised!Next]_(Supervised!vars) /\ AwaitedStop'
  <2>1. /\ pc[c] = "resume"
        /\ BeginStart
        /\ pc' = [pc EXCEPT ![c] = "idle"]
        /\ UNCHANGED <<completion, restartTimer>>
    BY <1>5 DEF Resume
  <2>2. TypeOK /\ ~completion /\ c \notin Suspended
    BY <2>1 DEF LauncherInv, ResumedAfterStop, Suspended
  <2>3. Suspended' = Suspended
    BY <2>1, <2>2, MovedCaller DEF Places
  <2> QED BY <2>1, <2>2, <2>3, BeginStartIsSupervised DEF Supervised!Next
<1>6. ASSUME NEW c \in Callers, Continue(c)
      PROVE  [Supervised!Next]_(Supervised!vars) /\ AwaitedStop'
  BY <1>6, StartIsSupervised DEF Continue, Supervised!Next
<1>7. CASE KillTimeout \/ Ripen
  BY <1>7 DEF KillTimeout, Ripen, Supervised!vars, AwaitedStop, Suspended
<1>8. CASE ChildExit \/ FailedChildExit
  BY <1>8, ExitIsSupervised DEF ChildExit, FailedChildExit, Supervised!Next
<1>9. CASE RestartTimer
  BY <1>9, RestartTimerIsSupervised DEF Supervised!Next
<1> QED BY <1>1, <1>2, <1>3, <1>4, <1>5, <1>6, <1>7, <1>8, <1>9 DEF Next

\* The launcher implements the abstract supervisor for any number of callers:
\* at most one process, no stop that returns before the gateway it met has
\* ended, no start while a stop is awaited, no restart of what was stopped.
THEOREM LauncherImplementsSupervisor == Spec => ImplementsSupervisor
<1>1. Init => Supervised!Init /\ AwaitedStop
  BY DEF Init, Supervised!Init, AwaitedStop, Suspended
<1>2. LauncherInv /\ AwaitedStop /\ [Next]_vars
        => [Supervised!Next]_(Supervised!vars) /\ AwaitedStop'
  BY StepIsSupervised
<1> QED
  BY <1>1, <1>2, LauncherInvariant, PTL
  DEF Spec, ImplementsSupervisor, Supervised!Spec

\* What the abstract supervisor guarantees by itself, and so whatever implements
\* it: its promise needs nothing of the launcher's state.
THEOREM SupervisorKeepsPromise == ImplementsSupervisor => []Supervised!Promise
<1>1. Supervised!Init => Supervised!Promise
  BY DEF Supervised!Init, Supervised!Promise
<1>2. Supervised!Promise /\ [Supervised!Next]_(Supervised!vars)
        => Supervised!Promise'
  <2> SUFFICES ASSUME Supervised!Promise, [Supervised!Next]_(Supervised!vars)
               PROVE  Supervised!Promise'
    OBVIOUS
  <2>1. ASSUME NEW c \in Callers, Supervised!Stop(c)
        PROVE  Supervised!Promise'
    BY <2>1 DEF Supervised!Stop, Supervised!Promise
  <2>2. ASSUME NEW c \in Callers, Supervised!Wait(c)
        PROVE  Supervised!Promise'
    BY <2>2 DEF Supervised!Wait, Supervised!Promise
  <2>3. CASE Supervised!Start \/ Supervised!Restart
    <3>1. \A p, q \in live' : p = q
      BY <2>3 DEF Supervised!Start, Supervised!Restart, Supervised!Attempt
    <3> QED
      BY <2>3, <3>1 DEF Supervised!Start, Supervised!Restart, Supervised!Promise
  <2>4. CASE Supervised!End
    BY <2>4 DEF Supervised!End, Supervised!Promise
  <2>5. CASE UNCHANGED Supervised!vars
    BY <2>5 DEF Supervised!vars, Supervised!Promise
  <2> QED BY <2>1, <2>2, <2>3, <2>4, <2>5 DEF Supervised!Next
<1> QED BY <1>1, <1>2, PTL DEF ImplementsSupervisor, Supervised!Spec
-----------------------------------------------------------------------------
(***************************************************************************)
(* The connector, whose specification is ConnectorSpec: what it composes   *)
(* is the supervisor, its clients keep one reconnect timeline each, no     *)
(* client outlives the gateway or its successor, and the store and the     *)
(* services behind the callbacks agree with the socket.                    *)
(***************************************************************************)

\* An attempt whose socket waits for the challenge or the answer is in flight.
HandshakeIsAttempt ==
  \A c \in Clients : phase[c] \in {"opening", "asked"} => connecting[c]

RpcInv == RpcTypeOK /\ OneReconnectTimeline /\ HandshakeIsAttempt

\* The connector's steps on its clients, one for each operation of GatewayRpc.
RpcNext ==
  \/ UNCHANGED rpcVars
  \/ \E old \in Clients \cup {NoClient}, new \in Clients \cup {NoClient} :
       /\ old = new => old = NoClient
       /\ new \in Clients => closed[new]
       /\ Switch(old, new)
  \/ \E c \in Clients :
       \/ Challenge(c) \/ EmptyNonce(c) \/ Hello(c) \/ AttemptFails(c)
       \/ SocketClose(c) \/ LateClose(c) \/ Reconnect(c)

\* The client in use is a live one.
ClientLives ==
  /\ rpcClient \in Clients \cup {NoClient}
  /\ rpcClient # NoClient => ~closed[rpcClient]

ConnectorInv == TypeOK /\ RpcInv /\ ClientLives /\ NoClientWithoutGateway
-----------------------------------------------------------------------------
\* Every step of the connector is a step of the launcher or leaves it alone.
LEMMA ConnectorStepIsLauncherStep ==
  ASSUME [ConnectorNext]_allVars
  PROVE  [Next]_vars
<1>1. CASE LauncherOnly
  <2>1. CASE \E c \in Direct : CallStart(c) \/ CallStop(c) \/ CallRestart(c)
    BY <2>1, DirectAssumption DEF Next
  <2>2. CASE \E c \in Direct : Continue(c)
    BY <2>2, DirectAssumption DEF Next
  <2>3. CASE (\E c \in Callers : Resume(c)) \/ KillTimeout \/ Ripen \/ RestartTimer
    BY <2>3 DEF Next
  <2> QED BY <1>1, <2>1, <2>2, <2>3 DEF LauncherOnly
<1>2. CASE \E c \in Callers : Restart(c) \/ RestartContinued(c)
  BY <1>2 DEF Restart, RestartContinued, Next
<1>3. CASE GatewayExit
  BY <1>3 DEF GatewayExit, Next
<1>4. CASE GatewayReady
  BY <1>4 DEF GatewayReady
<1>5. CASE \E k \in {"current", "stale"} : WaitedForWs(k)
  BY <1>5 DEF WaitedForWs
<1>6. CASE \E c \in Clients : ClientOnly(c) \/ Connected(c) \/ Disconnected(c)
  BY <1>6 DEF ClientOnly, Connected, Disconnected
<1>7. CASE \E p \in Probes : ProbeAnswered(p) \/ ProbeAgain(p)
  BY <1>7 DEF ProbeAnswered, ProbeAgain
<1>8. CASE UNCHANGED allVars
  BY <1>8 DEF allVars
<1> QED BY <1>1, <1>2, <1>3, <1>4, <1>5, <1>6, <1>7, <1>8 DEF ConnectorNext

\* The connector implements the launcher it composes: whatever it does besides,
\* the gateway's process is supervised as GatewayLauncher says, so that all that
\* is proved there holds here.
THEOREM ConnectorImplementsLauncher == ConnectorSpec => Spec
<1>1. ConnectorInit => Init
  BY DEF ConnectorInit
<1> QED BY <1>1, ConnectorStepIsLauncherStep, PTL DEF ConnectorSpec, Spec

\* The connector's launcher never has an orphaned or a second gateway process.
THEOREM ConnectorNoOrphan == ConnectorSpec => []NoOrphan
BY ConnectorImplementsLauncher, LauncherNoOrphan, PTL

\* Whatever else the connector does, its gateway is supervised as Supervisor
\* promises.
THEOREM ConnectorImplementsSupervisor == ConnectorSpec => ImplementsSupervisor
BY ConnectorImplementsLauncher, LauncherImplementsSupervisor
-----------------------------------------------------------------------------
\* Each step of the clients keeps the invariant of the reconnect timeline.
LEMMA RpcStepKeepsInv ==
  ASSUME RpcInv, RpcNext
  PROVE  RpcInv'
<1> USE DEF RpcInv, RpcTypeOK, OneReconnectTimeline, HandshakeIsAttempt, Phases, Up
<1>1. CASE UNCHANGED rpcVars
  BY <1>1 DEF rpcVars
<1>2. ASSUME NEW old \in Clients \cup {NoClient}, NEW new \in Clients \cup {NoClient},
             old = new => old = NoClient, new \in Clients => closed[new],
             Switch(old, new)
      PROVE  RpcInv'
  <2>1. closed' \in [Clients -> BOOLEAN]
    BY <1>2 DEF Switch
  <2>2. connecting' \in [Clients -> BOOLEAN] /\ timer' \in [Clients -> BOOLEAN]
    BY <1>2 DEF Switch
  <2>3. phase' \in [Clients -> Phases] /\ lingering' \in [Clients -> Nat]
    BY <1>2 DEF Switch
  <2>4. ASSUME NEW c \in Clients, c = new
        PROVE  /\ ~closed'[c] /\ phase'[c] = "opening" /\ connecting'[c]
               /\ timer'[c] = timer[c]
    BY <1>2, <2>4, NoClientAssumption DEF Switch
  <2>5. ASSUME NEW c \in Clients, c # new, c = old
        PROVE  closed'[c] /\ phase'[c] = "none" /\ ~connecting'[c] /\ ~timer'[c]
    BY <1>2, <2>5 DEF Switch
  <2>6. ASSUME NEW c \in Clients, c # new, c # old
        PROVE  /\ closed'[c] = closed[c] /\ phase'[c] = phase[c]
               /\ connecting'[c] = connecting[c] /\ timer'[c] = timer[c]
    BY <1>2, <2>6 DEF Switch
  <2> QED BY <1>2, <2>1, <2>2, <2>3, <2>4, <2>5, <2>6, NoClientAssumption
<1>3. ASSUME NEW c \in Clients, Challenge(c) PROVE RpcInv'
  BY <1>3 DEF Challenge
<1>4. ASSUME NEW c \in Clients, EmptyNonce(c) PROVE RpcInv'
  BY <1>4 DEF EmptyNonce, Settle
<1>5. ASSUME NEW c \in Clients, Hello(c) PROVE RpcInv'
  BY <1>5 DEF Hello
<1>6. ASSUME NEW c \in Clients, AttemptFails(c) PROVE RpcInv'
  BY <1>6 DEF AttemptFails, Settle
<1>7. ASSUME NEW c \in Clients, SocketClose(c) PROVE RpcInv'
  BY <1>7 DEF SocketClose, Settle
<1>8. ASSUME NEW c \in Clients, LateClose(c) PROVE RpcInv'
  <2>1. lingering' \in [Clients -> Nat]
    BY <1>8 DEF LateClose
  <2>2. CASE closed[c] \/ (connecting[c] /\ phase[c] = "opening")
    BY <1>8, <2>1, <2>2 DEF LateClose, Settle
  <2>3. CASE connecting[c] /\ phase[c] = "none" /\ UNCHANGED <<connecting, timer>>
    BY <1>8, <2>1, <2>3 DEF LateClose
  <2>4. CASE ~closed[c] /\ Settle(c)
    BY <1>8, <2>1, <2>4 DEF LateClose, Settle
  <2> QED BY <1>8, <2>2, <2>3, <2>4 DEF LateClose
<1>9. ASSUME NEW c \in Clients, Reconnect(c) PROVE RpcInv'
  BY <1>9 DEF Reconnect
<1> QED BY <1>1, <1>2, <1>3, <1>4, <1>5, <1>6, <1>7, <1>8, <1>9 DEF RpcNext
-----------------------------------------------------------------------------
\* Every step of the connector does to its clients one of their operations.
LEMMA ConnectorStepIsRpcStep ==
  ASSUME ConnectorInv, [ConnectorNext]_allVars
  PROVE  RpcNext
<1> USE DEF ConnectorInv, ClientLives, RpcNext
<1>1. ASSUME DisconnectRpc PROVE RpcNext
  BY <1>1, NoClientAssumption DEF DisconnectRpc
<1>2. CASE LauncherOnly
  BY <1>2 DEF LauncherOnly
<1>3. CASE \E c \in Callers : Restart(c) \/ RestartContinued(c)
  BY <1>1, <1>3 DEF Restart, RestartContinued
<1>4. CASE GatewayExit
  BY <1>1, <1>4 DEF GatewayExit
<1>5. CASE GatewayReady
  BY <1>5 DEF GatewayReady
<1>6. ASSUME NEW k \in {"current", "stale"}, WaitedForWs(k) PROVE RpcNext
  <2>1. CASE UNCHANGED rpcVars
    BY <2>1
  <2>2. ASSUME NEW c \in Clients, Unused(c), Switch(rpcClient, c) PROVE RpcNext
    BY <2>2, NoClientAssumption DEF Unused
  <2> QED BY <1>6, <2>1, <2>2 DEF WaitedForWs
<1>7. CASE \E c \in Clients : ClientOnly(c) \/ Connected(c) \/ Disconnected(c)
  BY <1>7 DEF ClientOnly, Connected, Disconnected
<1>8. CASE \E p \in Probes : ProbeAnswered(p) \/ ProbeAgain(p)
  BY <1>8 DEF ProbeAnswered, ProbeAgain
<1>9. CASE UNCHANGED allVars
  BY <1>9 DEF allVars
<1> QED BY <1>2, <1>3, <1>4, <1>5, <1>6, <1>7, <1>8, <1>9 DEF ConnectorNext

\* The launcher lets go of its child in Exit alone.
LEMMA OnlyExitFreesTheChild ==
  ASSUME TypeOK, LauncherOnly \/ \E c \in Callers : Restart(c) \/ RestartContinued(c),
         proc' = NoPid
  PROVE  proc = NoPid
<1> USE NoPidAssumption
<1>1. ASSUME SpawnProcess PROVE proc' = proc \/ proc' \in Pids
  BY <1>1 DEF SpawnProcess
<1>2. ASSUME BeginStart PROVE proc' = proc \/ proc' \in Pids
  BY <1>1, <1>2 DEF BeginStart
<1>3. ASSUME NEW c \in Callers, Start(c) PROVE proc' = proc \/ proc' \in Pids
  BY <1>2, <1>3 DEF Start
<1>4. ASSUME NEW c \in Callers, NEW next, Stop(c, next) PROVE proc' = proc
  BY <1>4 DEF Stop, StopWith
<1>5. CASE \E c \in Callers : Restart(c) \/ RestartContinued(c)
  BY <1>3, <1>4, <1>5 DEF Restart, RestartContinued, CallRestart, Continue
<1>6. CASE \E c \in Direct : CallStart(c) \/ CallStop(c) \/ CallRestart(c)
  BY <1>3, <1>4, <1>6, DirectAssumption DEF CallStart, CallStop, CallRestart
<1>7. CASE \E c \in Direct : Continue(c)
  BY <1>3, <1>7, DirectAssumption DEF Continue
<1>8. CASE (\E c \in Callers : Resume(c)) \/ KillTimeout \/ Ripen \/ RestartTimer
  BY <1>1, <1>2, <1>8 DEF Resume, KillTimeout, Ripen, RestartTimer
<1> QED BY <1>5, <1>6, <1>7, <1>8 DEF LauncherOnly

\* Every step keeps the client alive and leaves none without a gateway.
LEMMA ConnectorStepKeepsClient ==
  ASSUME ConnectorInv, [ConnectorNext]_allVars
  PROVE  (ClientLives /\ NoClientWithoutGateway)'
<1> USE DEF ConnectorInv, ClientLives, NoClientWithoutGateway
<1> USE NoPidAssumption, NoClientAssumption
<1>1. ASSUME DisconnectRpc
      PROVE  rpcClient' = NoClient /\ \A c \in Clients : closed'[c]
  BY <1>1 DEF DisconnectRpc, Switch
<1>2. ASSUME UNCHANGED closed, UNCHANGED rpcClient, "current" \in chains' => "current" \in chains,
             proc' = NoPid => proc = NoPid
      PROVE  (ClientLives /\ NoClientWithoutGateway)'
  BY <1>2
<1>3. CASE LauncherOnly
  BY <1>2, <1>3, OnlyExitFreesTheChild DEF LauncherOnly, rpcVars
<1>4. ASSUME NEW c \in Callers, Restart(c) PROVE (ClientLives /\ NoClientWithoutGateway)'
  <2>1. "current" \notin chains'
    BY <1>4 DEF Restart, Invalidate
  <2> QED BY <1>1, <1>4, <2>1 DEF Restart
<1>5. ASSUME NEW c \in Callers, RestartContinued(c)
      PROVE  (ClientLives /\ NoClientWithoutGateway)'
  BY <1>2, <1>5, OnlyExitFreesTheChild DEF RestartContinued, rpcVars
<1>6. CASE GatewayExit
  <2>1. "current" \notin chains'
    BY <1>6 DEF GatewayExit, Invalidate
  <2> QED BY <1>1, <1>6, <2>1 DEF GatewayExit
<1>7. CASE GatewayReady
  <2>1. proc # NoPid /\ proc' = proc
    BY <1>7 DEF GatewayReady, vars, TypeOK
  <2> QED BY <1>7, <2>1 DEF GatewayReady, rpcVars
<1>8. ASSUME NEW k \in {"current", "stale"}, WaitedForWs(k)
      PROVE  (ClientLives /\ NoClientWithoutGateway)'
  <2>1. proc' = proc /\ k \in chains /\ chains' = chains \ {k}
    BY <1>8 DEF WaitedForWs, vars
  <2>2. CASE UNCHANGED rpcVars /\ rpcClient' = rpcClient
    BY <2>1, <2>2 DEF rpcVars
  <2>3. ASSUME k = "current", NEW c \in Clients, Unused(c), rpcClient' = c,
               Switch(rpcClient, c)
        PROVE  (ClientLives /\ NoClientWithoutGateway)'
    <3>1. ~closed'[c] /\ \A d \in Clients \ {c} : closed'[d]
      BY <2>3 DEF Switch, Unused
    <3> QED BY <2>1, <2>3, <3>1
  <2> QED BY <1>8, <2>2, <2>3 DEF WaitedForWs
<1>9. ASSUME NEW c \in Clients, ClientOnly(c) \/ Connected(c) \/ Disconnected(c)
      PROVE  (ClientLives /\ NoClientWithoutGateway)'
  <2>1. UNCHANGED closed
    BY <1>9 DEF ClientOnly, Connected, Disconnected, Challenge, EmptyNonce, AttemptFails,
         Reconnect, Hello, SocketClose, LateClose
  <2>2. UNCHANGED <<rpcClient, chains, proc>>
    BY <1>9 DEF ClientOnly, Connected, Disconnected, vars, connectorVars
  <2> QED BY <1>2, <2>1, <2>2
<1>10. ASSUME NEW p \in Probes, ProbeAnswered(p) \/ ProbeAgain(p)
       PROVE  (ClientLives /\ NoClientWithoutGateway)'
  <2>1. UNCHANGED <<closed, rpcClient, chains, proc>>
    BY <1>10 DEF ProbeAnswered, ProbeAgain, vars, rpcVars
  <2> QED BY <1>2, <2>1
<1>11. CASE UNCHANGED allVars
  BY <1>2, <1>11 DEF allVars, vars, rpcVars, connectorVars
<1> QED BY <1>3, <1>4, <1>5, <1>6, <1>7, <1>8, <1>9, <1>10, <1>11 DEF ConnectorNext
-----------------------------------------------------------------------------
\* The invariant of the connector holds throughout.
LEMMA ConnectorInvariant == ConnectorSpec => []ConnectorInv
<1>1. ConnectorInit => RpcInv /\ ClientLives /\ NoClientWithoutGateway
  BY NoClientAssumption DEF ConnectorInit, RpcInit, RpcInv, RpcTypeOK, OneReconnectTimeline,
       HandshakeIsAttempt, Phases, Up, ClientLives, NoClientWithoutGateway
<1>2. ConnectorSpec => []TypeOK
  BY ConnectorImplementsLauncher, LauncherTypeCorrect, PTL
<1>3. TypeOK /\ (RpcInv /\ ClientLives /\ NoClientWithoutGateway) /\ [ConnectorNext]_allVars
      => (RpcInv /\ ClientLives /\ NoClientWithoutGateway)'
  BY ConnectorStepIsRpcStep, RpcStepKeepsInv, ConnectorStepKeepsClient DEF ConnectorInv
<1> QED BY <1>1, <1>2, <1>3, PTL DEF ConnectorSpec, ConnectorInv

\* Through every failed attempt, late close and restart, a live client keeps
\* exactly one of a connection, an attempt and a timer for the next one.
THEOREM ConnectorOneReconnectTimeline == ConnectorSpec => []OneReconnectTimeline
<1>1. ConnectorInv => OneReconnectTimeline
  BY DEF ConnectorInv, RpcInv
<1> QED BY <1>1, ConnectorInvariant, PTL

\* No client lives, and no ready handler will make one, without a gateway; and
\* there is at most one.
THEOREM ConnectorNoClientWithoutGateway == ConnectorSpec => []NoClientWithoutGateway
<1>1. ConnectorInv => NoClientWithoutGateway
  BY DEF ConnectorInv
<1> QED BY <1>1, ConnectorInvariant, PTL
-----------------------------------------------------------------------------
\* The services were told of a connection exactly as long as the client has a
\* socket after it.
ToldInv ==
  /\ \A c \in Clients : Up(c) => told = "connected"
  /\ told = "connected" => rpcClient # NoClient /\ phase[rpcClient] # "none"

\* A client, or a ready handler that will make one, is the only one of a
\* gateway that listens, and the stopped clients before it are finished with.
LingerInv ==
  /\ rpcClient # NoClient => listening
  /\ "current" \in chains => listening /\ rpcClient = NoClient
  /\ "current" \in chains \/ rpcClient # NoClient =>
       \A c \in Clients : closed[c] => lingering[c] = 0

StoreInv == rpcConnected \in BOOLEAN /\ StoreKnowsTheConnection

AgreeInv == ToldInv /\ LingerInv /\ StoreInv

\* Only the client in use has a socket.
LEMMA OthersHaveNoSocket ==
  ASSUME ConnectorInv, NEW c \in Clients, c # rpcClient
  PROVE  closed[c] /\ phase[c] = "none"
BY DEF ConnectorInv, RpcInv, RpcTypeOK, NoClientWithoutGateway

\* The launcher that holds a child spawns no other one.
LEMMA ChildIsKept ==
  ASSUME LauncherInv, proc # NoPid,
         LauncherOnly \/ \E c \in Callers : RestartContinued(c)
  PROVE  proc' = proc
<1> USE DEF LauncherInv
<1>1. ASSUME ~completion, BeginStart PROVE proc' = proc
  <2>1. state # "stopped" /\ state # "stopping"
    BY <1>1 DEF StoppedIsEmpty, StopInProgress
  <2> QED BY <1>1, <2>1 DEF BeginStart, TypeOK
<1>2. ASSUME NEW c \in Callers, Start(c) PROVE proc' = proc
  BY <1>1, <1>2 DEF Start
<1>3. ASSUME NEW c \in Callers, NEW next, Stop(c, next) PROVE proc' = proc
  BY <1>3 DEF Stop, StopWith
<1>4. CASE \E c \in Callers : RestartContinued(c)
  BY <1>2, <1>4 DEF RestartContinued, Continue
<1>5. CASE \E c \in Direct : CallStart(c) \/ CallStop(c) \/ CallRestart(c)
  BY <1>2, <1>3, <1>5, DirectAssumption DEF CallStart, CallStop, CallRestart
<1>6. CASE \E c \in Direct : Continue(c)
  BY <1>2, <1>6, DirectAssumption DEF Continue
<1>7. CASE \E c \in Callers : Resume(c)
  BY <1>1, <1>7 DEF Resume, ResumedAfterStop
<1>8. CASE KillTimeout \/ Ripen
  BY <1>8 DEF KillTimeout, Ripen
<1>9. CASE RestartTimer
  BY <1>9 DEF RestartTimer, BackoffOfCrash
<1> QED BY <1>4, <1>5, <1>6, <1>7, <1>8, <1>9 DEF LauncherOnly

\* Steps that touch neither the clients nor what is published of them, and
\* leave a gateway that has a client, or will have one, listening.
LEMMA ElsewhereKeepsAgreement ==
  ASSUME AgreeInv, UNCHANGED <<rpcVars, rpcClient, rpcConnected, told>>,
         "current" \in chains' => "current" \in chains,
         rpcClient # NoClient \/ "current" \in chains => listening' = listening
  PROVE  AgreeInv'
<1> USE DEF AgreeInv
<1>1. ToldInv'
  BY DEF ToldInv, rpcVars, Up
<1>2. LingerInv'
  BY DEF LingerInv, rpcVars
<1>3. StoreInv'
  BY DEF StoreInv, StoreKnowsTheConnection, rpcVars, Up
<1> QED BY <1>1, <1>2, <1>3

\* The connector lets go of its client.
LEMMA DisconnectKeepsAgreement ==
  ASSUME ConnectorInv, ConnectorInv', AgreeInv, DisconnectRpc, "current" \notin chains'
  PROVE  AgreeInv'
<1> USE DEF AgreeInv
<1>1. rpcClient' = NoClient
  BY DEF DisconnectRpc
<1>2. \A c \in Clients : ~Up(c)'
  BY <1>1, OthersHaveNoSocket, NoClientAssumption DEF Up, ConnectorInv, RpcInv, RpcTypeOK,
       NoClientWithoutGateway
<1>3. rpcClient = NoClient => \A c \in Clients : ~Up(c)
  BY OthersHaveNoSocket, NoClientAssumption DEF Up
<1>4. told' # "connected"
  BY DEF DisconnectRpc, ToldInv
<1>5. ToldInv'
  BY <1>2, <1>4 DEF ToldInv
<1>6. LingerInv'
  BY <1>1 DEF LingerInv
<1>7. rpcConnected' = FALSE
  BY <1>3 DEF DisconnectRpc, StoreInv, StoreKnowsTheConnection
<1>8. StoreInv'
  BY <1>2, <1>7 DEF StoreInv, StoreKnowsTheConnection
<1> QED BY <1>5, <1>6, <1>8

\* A ready handler makes the gateway's client.
LEMMA ConnectKeepsAgreement ==
  ASSUME ConnectorInv, ConnectorInv', AgreeInv, "current" \in chains, "current" \notin chains',
         NEW c \in Clients, Unused(c), rpcClient' = c, Switch(rpcClient, c),
         UNCHANGED <<listening, rpcConnected, told>>
  PROVE  AgreeInv'
<1> USE DEF AgreeInv
<1>1. rpcClient = NoClient /\ listening
  BY DEF LingerInv
<1>2. \A d \in Clients : ~Up(d)
  BY <1>1, OthersHaveNoSocket, NoClientAssumption DEF Up
<1>3. phase'[c] = "opening" /\ \A d \in Clients : lingering'[d] = lingering[d]
  BY <1>1, NoClientAssumption DEF Switch
<1>4. \A d \in Clients : ~Up(d)'
  BY <1>3, OthersHaveNoSocket, <1>2 DEF Up, Switch
<1>5. ToldInv'
  BY <1>1, <1>4 DEF ToldInv
<1>6. \A d \in Clients : closed'[d] => closed[d]
  BY <1>1, NoClientAssumption DEF Switch
<1>7. LingerInv'
  BY <1>1, <1>3, <1>6 DEF LingerInv
<1>8. StoreInv'
  BY <1>2, <1>4 DEF StoreInv, StoreKnowsTheConnection
<1> QED BY <1>5, <1>7, <1>8

\* The client's own steps, of which the connector hears nothing.
LEMMA ClientKeepsAgreement ==
  ASSUME ConnectorInv, AgreeInv, NEW c \in Clients, ClientOnly(c)
  PROVE  AgreeInv'
<1> USE DEF AgreeInv
<1>1. UNCHANGED <<listening, rpcClient, chains, rpcConnected, told, closed>>
  BY DEF ClientOnly, connectorVars, storeVars, Challenge, EmptyNonce, AttemptFails, Reconnect
<1>2. phase \in [Clients -> Phases] /\ ~(Up(c) /\ (connecting[c] \/ timer[c]))
  BY DEF ConnectorInv, RpcInv, RpcTypeOK, OneReconnectTimeline, Up
<1>3. ~closed[c]
  BY DEF ConnectorInv, RpcInv, RpcTypeOK, ClientOnly, Challenge, EmptyNonce, AttemptFails, Reconnect
<1>4. /\ \A d \in Clients : Up(d)' <=> Up(d)
      /\ \A d \in Clients : phase[d] # "none" => phase'[d] # "none"
  BY <1>2 DEF Up, ClientOnly, Challenge, EmptyNonce, AttemptFails, Reconnect
<1>5. \A d \in Clients : closed[d] => lingering'[d] = lingering[d]
  BY <1>3 DEF ClientOnly, Challenge, EmptyNonce, AttemptFails, Reconnect, ConnectorInv,
       RpcInv, RpcTypeOK
<1>6. ToldInv'
  BY <1>1, <1>4 DEF ToldInv, ConnectorInv, ClientLives
<1>7. LingerInv'
  BY <1>1, <1>5 DEF LingerInv
<1>8. StoreInv'
  BY <1>1, <1>4 DEF StoreInv, StoreKnowsTheConnection
<1> QED BY <1>6, <1>7, <1>8

\* onConnect: the client that connects is the one in use.
LEMMA ConnectedKeepsAgreement ==
  ASSUME ConnectorInv, AgreeInv, NEW c \in Clients, Connected(c)
  PROVE  AgreeInv'
<1> USE DEF AgreeInv
<1>1. UNCHANGED <<listening, rpcClient, chains, closed, lingering>>
  BY DEF Connected, Hello
<1>2. rpcConnected' = TRUE /\ told' = "connected"
  BY DEF Connected
<1>3. phase[c] = "asked" /\ phase' = [phase EXCEPT ![c] = "up"]
  BY DEF Connected, Hello
<1>4. c = rpcClient
  BY <1>3, OthersHaveNoSocket
<1>5. phase'[c] = "up"
  BY <1>3 DEF ConnectorInv, RpcInv, RpcTypeOK
<1>6. ToldInv'
  BY <1>1, <1>2, <1>4, <1>5, NoClientAssumption DEF ToldInv
<1>7. LingerInv'
  BY <1>1 DEF LingerInv
<1>8. StoreInv'
  BY <1>2, <1>5 DEF StoreInv, StoreKnowsTheConnection, Up
<1> QED BY <1>6, <1>7, <1>8

\* onClose, late or not: whoever the socket was of, nobody is connected after
\* it, as a stopped client's close is not heard while there is another client.
LEMMA DisconnectedKeepsAgreement ==
  ASSUME ConnectorInv, AgreeInv, NEW c \in Clients, Disconnected(c)
  PROVE  AgreeInv'
<1> USE DEF AgreeInv
<1>1. UNCHANGED <<listening, rpcClient, chains, closed>> /\ rpcConnected' = FALSE
  BY DEF Disconnected, SocketClose, LateClose
<1>2. phase' = [phase EXCEPT ![c] = "none"] /\ phase \in [Clients -> Phases]
  BY DEF Disconnected, SocketClose, LateClose, ConnectorInv, RpcInv, RpcTypeOK
<1>3. closed[c] => lingering[c] > 0
  BY DEF Disconnected, SocketClose, LateClose, ConnectorInv, RpcInv, RpcTypeOK
<1>4. c = rpcClient \/ rpcClient = NoClient
  <2>1. SUFFICES ASSUME c # rpcClient, rpcClient # NoClient PROVE FALSE
    OBVIOUS
  <2>2. lingering[c] = 0
    BY <2>1, OthersHaveNoSocket DEF LingerInv
  <2> QED BY <1>3, <2>1, <2>2, OthersHaveNoSocket
<1>5. \A d \in Clients : ~Up(d)'
  BY <1>2, <1>4, OthersHaveNoSocket, NoClientAssumption DEF Up
<1>6. told' # "connected"
  BY <1>4 DEF Disconnected, ToldInv
<1>7. ToldInv'
  BY <1>5, <1>6 DEF ToldInv
<1>8. \A d \in Clients \ {c} : lingering'[d] = lingering[d]
  BY DEF Disconnected, SocketClose, LateClose, ConnectorInv, RpcInv, RpcTypeOK
<1>9. LingerInv'
  <2>1. CASE rpcClient = NoClient /\ "current" \notin chains
    BY <1>1, <2>1 DEF LingerInv
  <2>2. CASE rpcClient # NoClient \/ "current" \in chains
    <3>1. ~closed[c]
      BY <1>3, <2>2 DEF LingerInv
    <3> QED BY <1>1, <1>8, <2>2, <3>1 DEF LingerInv
  <2> QED BY <2>1, <2>2
<1>10. StoreInv'
  BY <1>1, <1>5 DEF StoreInv, StoreKnowsTheConnection
<1> QED BY <1>7, <1>9, <1>10

\* Every step of the connector keeps the three copies of the connection, the
\* socket, the store and what the services were told, in agreement.
LEMMA ConnectorStepKeepsAgreement ==
  ASSUME LauncherInv, ConnectorInv, ConnectorInv', AgreeInv, [ConnectorNext]_allVars
  PROVE  AgreeInv'
<1>0. rpcClient # NoClient \/ "current" \in chains => proc # NoPid
  BY DEF ConnectorInv, NoClientWithoutGateway
<1>1. CASE LauncherOnly
  <2>1. UNCHANGED <<rpcVars, rpcClient, chains, rpcConnected, told>>
    BY <1>1 DEF LauncherOnly
  <2>2. listening' = (listening /\ proc' = proc) /\ (proc # NoPid => proc' = proc)
    BY <1>1, ChildIsKept DEF LauncherOnly, Publish
  <2>3. listening /\ proc # NoPid => listening' = listening
    BY <2>2
  <2>4. rpcClient # NoClient \/ "current" \in chains => listening
    BY DEF AgreeInv, LingerInv
  <2> QED BY <1>0, <2>1, <2>3, <2>4, ElsewhereKeepsAgreement
<1>2. ASSUME NEW c \in Callers, Restart(c) PROVE AgreeInv'
  BY <1>2, DisconnectKeepsAgreement DEF Restart, Invalidate
<1>3. ASSUME NEW c \in Callers, RestartContinued(c) PROVE AgreeInv'
  <2>1. UNCHANGED <<rpcVars, rpcClient, chains, rpcConnected, told>>
    BY <1>3 DEF RestartContinued
  <2>2. listening' = (listening /\ proc' = proc) /\ (proc # NoPid => proc' = proc)
    BY <1>3, ChildIsKept DEF RestartContinued, Publish
  <2>3. listening /\ proc # NoPid => listening' = listening
    BY <2>2
  <2>4. rpcClient # NoClient \/ "current" \in chains => listening
    BY DEF AgreeInv, LingerInv
  <2> QED BY <1>0, <2>1, <2>3, <2>4, ElsewhereKeepsAgreement
<1>4. CASE GatewayExit
  BY <1>4, DisconnectKeepsAgreement DEF GatewayExit, Invalidate
<1>5. CASE GatewayReady
  <2>1. rpcClient = NoClient
    BY <1>5 DEF GatewayReady, AgreeInv, LingerInv
  <2>2. LingerInv'
    BY <1>5, <2>1 DEF GatewayReady, LingerInv, rpcVars
  <2>3. ToldInv' /\ StoreInv'
    BY <1>5 DEF GatewayReady, AgreeInv, ToldInv, StoreInv, StoreKnowsTheConnection, rpcVars,
         storeVars, Up
  <2> QED BY <2>2, <2>3 DEF AgreeInv
<1>6. ASSUME NEW k \in {"current", "stale"}, WaitedForWs(k) PROVE AgreeInv'
  <2>1. /\ k \in chains /\ chains' = chains \ {k}
        /\ UNCHANGED <<listening, rpcConnected, told>>
    BY <1>6 DEF WaitedForWs
  <2>2. CASE UNCHANGED <<rpcVars, rpcClient>>
    BY <2>1, <2>2, ElsewhereKeepsAgreement
  <2>3. ASSUME k = "current", NEW c \in Clients, Unused(c), rpcClient' = c,
               Switch(rpcClient, c)
        PROVE  AgreeInv'
    BY <2>1, <2>3, ConnectKeepsAgreement
  <2> QED BY <1>6, <2>2, <2>3 DEF WaitedForWs
<1>7. ASSUME NEW c \in Clients, ClientOnly(c) \/ Connected(c) \/ Disconnected(c)
      PROVE  AgreeInv'
  BY <1>7, ClientKeepsAgreement, ConnectedKeepsAgreement, DisconnectedKeepsAgreement
<1>8. ASSUME NEW p \in Probes, ProbeAnswered(p) \/ ProbeAgain(p) PROVE AgreeInv'
  <2>1. UNCHANGED <<rpcVars, rpcClient, chains, listening, rpcConnected, told>>
    BY <1>8 DEF ProbeAnswered, ProbeAgain
  <2> QED BY <2>1, ElsewhereKeepsAgreement
<1>9. CASE UNCHANGED allVars
  <2>1. UNCHANGED <<rpcVars, rpcClient, chains, listening, rpcConnected, told>>
    BY <1>9 DEF allVars, connectorVars, storeVars
  <2> QED BY <2>1, ElsewhereKeepsAgreement
<1> QED BY <1>1, <1>2, <1>3, <1>4, <1>5, <1>6, <1>7, <1>8, <1>9 DEF ConnectorNext

\* The copies agree throughout.
LEMMA ConnectorAgreement == ConnectorSpec => []AgreeInv
<1>1. ConnectorInit => AgreeInv
  BY NoClientAssumption DEF ConnectorInit, RpcInit, AgreeInv, ToldInv, LingerInv, StoreInv,
       StoreKnowsTheConnection, Up
<1>2. ConnectorSpec => []LauncherInv
  BY ConnectorImplementsLauncher, LauncherInvariant, PTL
<1>3. LauncherInv /\ ConnectorInv /\ ConnectorInv' /\ AgreeInv /\ [ConnectorNext]_allVars
      => AgreeInv'
  BY ConnectorStepKeepsAgreement
<1> QED BY <1>1, <1>2, <1>3, ConnectorInvariant, PTL DEF ConnectorSpec

\* The services behind the callbacks know of every connection, and of a lost
\* one before the client waits to open the next.
THEOREM ConnectorToldOfTheConnection == ConnectorSpec => []ToldOfTheConnection
<1>1. ConnectorInv /\ AgreeInv => ToldOfTheConnection
  <2>1. ASSUME ConnectorInv, AgreeInv, told = "connected"
        PROVE  /\ rpcClient # NoClient
               /\ \/ Up(rpcClient) \/ connecting[rpcClient]
                  \/ phase[rpcClient] \in {"terminated", "closing"}
    <3>1. rpcClient \in Clients /\ phase[rpcClient] # "none"
      BY <2>1 DEF ConnectorInv, ClientLives, AgreeInv, ToldInv
    <3>2. phase[rpcClient] \in Phases
      BY <2>1, <3>1 DEF ConnectorInv, RpcInv, RpcTypeOK
    <3> QED BY <2>1, <3>1, <3>2, NoClientAssumption
         DEF ConnectorInv, RpcInv, HandshakeIsAttempt, Phases, Up
  <2> QED BY <2>1 DEF AgreeInv, ToldInv, ToldOfTheConnection
<1> QED BY <1>1, ConnectorInvariant, ConnectorAgreement, PTL

\* The store says that the gateway is connected exactly while a client is,
\* whichever closes are heard late.
THEOREM ConnectorStoreKnowsTheConnection == ConnectorSpec => []StoreKnowsTheConnection
<1>1. AgreeInv => StoreKnowsTheConnection
  BY DEF AgreeInv, StoreInv
<1> QED BY <1>1, ConnectorAgreement, PTL
=============================================================================
