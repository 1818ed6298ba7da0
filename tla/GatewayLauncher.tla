--------------------------- MODULE GatewayLauncher ---------------------------
(***************************************************************************)
(* The supervisor of the OpenClaw gateway process, class GatewayLauncher   *)
(* of packages/gateway/src/runtime/launcher.ts, with the callers that use  *)
(* it: start(), stop(), reload() and the stop-then-start pairs of the      *)
(* desktop's tray, OAuth flow and connector.                               *)
(*                                                                         *)
(* Each action is one synchronous stretch of the code.  A caller suspended *)
(* in an `await` is resumed by a microtask, before any timer, process      *)
(* event or new call: Settled says that no microtask is due.               *)
(***************************************************************************)
EXTENDS Naturals, FiniteSets

CONSTANTS
  Callers,      \* the concurrent users of the launcher
  Pids,         \* process identities; two suffice to see a second gateway
  NoPid,        \* the launcher holds no child
  MaxRestarts,  \* options.maxRestarts, 0 for no limit (the desktop's value)
  SpawnFaults   \* may a spawn end otherwise than by a child or by a throw of
                \* spawn() itself?

ASSUME NoPidAssumption == NoPid \notin Pids
ASSUME MaxRestartsAssumption == MaxRestarts \in Nat
ASSUME SpawnFaultsAssumption == SpawnFaults \in BOOLEAN

VARIABLES
  state,          \* of the launcher: stopped, starting, running, stopping
  proc,           \* this.process
  live,           \* the gateway processes alive in the operating system
  stopRequested,
  completion,     \* is stopCompletion pending?
  killed,         \* has the stop's grace period ended in SIGKILL?
  restartTimer,   \* is the backoff timer set?
  restartCount,   \* 0 throughout when MaxRestarts is 0: it only sets delays
  healthy,        \* has the child run for healthyThresholdMs?
  pc,             \* where each caller is
  lastCall        \* the latest call made to the launcher

vars == <<state, proc, live, stopRequested, completion, killed, restartTimer,
          restartCount, healthy, pc, lastCall>>

\* idle; waiting in stop(), alone or to start() afterwards; waiting in
\* start() for a stop in progress; start() about to be resumed or called.
Places == {"idle", "stop", "restart", "await", "resume", "call"}

Init ==
  /\ state = "stopped"
  /\ proc = NoPid
  /\ live = {}
  /\ stopRequested = FALSE
  /\ completion = FALSE
  /\ killed = FALSE
  /\ restartTimer = FALSE
  /\ restartCount = 0
  /\ healthy = FALSE
  /\ pc = [c \in Callers |-> "idle"]
  /\ lastCall = "none"

\* No microtask is due; and none of the first kind, the continuations of the
\* start() calls that awaited stopCompletion itself.
Settled == \A c \in Callers : pc[c] \notin {"resume", "call"}
NoneResumed == \A c \in Callers : pc[c] # "resume"
-----------------------------------------------------------------------------
\* spawnProcess(): spawn() throws, yields a process, or (SpawnFaults) yields
\* a child without a pid, of which 'error' is all that is sure to be heard, or
\* is not reached because the files it needs could not be written.
SpawnProcess ==
  \/ /\ state' = "stopped"
     /\ UNCHANGED <<proc, live, healthy>>
  \/ \E p \in Pids \ live :
       /\ state' = "running"
       /\ proc' = p
       /\ live' = live \cup {p}
       /\ healthy' = FALSE
  \/ \E p \in Pids \ live :
       /\ SpawnFaults
       /\ state' = "starting"
       /\ proc' = p
       /\ healthy' = FALSE
       /\ UNCHANGED live
  \/ /\ SpawnFaults
     /\ state' = "starting"
     /\ UNCHANGED <<proc, live, healthy>>

\* start() from the point where no stop is awaited (any more).
BeginStart ==
  \/ /\ state \in {"running", "starting"}
     /\ UNCHANGED <<state, proc, live, healthy, stopRequested, restartCount>>
  \/ /\ state \notin {"running", "starting"}
     /\ stopRequested' = FALSE
     /\ restartCount' = 0
     /\ SpawnProcess

\* Mutation: start() does not await stopCompletion.
StartUnawaited(c) ==
  /\ lastCall' = "start"
  /\ BeginStart
  /\ pc' = [pc EXCEPT ![c] = "idle"]
  /\ UNCHANGED <<completion, killed, restartTimer>>

\* A call of start(): it waits for a stop in progress.
Start(c) ==
  /\ lastCall' = "start"
  /\ \/ /\ completion
        /\ pc' = [pc EXCEPT ![c] = "await"]
        /\ UNCHANGED <<state, proc, live, healthy, stopRequested, restartCount>>
     \/ /\ ~completion
        /\ BeginStart
        /\ pc' = [pc EXCEPT ![c] = "idle"]
  /\ UNCHANGED <<completion, killed, restartTimer>>

\* stop() up to its first await, where clearing says what it makes of the
\* backoff timer; the caller goes on to next.
StopWith(c, next, clearing) ==
  /\ stopRequested' = TRUE
  /\ lastCall' = "stop"
  /\ \/ /\ completion
        /\ pc' = [pc EXCEPT ![c] = IF next = "call" THEN "restart" ELSE "stop"]
        /\ UNCHANGED <<state, completion, killed, restartTimer>>
     \/ /\ ~completion
        /\ proc = NoPid \/ state = "stopped"
        /\ restartTimer' = clearing
        /\ state' = "stopped"
        /\ pc' = [pc EXCEPT ![c] = next]
        /\ UNCHANGED <<completion, killed>>
     \/ /\ ~completion
        /\ proc # NoPid /\ state # "stopped"
        /\ restartTimer' = clearing
        /\ state' = "stopping"
        /\ completion' = TRUE
        /\ killed' = FALSE
        /\ pc' = [pc EXCEPT ![c] = IF next = "call" THEN "restart" ELSE "stop"]
  /\ UNCHANGED <<proc, live, restartCount, healthy>>

\* Mutation: stop() forgets the backoff timer.
StopKeepingTimer(c, next) == StopWith(c, next, restartTimer)

\* A call of stop().
Stop(c, next) == StopWith(c, next, FALSE)
-----------------------------------------------------------------------------
CallStart(c) == Settled /\ pc[c] = "idle" /\ Start(c)

CallStop(c) == Settled /\ pc[c] = "idle" /\ Stop(c, "idle")

\* stop() then start(), by the tray, the connector or reload().
CallRestart(c) == Settled /\ pc[c] = "idle" /\ Stop(c, "call")

\* reload(): on a running gateway nothing when it is young, SIGUSR1 when it
\* is not, which the process handles by itself; stop and start on Windows.
CallReload(c) ==
  /\ Settled
  /\ pc[c] = "idle"
  /\ \/ /\ proc \in live /\ state = "running"
        /\ UNCHANGED vars
     \/ Stop(c, "call")

\* The microtasks after stopCompletion is resolved.
Resume(c) ==
  /\ pc[c] = "resume"
  /\ BeginStart
  /\ pc' = [pc EXCEPT ![c] = "idle"]
  /\ UNCHANGED <<completion, killed, restartTimer, lastCall>>

Continue(c) ==
  /\ NoneResumed
  /\ pc[c] = "call"
  /\ Start(c)

\* Mutation: the deadline is dropped once the shutdown request was sent.
KillTimeoutDropped == FALSE /\ UNCHANGED vars

\* The grace period of a stop is over.
KillTimeout ==
  /\ Settled
  /\ completion
  /\ ~killed
  /\ killed' = TRUE
  /\ UNCHANGED <<state, proc, live, stopRequested, completion, restartTimer,
                 restartCount, healthy, pc, lastCall>>

\* The child has run for healthyThresholdMs.
Ripen ==
  /\ proc \in live
  /\ ~healthy
  /\ healthy' = TRUE
  /\ UNCHANGED <<state, proc, live, stopRequested, completion, killed,
                 restartTimer, restartCount, pc, lastCall>>

\* Mutation: the exit handler leaves a crashed gateway to its caller.
ScheduleNothing == UNCHANGED <<state, restartCount, restartTimer>>

\* scheduleRestart().
ScheduleRestart ==
  LET count == IF MaxRestarts = 0 THEN 0 ELSE restartCount + 1
  IN  \/ /\ MaxRestarts > 0
         /\ count > MaxRestarts
         /\ restartCount' = count
         /\ state' = "stopped"
         /\ UNCHANGED restartTimer
      \/ /\ MaxRestarts = 0 \/ count <= MaxRestarts
         /\ restartCount' = IF healthy /\ MaxRestarts > 0 THEN 1 ELSE count
         /\ restartTimer' = TRUE
         /\ UNCHANGED state

\* What the exit of the child does to the callers that await stopCompletion.
AfterCompletion ==
  [c \in Callers |-> CASE pc[c] = "stop" -> "idle"
                       [] pc[c] = "restart" -> "call"
                       [] pc[c] = "await" -> "resume"
                       [] OTHER -> pc[c]]

\* The exit of the child, heard by the launcher's permanent listener and by
\* the one stop() added.
Exit ==
  /\ Settled
  /\ proc # NoPid
  /\ proc' = NoPid
  /\ live' = live \ {proc}
  /\ \/ /\ stopRequested \/ state = "stopping"
        /\ state' = "stopped"
        /\ UNCHANGED <<restartTimer, restartCount>>
     \/ /\ ~(stopRequested \/ state = "stopping")
        /\ ScheduleRestart
  /\ completion' = FALSE
  /\ pc' = IF completion THEN AfterCompletion ELSE pc
  /\ UNCHANGED <<stopRequested, killed, healthy, lastCall>>

\* A live gateway ends; a child that never lived may report an exit too.
ChildExit == proc \in live /\ Exit
FailedChildExit == proc \notin live /\ Exit

\* The backoff timer.
RestartTimer ==
  /\ Settled
  /\ restartTimer
  /\ restartTimer' = FALSE
  /\ \/ /\ stopRequested
        /\ UNCHANGED <<state, proc, live, healthy>>
     \/ /\ ~stopRequested
        /\ SpawnProcess
  /\ UNCHANGED <<stopRequested, completion, killed, restartCount, pc, lastCall>>
-----------------------------------------------------------------------------
Next ==
  \/ \E c \in Callers :
       \/ CallStart(c) \/ CallStop(c) \/ CallRestart(c) \/ CallReload(c)
       \/ Resume(c) \/ Continue(c)
  \/ KillTimeout
  \/ Ripen
  \/ ChildExit
  \/ FailedChildExit
  \/ RestartTimer

Spec == Init /\ [][Next]_vars

\* Microtasks and timers run; a process that was sent SIGKILL ends.  Nobody
\* has to call anything and a gateway need never exit by itself.
FairSpec ==
  /\ Spec
  /\ \A c \in Callers : WF_vars(Resume(c)) /\ WF_vars(Continue(c))
  /\ WF_vars(KillTimeout)
  /\ WF_vars(completion /\ killed /\ ChildExit)
  /\ WF_vars(RestartTimer)
-----------------------------------------------------------------------------
TypeOK ==
  /\ state \in {"stopped", "starting", "running", "stopping"}
  /\ proc \in Pids \cup {NoPid}
  /\ live \in SUBSET Pids
  /\ stopRequested \in BOOLEAN
  /\ completion \in BOOLEAN
  /\ killed \in BOOLEAN
  /\ restartTimer \in BOOLEAN
  /\ restartCount \in 0..(MaxRestarts + 1)
  /\ healthy \in BOOLEAN
  /\ pc \in [Callers -> Places]
  /\ lastCall \in {"none", "start", "stop"}

\* There is at most one gateway and the launcher holds it, in whatever order
\* callers start, stop and restart it while it exits, crashes or backs off:
\* none is orphaned with the port bound and none is out of stop()'s reach.
NoOrphan == live \subseteq {proc}

\* A stop that is over has left nothing behind: no process and no timer that
\* would start one, until somebody's start() takes effect.
StoppedForGood ==
  stopRequested /\ ~completion =>
    /\ state = "stopped"
    /\ proc = NoPid
    /\ ~restartTimer

\* The launcher that says it is running but holds no child is backing off: a
\* start() that it ignores in this state is made good by the timer.
IgnoredStartIsServed ==
  state = "running" /\ proc = NoPid => restartTimer /\ ~stopRequested

\* Whoever waits for the stop of a live gateway goes on: the grace period
\* bounds it and SIGKILL ends the gateway.
StopCompletes ==
  \A c \in Callers : \A w \in {"stop", "restart", "await"} :
    (pc[c] = w /\ proc \in live) ~> pc[c] # w

\* After a crash the launcher tries to start the gateway again unless somebody
\* stops it or it gives up.
CrashIsRepaired ==
  (state = "running" /\ proc = NoPid) ~> (proc # NoPid \/ state # "running")

\* Whoever is suspended in the await of a stop's completion waits for it.
Suspended == {c \in Callers : pc[c] \in {"stop", "restart", "await"}}

Supervised == INSTANCE Supervisor
  WITH Clients <- Callers, Processes <- Pids, alive <- live,
       stopping <- stopRequested, due <- restartTimer, waiting <- Suspended

\* The launcher is a Supervisor: no call finds a second process or starts one
\* while a stop is awaited, no stop returns before the gateway it met has ended,
\* and the backoff timer restarts only what nobody stopped.
ImplementsSupervisor == Supervised!Spec

\* When no call is in progress and the last one made was a stop(), no gateway
\* is alive ("does not restart when stop() was called", launcher.test.ts).
StopIsFinal ==
  (lastCall = "stop" /\ \A c \in Callers : pc[c] = "idle") => live = {}
=============================================================================
