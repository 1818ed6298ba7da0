----------------------------- MODULE Supervisor -----------------------------
(***************************************************************************)
(* What a process supervisor promises those who call it: at most one       *)
(* process at a time; a stop that returns only when no process is alive    *)
(* and that cancels the restart due after a crash; nothing started while   *)
(* somebody waits for a stop.  There is no launcher state, child, timer,   *)
(* completion or restart limit here: see ImplementsSupervisor of           *)
(* GatewayLauncher for how they implement it.                              *)
(***************************************************************************)
CONSTANTS Clients, Processes

VARIABLES
  alive,     \* the processes that are alive
  stopping,  \* has a stop been asked for, and no start begun since?
  due,       \* is a restart due?
  waiting    \* the clients that wait for a stop

vars == <<alive, stopping, due, waiting>>

Init == alive = {} /\ stopping = FALSE /\ due = FALSE /\ waiting = {}

\* Whoever asks for a stop while a process is alive has to wait.
Stop(c) ==
  /\ c \notin waiting
  /\ stopping' = TRUE
  /\ due' = FALSE
  /\ waiting' \in {waiting, waiting \cup {c}}
  /\ alive # {} => c \in waiting'
  /\ UNCHANGED alive

\* A start waits for the stop somebody else waits for.
Wait(c) ==
  /\ waiting # {} /\ c \notin waiting
  /\ waiting' = waiting \cup {c}
  /\ UNCHANGED <<alive, stopping, due>>

\* An attempt to bring a process to life, which may fail.
Attempt == \E S \in {{}} \cup {{p} : p \in Processes} : alive' = S

Start ==
  /\ alive = {} /\ waiting = {} /\ ~due
  /\ stopping' = FALSE
  /\ Attempt
  /\ UNCHANGED <<due, waiting>>

Restart ==
  /\ alive = {} /\ waiting = {} /\ due /\ ~stopping
  /\ due' = FALSE
  /\ Attempt
  /\ UNCHANGED <<stopping, waiting>>

\* The end of the process, or of an attempt to start it: all who wait go on,
\* and only an end nobody asked for may be followed by a restart.
End ==
  /\ ~due
  /\ alive' = {}
  /\ waiting' = {}
  /\ due' \in {FALSE, ~stopping}
  /\ UNCHANGED stopping

Next == (\E c \in Clients : Stop(c) \/ Wait(c)) \/ Start \/ Restart \/ End

Spec == Init /\ [][Next]_vars

\* What follows for those who use it: there is never a second process; who
\* waits, waits for a stop; a stop nobody waits for any more has left nothing
\* alive; and what is due to be restarted has ended without being stopped.
Promise ==
  /\ \A p, q \in alive : p = q
  /\ waiting # {} => stopping
  /\ stopping /\ waiting = {} => alive = {}
  /\ due => alive = {} /\ waiting = {} /\ ~stopping
=============================================================================
