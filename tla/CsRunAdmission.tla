--------------------------- MODULE CsRunAdmission ---------------------------
(***************************************************************************)
(* The FIFO admission controller for automatic customer-service runs,      *)
(* class CsAutomaticRunAdmission of                                        *)
(* apps/desktop/src/cs-bridge/cs-run-admission.ts.                         *)
(*                                                                         *)
(* A caller acquires a lease (a promise), keeps it until the gateway run   *)
(* it stands for is terminal and releases it.  The controller is paused    *)
(* and resumed around gateway reconnects, reset when its bridge is torn    *)
(* down, and reclaims by a watchdog the leases nobody released.  The code  *)
(* is single-threaded: each method, with the drain it ends in, is a step.  *)
(***************************************************************************)
EXTENDS Naturals, Sequences, FiniteSets

CONSTANTS
  Requests,       \* the calls of acquire(), each made at most once
  MaxConcurrent,  \* the constructor's maxConcurrent
  MaxGeneration   \* bound on the number of resets (the code has none)

ASSUME RequestsAssumption == IsFiniteSet(Requests)
ASSUME MaxConcurrentAssumption == MaxConcurrent \in Nat \ {0}
ASSUME MaxGenerationAssumption == MaxGeneration \in Nat

VARIABLES
  queue,       \* the pending admissions, oldest first
  active,      \* the counter of occupied slots
  paused,
  retired,     \* set by reset(), cleared by resume()
  generation,  \* incremented by reset()
  leases,      \* activeLeases: the leases the watchdog looks after
  watchdog,    \* is the watchdog's interval timer set?
  aged,        \* the leases older than leaseMaxAgeMs
  status,      \* of each request's promise
  bornIn,      \* the generation a request was made in
  released     \* the leases whose release() has run

admissionVars == <<queue, active, paused, retired, generation, leases,
                   watchdog, aged, status, bornIn, released>>

Status == {"idle", "queued", "granted", "rejected"}

AdmissionInit ==
  /\ queue = <<>>
  /\ active = 0
  /\ paused = FALSE
  /\ retired = FALSE
  /\ generation = 0
  /\ leases = {}
  /\ watchdog = FALSE
  /\ aged = {}
  /\ status = [r \in Requests |-> "idle"]
  /\ bornIn = [r \in Requests |-> 0]
  /\ released = {}
-----------------------------------------------------------------------------
(***************************************************************************)
(* drain().  The loop stops when the controller is paused, when every slot *)
(* is taken or when the queue is empty; an entry of an earlier generation  *)
(* is rejected without taking a slot.                                      *)
(***************************************************************************)

\* The positions among the first n of queue q whose entry belongs to gen.
Fresh(q, n, born, gen) == {i \in 1..n : born[q[i]] = gen}

\* How many entries the loop takes off q when room slots are free.
Taken(q, room, born, gen) ==
  CHOOSE n \in 0..Len(q) :
    /\ n = Len(q) \/ Cardinality(Fresh(q, n, born, gen)) >= room
    /\ \A m \in 0..Len(q) : m < n => Cardinality(Fresh(q, m, born, gen)) < room

\* The slots the loop may fill when occ are occupied: none while paused.
Room(occ) == IF paused' \/ occ >= MaxConcurrent THEN 0 ELSE MaxConcurrent - occ

\* The loop, run on queue q with occ slots occupied by the leases ls; st and
\* born are the callers' promises and their generations.
Drain(q, occ, ls, st, born) ==
  LET n == Taken(q, Room(occ), born, generation)
      admitted == {q[i] : i \in Fresh(q, n, born, generation)}
      gone == {q[i] : i \in 1..n}
  IN  /\ queue' = SubSeq(q, n + 1, Len(q))
      /\ active' = occ + Cardinality(Fresh(q, n, born, generation))
      /\ leases' = ls \cup admitted
      /\ status' = [r \in Requests |->
                      IF r \in admitted THEN "granted"
                      ELSE IF r \in gone THEN "rejected"
                      ELSE st[r]]

\* ensureLeaseWatchdog() at each admission by the loop, which finds the timer
\* set or not (wd) and the leases ls.
EnsureWatchdog(ls, wd) == watchdog' = (wd \/ leases' # ls)

-----------------------------------------------------------------------------
(***************************************************************************)
(* The public operations.                                                  *)
(***************************************************************************)

\* acquire() on a retired controller: the promise is rejected at once.
AcquireRetired(r) ==
  /\ status[r] = "idle"
  /\ retired
  /\ status' = [status EXCEPT ![r] = "rejected"]
  /\ UNCHANGED <<queue, active, paused, retired, generation, leases, watchdog,
                 aged, bornIn, released>>

\* The promise of request r becomes pending in queue q, which is drained.
Join(r, q) ==
  /\ status[r] = "idle"
  /\ UNCHANGED <<paused, retired, generation, aged, released>>
  /\ bornIn' = [bornIn EXCEPT ![r] = generation]
  /\ Drain(q, active, leases, [status EXCEPT ![r] = "queued"], bornIn')
  /\ EnsureWatchdog(leases, watchdog)

\* Mutation: no check of `retired`, as before the incident of 2026-09-04.
AcquireUnchecked(r) == Join(r, Append(queue, r))

\* Mutation: unshift() for push().
AcquireAtTheFront(r) == ~retired /\ Join(r, <<r>> \o queue)

\* acquire(): join the queue, then drain.
AcquireQueued(r) == ~retired /\ Join(r, Append(queue, r))

Acquire(r) == AcquireRetired(r) \/ AcquireQueued(r)

Pause ==
  /\ ~paused
  /\ paused' = TRUE
  /\ UNCHANGED <<queue, active, retired, generation, leases, watchdog, aged,
                 status, bornIn, released>>

Resume ==
  /\ retired' = FALSE
  /\ paused' = FALSE
  /\ Drain(queue, active, leases, status, bornIn)
  /\ EnsureWatchdog(leases, watchdog)
  /\ UNCHANGED <<generation, aged, bornIn, released>>

\* reset(): every queued caller is rejected, every lease is forgotten.
Reset ==
  /\ generation < MaxGeneration
  /\ generation' = generation + 1
  /\ queue' = <<>>
  /\ active' = 0
  /\ paused' = TRUE
  /\ retired' = TRUE
  /\ leases' = {}
  /\ watchdog' = FALSE
  /\ aged' = {}
  /\ status' = [r \in Requests |-> IF \E i \in DOMAIN queue : queue[i] = r
                                     THEN "rejected" ELSE status[r]]
  /\ UNCHANGED <<bornIn, released>>

\* Mutation: release() without the generation check.
OfAnyGeneration(rs) == rs

\* The leases of rs whose release() hands a slot back.
OfThisGeneration(rs) == {r \in rs : bornIn[r] = generation}

\* The first release() of each lease of rs, one after the other, with the
\* drain each one ends in; a lease of an earlier generation drains nothing.
ReleaseLeases(rs) ==
  LET left == leases \ rs
      back == Cardinality(OfThisGeneration(rs))
  IN  /\ UNCHANGED <<paused, retired, generation, bornIn>>
      /\ released' = released \cup rs
      /\ aged' = aged \ rs
      /\ \/ /\ OfThisGeneration(rs) # {}
            /\ Drain(queue, IF active > back THEN active - back ELSE 0, left,
                     status, bornIn)
            /\ EnsureWatchdog(left, watchdog /\ left # {})
         \/ /\ OfThisGeneration(rs) = {}
            /\ leases' = left
            /\ watchdog' = (watchdog /\ left # {})
            /\ UNCHANGED <<queue, active, status>>

\* release() by the owner of a lease; a second call returns at once.
Release(r) ==
  /\ status[r] = "granted"
  /\ r \notin released
  /\ ReleaseLeases({r})

\* A lease reaches leaseMaxAgeMs.
Age(r) ==
  /\ r \in leases \ aged
  /\ aged' = aged \cup {r}
  /\ UNCHANGED <<queue, active, paused, retired, generation, leases, watchdog,
                 status, bornIn, released>>

\* Mutation: the sweep deletes the handle and does not call release().
SweepForgetting ==
  /\ watchdog
  /\ aged # {}
  /\ leases' = leases \ aged
  /\ watchdog' = (leases' # {})
  /\ aged' = {}
  /\ UNCHANGED <<queue, active, paused, retired, generation, status, bornIn,
                 released>>

\* sweepExpiredLeases(), run by the interval timer.
Sweep ==
  /\ watchdog
  /\ aged # {}
  /\ ReleaseLeases(aged)
-----------------------------------------------------------------------------
AdmissionNext ==
  \/ \E r \in Requests : Acquire(r) \/ Release(r) \/ Age(r)
  \/ Pause
  \/ Resume
  \/ Reset
  \/ Sweep

AdmissionSpec == AdmissionInit /\ [][AdmissionNext]_admissionVars

\* Time passes and the interval timer fires; no owner is obliged to release
\* its lease and nobody is obliged to resume a paused controller.
AdmissionFairSpec ==
  /\ AdmissionSpec
  /\ \A r \in Requests : WF_admissionVars(Age(r))
  /\ WF_admissionVars(Sweep)
-----------------------------------------------------------------------------
AdmissionTypeOK ==
  /\ queue \in Seq(Requests)
  /\ active \in 0..MaxConcurrent
  /\ paused \in BOOLEAN
  /\ retired \in BOOLEAN
  /\ generation \in 0..MaxGeneration
  /\ leases \in SUBSET Requests
  /\ watchdog \in BOOLEAN
  /\ aged \in SUBSET leases
  /\ status \in [Requests -> Status]
  /\ bornIn \in [Requests -> 0..MaxGeneration]
  /\ released \in SUBSET Requests

\* The leases that occupy a slot: granted in this generation, not released.
Holding ==
  {r \in Requests : /\ status[r] = "granted"
                    /\ r \notin released
                    /\ bornIn[r] = generation}

\* No more than maxConcurrent runs of one generation hold a lease, whatever
\* the order of releases, resets, resumes and watchdog sweeps, late and
\* repeated releases included; and the counter is exactly the number of
\* holders, so that no slot leaks and none is handed out twice.
SlotAccounting ==
  /\ active = Cardinality(Holding)
  /\ Cardinality(Holding) <= MaxConcurrent

\* Nobody waits beside a free slot: whenever the controller is not paused and
\* a request is queued, every slot is taken (each path ends in drain()).
NoIdleSlot == ~paused /\ queue # <<>> => active = MaxConcurrent

\* A retired controller parks nobody: its queue is empty, so that no promise
\* waits for a drain that never comes (the 2026-09-04 incident the comment on
\* `retired` tells of); and a request is waiting exactly when it is queued.
NobodyStranded ==
  /\ retired => queue = <<>>
  /\ \A r \in Requests :
       status[r] = "queued" <=> \E i \in DOMAIN queue : queue[i] = r

\* Every lease that occupies a slot is under the watchdog, and the watchdog's
\* timer is set while there is one: a lease whose owner lost it is found.
WatchdogCovers ==
  /\ leases = Holding
  /\ leases # {} => watchdog

\* To its callers the controller is a counting semaphore with a FIFO queue, a
\* gate and a way to send everybody away: who waits longest is served first,
\* as soon as a slot is free, and a slot is free as soon as the lease that
\* occupied it in this generation is released, by its owner or by the sweep.
Semaphore == INSTANCE FifoSemaphore
  WITH Clients <- Requests, Capacity <- MaxConcurrent, waiting <- queue,
       holders <- Holding, open <- ~paused, refusing <- retired

ImplementsSemaphore == Semaphore!Spec

\* The watchdog alone keeps the queue moving: if the controller is unpaused
\* again and again then every queued request is settled, although no owner
\* ever has to release its lease.
QueuedIsSettled ==
  ([]<>~paused) =>
     \A r \in Requests : (status[r] = "queued") ~> (status[r] # "queued")
=============================================================================
