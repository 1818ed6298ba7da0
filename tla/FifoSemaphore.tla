--------------------------- MODULE FifoSemaphore ---------------------------
(***************************************************************************)
(* What an admission controller promises those who ask it for a slot: a    *)
(* counting semaphore with a queue served in the order of arrival, a gate  *)
(* that can be closed for a while, and a way to send everybody away.       *)
(* There are no counters, leases, generations or timers here: see          *)
(* ImplementsSemaphore of CsRunAdmission for how they implement it.        *)
(***************************************************************************)
EXTENDS Naturals, Sequences, FiniteSets

CONSTANTS Clients, Capacity

VARIABLES
  waiting,  \* the clients in the queue
  holders,  \* the clients with a slot
  open,     \* is the gate open?
  refusing  \* has everybody been sent away for good?

vars == <<waiting, holders, open, refusing>>

Init == waiting = <<>> /\ holders = {} /\ open = TRUE /\ refusing = FALSE

\* With w waiting and h holding slots, the first ones of the queue get a slot
\* each: as many as fit while the gate is open, nobody while it is closed.
Serve(w, h) ==
  \E n \in 0..Len(w) :
    /\ waiting' = SubSeq(w, n + 1, Len(w))
    /\ holders' = h \cup {w[i] : i \in 1..n}
    /\ Cardinality(holders') <= Capacity
    /\ IF open' THEN n = Len(w) \/ Cardinality(holders') = Capacity ELSE n = 0

Join(c) ==
  /\ ~refusing
  /\ c \notin holders /\ \A i \in 1..Len(waiting) : waiting[i] # c
  /\ UNCHANGED <<open, refusing>>
  /\ Serve(Append(waiting, c), holders)

\* One or several clients give their slots back at once.
Leave(S) ==
  /\ S # {} /\ S \subseteq holders
  /\ UNCHANGED <<open, refusing>>
  /\ Serve(waiting, holders \ S)

Close == open /\ open' = FALSE /\ UNCHANGED <<waiting, holders, refusing>>

Open == open' = TRUE /\ refusing' = FALSE /\ Serve(waiting, holders)

\* Nobody waits and nobody holds a slot any more, until the gate is opened.
SendAway ==
  waiting' = <<>> /\ holders' = {} /\ open' = FALSE /\ refusing' = TRUE

Next ==
  \/ \E c \in Clients : Join(c)
  \/ \E S \in SUBSET Clients : Leave(S)
  \/ Close \/ Open \/ SendAway

Spec == Init /\ [][Next]_vars

\* A client is in one place: nobody queues twice, and nobody both waits and
\* holds a slot.
OnePlace(w, h) ==
  /\ \A i, j \in 1..Len(w) : w[i] = w[j] => i = j
  /\ \A i \in 1..Len(w) : w[i] \notin h

\* What follows for those who use it: there are never more holders than slots;
\* nobody waits beside a free slot while the gate is open; and once everybody
\* has been sent away nobody waits for what will not come.
Promise ==
  /\ waiting \in Seq(Clients)
  /\ OnePlace(waiting, holders)
  /\ Cardinality(holders) <= Capacity
  /\ open /\ waiting # <<>> => Cardinality(holders) = Capacity
  /\ refusing => waiting = <<>> /\ holders = {}
=============================================================================
