------------------------ MODULE CsRunAdmissionProofs ------------------------
(***************************************************************************)
(* Theorems about CsRunAdmission for every set of requests, every limit    *)
(* and every number of resets.                                             *)
(*                                                                         *)
(* SlotAccounting is not inductive.  The argument needs that every queued  *)
(* entry is of the current generation, is waiting and appears once, so     *)
(* that the drain loop admits as many distinct leases as it adds to the    *)
(* counter; Consistent collects these facts about a queue, a counter and   *)
(* a set of leases, and DrainKeepsConsistent shows that the loop, from     *)
(* wherever it is called, keeps them and leaves no idle slot.  On top of   *)
(* the invariant, every operation is shown to be a step of FifoSemaphore.  *)
(***************************************************************************)
EXTENDS CsRunAdmission, FiniteSetTheorems, TLAPS

\* What relates a queue, the counter, the leases, the promises, the
\* generations, the released leases and the watchdog between two steps.
Consistent(q, occ, ls, st, born, rel, gen) ==
  /\ \A i \in 1..Len(q) : born[q[i]] = gen /\ st[q[i]] = "queued"
  /\ \A i, j \in 1..Len(q) : q[i] = q[j] => i = j
  /\ \A r \in Requests : st[r] = "queued" => \E i \in 1..Len(q) : q[i] = r
  /\ ls = {r \in Requests : st[r] = "granted" /\ r \notin rel /\ born[r] = gen}
  /\ \A r \in rel : st[r] = "granted"
  /\ occ = Cardinality(ls)

AdmissionInv ==
  /\ AdmissionTypeOK
  /\ Consistent(queue, active, leases, status, bornIn, released, generation)
  /\ leases # {} => watchdog
  /\ \A r \in Requests : bornIn[r] <= generation
  /\ NoIdleSlot
  /\ retired => queue = <<>>
-----------------------------------------------------------------------------
\* A queue whose entries all belong to the current generation: the loop takes
\* an entry for each free slot, or all of them if there are fewer.
LEMMA TakenFromFreshQueue ==
  ASSUME NEW q \in Seq(Requests), NEW room \in Nat, NEW born, NEW gen,
         \A i \in 1..Len(q) : born[q[i]] = gen
  PROVE  LET n == Taken(q, room, born, gen)
         IN  /\ n \in 0..Len(q)
             /\ n <= room
             /\ n = Len(q) \/ n = room
             /\ Fresh(q, n, born, gen) = 1..n
             /\ Cardinality(Fresh(q, n, born, gen)) = n
<1>1. \A n \in 0..Len(q) : Fresh(q, n, born, gen) = 1..n
  BY DEF Fresh
<1>2. \A n \in 0..Len(q) : Cardinality(1..n) = n
  BY FS_Interval
<1> DEFINE P(n) == /\ n = Len(q) \/ Cardinality(Fresh(q, n, born, gen)) >= room
                   /\ \A m \in 0..Len(q) :
                        m < n => Cardinality(Fresh(q, m, born, gen)) < room
           least == IF Len(q) <= room THEN Len(q) ELSE room
<1>3. least \in 0..Len(q) /\ P(least)
  BY <1>1, <1>2
<1>4. Taken(q, room, born, gen) \in 0..Len(q) /\ P(Taken(q, room, born, gen))
  <2>1. Taken(q, room, born, gen) = CHOOSE n \in 0..Len(q) : P(n)
    BY DEF Taken
  <2>2. QED
    BY <1>3, <2>1
<1>5. Taken(q, room, born, gen) <= room
  <2> DEFINE n == Taken(q, room, born, gen)
  <2> SUFFICES ASSUME n > room PROVE FALSE
    BY <1>4
  <2>1. room \in 0..Len(q) /\ room < n
    BY <1>4
  <2>2. Cardinality(Fresh(q, room, born, gen)) = room
    BY <1>1, <1>2, <2>1
  <2> QED
    BY <1>4, <2>1, <2>2
<1>6. QED
  BY <1>1, <1>2, <1>4, <1>5

\* As many distinct requests as positions: the first n entries of a queue
\* without repetition.
LEMMA PrefixCardinality ==
  ASSUME NEW q \in Seq(Requests), NEW n \in 0..Len(q),
         \A i, j \in 1..Len(q) : q[i] = q[j] => i = j
  PROVE  /\ IsFiniteSet({q[i] : i \in 1..n})
         /\ Cardinality({q[i] : i \in 1..n}) = n
<1> DEFINE S == {q[i] : i \in 1..n}
           f == [i \in 1..n |-> q[i]]
<1>1. f \in Bijection(1..n, S)
  BY DEF Bijection, Injection, Surjection, IsInjective
<1>2. IsFiniteSet(1..n) /\ Cardinality(1..n) = n
  BY FS_Interval
<1>3. ExistsBijection(1..n, S)
  BY <1>1 DEF ExistsBijection
<1>4. QED
  BY <1>2, <1>3, FS_Bijection

\* What Drain says of the values after the loop, as a relation on values.
DrainResult(q, occ, ls, st, born, gen, room, q2, occ2, ls2, st2) ==
  LET n == Taken(q, room, born, gen)
      admitted == {q[i] : i \in Fresh(q, n, born, gen)}
      gone == {q[i] : i \in 1..n}
  IN  /\ q2 = SubSeq(q, n + 1, Len(q))
      /\ occ2 = occ + Cardinality(Fresh(q, n, born, gen))
      /\ ls2 = ls \cup admitted
      /\ st2 = [r \in Requests |-> IF r \in admitted THEN "granted"
                                  ELSE IF r \in gone THEN "rejected" ELSE st[r]]

\* What the loop achieves, over the same values.
Drained(q, occ, ls, born, rel, gen, room, q2, occ2, ls2, st2) ==
  /\ q2 \in Seq(Requests)
  /\ occ2 \in occ..(occ + room)
  /\ ls2 \in SUBSET Requests
  /\ ls \subseteq ls2
  /\ st2 \in [Requests -> Status]
  /\ Consistent(q2, occ2, ls2, st2, born, rel, gen)
  /\ q2 # <<>> => occ2 = occ + room
  /\ q = <<>> => q2 = <<>>

\* The drain loop, from whichever method it is called, turns a consistent
\* state into a consistent one and fills the free slots or empties the queue.
LEMMA DrainKeepsConsistent ==
  ASSUME NEW gen,
         NEW q \in Seq(Requests), NEW occ \in Nat, NEW room \in Nat,
         NEW ls \in SUBSET Requests,
         NEW st \in [Requests -> Status],
         NEW born \in [Requests -> 0..MaxGeneration],
         NEW rel \in SUBSET Requests,
         NEW q2, NEW occ2, NEW ls2, NEW st2,
         Consistent(q, occ, ls, st, born, rel, gen),
         DrainResult(q, occ, ls, st, born, gen, room, q2, occ2, ls2, st2)
  PROVE  Drained(q, occ, ls, born, rel, gen, room, q2, occ2, ls2, st2)
<1> DEFINE n == Taken(q, room, born, gen)
           admitted == {q[i] : i \in 1..n}
<1>1. /\ n \in 0..Len(q)
      /\ n <= room
      /\ n = Len(q) \/ n = room
      /\ Fresh(q, n, born, gen) = 1..n
      /\ Cardinality(Fresh(q, n, born, gen)) = n
  BY TakenFromFreshQueue DEF Consistent
<1>2. /\ q2 = SubSeq(q, n + 1, Len(q))
      /\ occ2 = occ + n
      /\ ls2 = ls \cup admitted
      /\ st2 = [r \in Requests |-> IF r \in admitted THEN "granted" ELSE st[r]]
  BY <1>1 DEF DrainResult
<1> HIDE DEF n
<1>3. /\ q2 \in Seq(Requests)
      /\ Len(q2) = Len(q) - n
      /\ \A i \in 1..Len(q2) : /\ q2[i] = q[i + n]
                                  /\ i + n \in 1..Len(q)
                                  /\ i + n \notin 1..n
  <2>1. n \in 0..Len(q) /\ Len(q) \in Nat /\ q2 = SubSeq(q, n + 1, Len(q))
    BY <1>1, <1>2
  <2>2. n \in Nat /\ n + 1 \in 1..(Len(q) + 1) /\ Len(q) - n \in Nat
    BY <2>1
  <2>3. q2 \in Seq(Requests)
    BY <2>1, <2>2
  <2>4. Len(q2) = Len(q) - n
    BY <2>1, <2>2
  <2>5. ASSUME NEW i \in 1..Len(q2)
        PROVE  q2[i] = q[i + n] /\ i + n \in 1..Len(q) /\ i + n \notin 1..n
    <3>1. i \in 1..(Len(q) - n)
      BY <2>4, <2>5
    <3>2. i + n \in 1..Len(q) /\ i + n \notin 1..n
      BY <2>2, <3>1
    <3>3. /\ n + 1 \in Int /\ Len(q) \in Int
          /\ i \in 1..(Len(q) - (n + 1) + 1)
          /\ (n + 1) + i - 1 = i + n
      BY <2>1, <2>2, <3>1
    <3>4. SubSeq(q, n + 1, Len(q))[i] = q[(n + 1) + i - 1]
      BY <3>3
    <3> QED
      BY <2>1, <3>2, <3>3, <3>4
  <2> QED
    BY <2>3, <2>4, <2>5
<1>4. admitted \subseteq Requests /\ \A r \in admitted : st[r] = "queued" /\ born[r] = gen
  BY <1>1 DEF Consistent
<1>5. /\ ls2 \in SUBSET Requests
      /\ st2 \in [Requests -> Status]
  BY <1>2, <1>4 DEF Status
<1>6. occ2 = Cardinality(ls2)
  <2>1. IsFiniteSet(ls)
    BY RequestsAssumption, FS_Subset
  <2>2. IsFiniteSet(admitted) /\ Cardinality(admitted) = n
    BY <1>1, PrefixCardinality DEF Consistent
  <2>3. ls \cap admitted = {}
    BY <1>4 DEF Consistent
  <2>4. Cardinality(ls \cap admitted) = 0
    BY <2>3, FS_EmptySet
  <2>5. Cardinality(ls \cup admitted) = Cardinality(ls) + Cardinality(admitted) - 0
    BY <2>1, <2>2, <2>4, FS_Union
  <2> HIDE DEF admitted
  <2> QED
    BY <1>1, <1>2, <2>2, <2>5 DEF Consistent
<1>7. Consistent(q2, occ2, ls2, st2, born, rel, gen)
  <2>1. \A i \in 1..Len(q2) : born[q2[i]] = gen /\ st2[q2[i]] = "queued"
    <3> SUFFICES ASSUME NEW i \in 1..Len(q2)
                 PROVE  born[q2[i]] = gen /\ st2[q2[i]] = "queued"
      OBVIOUS
    <3>1. i + n \in 1..Len(q) /\ i + n \notin 1..n /\ q2[i] = q[i + n]
      BY <1>3
    <3>2. q[i + n] \notin admitted
      <4> SUFFICES ASSUME NEW k \in 1..n, q[k] = q[i + n] PROVE FALSE
        OBVIOUS
      <4>1. k \in 1..Len(q)
        BY <1>1
      <4> QED
        BY <3>1, <4>1 DEF Consistent
    <3>3. q[i + n] \in Requests
      BY <3>1
    <3>4. st2[q[i + n]] = st[q[i + n]]
      <4> HIDE DEF admitted
      <4> QED
        BY <1>2, <3>2, <3>3
    <3>5. born[q[i + n]] = gen /\ st[q[i + n]] = "queued"
      BY <3>1 DEF Consistent
    <3> QED
      BY <3>1, <3>4, <3>5
  <2>2. \A i, j \in 1..Len(q2) : q2[i] = q2[j] => i = j
    <3> SUFFICES ASSUME NEW i \in 1..Len(q2), NEW j \in 1..Len(q2),
                        q2[i] = q2[j]
                 PROVE  i = j
      OBVIOUS
    <3>1. /\ i + n \in 1..Len(q) /\ j + n \in 1..Len(q)
          /\ q[i + n] = q[j + n]
      BY <1>3
    <3>2. n \in Nat /\ i + n = j + n
      BY <1>1, <3>1 DEF Consistent
    <3> QED
      BY <3>1, <3>2
  <2>3. \A r \in Requests : st2[r] = "queued" => \E i \in 1..Len(q2) : q2[i] = r
    <3> SUFFICES ASSUME NEW r \in Requests, st2[r] = "queued"
                 PROVE  \E i \in 1..Len(q2) : q2[i] = r
      OBVIOUS
    <3>1. r \notin admitted /\ st[r] = "queued"
      BY <1>2
    <3>2. PICK k \in 1..Len(q) : q[k] = r
      BY <3>1 DEF Consistent
    <3>3. k \notin 1..n
      BY <3>1, <3>2
    <3>4. k - n \in 1..(Len(q) - n) /\ (k - n) + n = k
      BY <1>1, <3>2, <3>3
    <3>5. k - n \in 1..Len(q2) /\ q2[k - n] = r
      BY <1>3, <3>2, <3>4
    <3> QED
      BY <3>5
  <2>4. ls2 = {r \in Requests : st2[r] = "granted" /\ r \notin rel /\ born[r] = gen}
    <3>1. \A r \in admitted : r \notin rel
      BY <1>4 DEF Consistent
    <3> HIDE DEF admitted
    <3> QED
      BY <1>2, <1>4, <3>1 DEF Consistent
  <2>5. \A r \in rel : st2[r] = "granted"
    BY <1>2 DEF Consistent
  <2> QED
    BY <1>6, <2>1, <2>2, <2>3, <2>4, <2>5 DEF Consistent
<1>8. q2 # <<>> => occ2 = occ + room
  BY <1>1, <1>2, <1>3
<1>9. q = <<>> => q2 = <<>>
  BY <1>1, <1>3
<1>10. occ2 \in occ..(occ + room)
  BY <1>1, <1>2
<1> QED
  BY <1>2, <1>3, <1>5, <1>7, <1>8, <1>9, <1>10 DEF Drained
-----------------------------------------------------------------------------
\* The invariant holds of a new controller.
LEMMA AdmissionInvInit == AdmissionInit => AdmissionInv
<1> SUFFICES ASSUME AdmissionInit PROVE AdmissionInv
  OBVIOUS
<1> USE RequestsAssumption, MaxConcurrentAssumption, MaxGenerationAssumption
<1>1. AdmissionTypeOK
  <2>1. queue \in Seq(Requests) /\ leases \in SUBSET Requests /\ aged \in SUBSET leases
    BY DEF AdmissionInit
  <2>2. 0 \in 0..MaxConcurrent /\ 0 \in 0..MaxGeneration
    OBVIOUS
  <2> QED
    BY <2>1, <2>2 DEF AdmissionInit, AdmissionTypeOK, Status
<1>2. Cardinality({}) = 0
  BY FS_EmptySet
<1>3. Consistent(queue, active, leases, status, bornIn, released, generation)
  BY <1>2 DEF AdmissionInit, Consistent
<1> QED
  BY <1>1, <1>3 DEF AdmissionInit, AdmissionInv, NoIdleSlot

\* The loop never has room beyond the limit, and all of it when not paused.
LEMMA RoomFits ==
  ASSUME NEW occ \in 0..MaxConcurrent
  PROVE  /\ Room(occ) \in Nat
         /\ occ + Room(occ) <= MaxConcurrent
         /\ ~paused' => occ + Room(occ) = MaxConcurrent
  BY MaxConcurrentAssumption DEF Room

\* The queue with one more request, before the loop runs.
LEMMA JoinedQueueConsistent ==
  ASSUME AdmissionInv, NEW r \in Requests, status[r] = "idle"
  PROVE  Consistent(Append(queue, r), active, leases, [status EXCEPT ![r] = "queued"],
                    [bornIn EXCEPT ![r] = generation], released, generation)
<1> DEFINE q == Append(queue, r)
           st == [status EXCEPT ![r] = "queued"]
           born == [bornIn EXCEPT ![r] = generation]
<1>1. /\ q \in Seq(Requests)
      /\ Len(q) = Len(queue) + 1
      /\ \A i \in 1..Len(queue) : q[i] = queue[i]
      /\ q[Len(queue) + 1] = r
  BY DEF AdmissionInv, AdmissionTypeOK
<1>2. /\ st \in [Requests -> Status]
      /\ born \in [Requests -> 0..MaxGeneration]
  BY DEF AdmissionInv, AdmissionTypeOK, Status
<1>3. \A i \in 1..Len(queue) : queue[i] # r
  BY DEF AdmissionInv, Consistent
<1>4. Consistent(q, active, leases, st, born, released, generation)
  <2>1. \A i \in 1..Len(q) : born[q[i]] = generation /\ st[q[i]] = "queued"
    BY <1>1, <1>3 DEF AdmissionInv, AdmissionTypeOK, Consistent
  <2>2. \A i, j \in 1..Len(q) : q[i] = q[j] => i = j
    <3> SUFFICES ASSUME NEW i \in 1..Len(q), NEW j \in 1..Len(q), q[i] = q[j]
                 PROVE  i = j
      OBVIOUS
    <3>1. i \in 1..Len(queue) \/ i = Len(queue) + 1
      BY <1>1 DEF AdmissionInv, AdmissionTypeOK
    <3>2. j \in 1..Len(queue) \/ j = Len(queue) + 1
      BY <1>1 DEF AdmissionInv, AdmissionTypeOK
    <3> QED
      BY <1>1, <1>3, <3>1, <3>2 DEF AdmissionInv, Consistent
  <2>3. \A x \in Requests : st[x] = "queued" => \E i \in 1..Len(q) : q[i] = x
    BY <1>1 DEF AdmissionInv, AdmissionTypeOK, Consistent
  <2>4. leases = {x \in Requests : st[x] = "granted" /\ x \notin released /\ born[x] = generation}
    BY DEF AdmissionInv, AdmissionTypeOK, Consistent
  <2>5. \A x \in released : st[x] = "granted"
    BY DEF AdmissionInv, AdmissionTypeOK, Consistent
  <2> QED
    BY <2>1, <2>2, <2>3, <2>4, <2>5 DEF AdmissionInv, Consistent
<1> QED
  BY <1>4

\* acquire() keeps it.
LEMMA AcquireQueuedInv ==
  ASSUME AdmissionInv, NEW r \in Requests, AcquireQueued(r)
  PROVE  AdmissionInv'
<1> DEFINE q == Append(queue, r)
           st == [status EXCEPT ![r] = "queued"]
           born == [bornIn EXCEPT ![r] = generation]
<1>1. /\ q \in Seq(Requests)
      /\ Len(q) = Len(queue) + 1
      /\ \A i \in 1..Len(queue) : q[i] = queue[i]
      /\ q[Len(queue) + 1] = r
  BY DEF AdmissionInv, AdmissionTypeOK
<1>2. /\ st \in [Requests -> Status]
      /\ born \in [Requests -> 0..MaxGeneration]
  BY DEF AdmissionInv, AdmissionTypeOK, Status
<1>4. Consistent(q, active, leases, st, born, released, generation)
  BY JoinedQueueConsistent DEF AcquireQueued, Join
<1>5. PICK room \in Nat :
        /\ DrainResult(q, active, leases, st, born, generation, room,
                       queue', active', leases', status')
        /\ active + room <= MaxConcurrent
        /\ ~paused' => active + room = MaxConcurrent
  <2>1. DrainResult(q, active, leases, st, born, generation, Room(active),
                    queue', active', leases', status')
    BY DEF AcquireQueued, Join, Drain, DrainResult
  <2> QED
    BY <2>1, RoomFits DEF AdmissionInv, AdmissionTypeOK
<1> HIDE DEF q, st, born
<1>6. active \in Nat
  BY DEF AdmissionInv, AdmissionTypeOK
<1>7. /\ queue' \in Seq(Requests)
      /\ active' \in active..(active + room)
      /\ leases' \in SUBSET Requests
      /\ leases \subseteq leases'
      /\ status' \in [Requests -> Status]
      /\ Consistent(queue', active', leases', status', born, released, generation)
      /\ queue' # <<>> => active' = active + room
  <2>1. leases \in SUBSET Requests /\ released \in SUBSET Requests
    BY DEF AdmissionInv, AdmissionTypeOK
  <2>2. Drained(q, active, leases, born, released, generation, room,
                queue', active', leases', status')
    BY <1>1, <1>2, <1>4, <1>5, <1>6, <2>1, DrainKeepsConsistent
  <2> QED
    BY <2>2 DEF Drained
<1>8. /\ bornIn' = born
      /\ UNCHANGED <<paused, retired, generation, aged, released>>
      /\ ~retired
      /\ watchdog' = (watchdog \/ leases' # leases)
  BY DEF AcquireQueued, Join, EnsureWatchdog, born
<1>9. active' \in 0..MaxConcurrent
  BY <1>5, <1>6, <1>7, MaxConcurrentAssumption
<1>10. AdmissionTypeOK'
  BY <1>2, <1>7, <1>8, <1>9 DEF AdmissionInv, AdmissionTypeOK
<1>11. NoIdleSlot'
  BY <1>5, <1>7 DEF NoIdleSlot
<1>12. \A x \in Requests : bornIn'[x] <= generation'
  BY <1>8 DEF born, AdmissionInv, AdmissionTypeOK
<1> QED
  BY <1>7, <1>8, <1>10, <1>11, <1>12 DEF AdmissionInv

\* resume() keeps it.
LEMMA ResumeInv ==
  ASSUME AdmissionInv, Resume
  PROVE  AdmissionInv'
<1>1. PICK room \in Nat :
        /\ DrainResult(queue, active, leases, status, bornIn, generation, room,
                       queue', active', leases', status')
        /\ active + room <= MaxConcurrent
        /\ ~paused' => active + room = MaxConcurrent
  <2>1. DrainResult(queue, active, leases, status, bornIn, generation, Room(active),
                    queue', active', leases', status')
    BY DEF Resume, Drain, DrainResult
  <2> QED
    BY <2>1, RoomFits DEF AdmissionInv, AdmissionTypeOK
<1>2. active \in Nat
  BY DEF AdmissionInv, AdmissionTypeOK
<1>3. /\ queue' \in Seq(Requests)
      /\ active' \in active..(active + room)
      /\ leases' \in SUBSET Requests
      /\ leases \subseteq leases'
      /\ status' \in [Requests -> Status]
      /\ Consistent(queue', active', leases', status', bornIn, released, generation)
      /\ queue' # <<>> => active' = active + room
  <2>1. /\ queue \in Seq(Requests) /\ leases \in SUBSET Requests
        /\ status \in [Requests -> Status]
        /\ bornIn \in [Requests -> 0..MaxGeneration]
        /\ released \in SUBSET Requests
        /\ Consistent(queue, active, leases, status, bornIn, released, generation)
    BY DEF AdmissionInv, AdmissionTypeOK
  <2>2. Drained(queue, active, leases, bornIn, released, generation, room,
                queue', active', leases', status')
    BY <1>1, <1>2, <2>1, DrainKeepsConsistent
  <2> QED
    BY <2>2 DEF Drained
<1>4. /\ retired' = FALSE /\ paused' = FALSE
      /\ UNCHANGED <<generation, aged, bornIn, released>>
      /\ watchdog' = (watchdog \/ leases' # leases)
  BY DEF Resume, EnsureWatchdog
<1>5. active' \in 0..MaxConcurrent
  BY <1>1, <1>2, <1>3, MaxConcurrentAssumption
<1>6. AdmissionTypeOK'
  BY <1>3, <1>4, <1>5 DEF AdmissionInv, AdmissionTypeOK
<1>7. NoIdleSlot'
  BY <1>1, <1>3 DEF NoIdleSlot
<1> QED
  BY <1>3, <1>4, <1>6, <1>7 DEF AdmissionInv

\* What is left of a consistent state when the leases of rs, all granted and
\* none released before, are released: their slots are free again.
LEMMA ReleaseKeepsConsistent ==
  ASSUME AdmissionInv, NEW rs \in SUBSET Requests,
         \A r \in rs : status[r] = "granted" /\ r \notin released
  PROVE  LET back == Cardinality(OfThisGeneration(rs))
         IN  /\ OfThisGeneration(rs) = leases \cap rs
             /\ back \in 0..active
             /\ Consistent(queue, active - back, leases \ rs, status, bornIn,
                           released \cup rs, generation)
<1> DEFINE back == Cardinality(OfThisGeneration(rs))
<1>1. OfThisGeneration(rs) = leases \cap rs
  BY DEF OfThisGeneration, AdmissionInv, Consistent
<1>2. IsFiniteSet(leases) /\ active = Cardinality(leases) /\ active \in Nat
  BY RequestsAssumption, FS_Subset DEF AdmissionInv, AdmissionTypeOK, Consistent
<1>3. /\ IsFiniteSet(leases \cap rs) /\ Cardinality(leases \cap rs) \in Nat
      /\ Cardinality(leases \cap rs) <= Cardinality(leases)
  BY <1>2, FS_Subset, FS_CardinalityType
<1>4. Cardinality(leases \ rs) = Cardinality(leases) - Cardinality(leases \cap rs)
  BY <1>2, FS_Difference
<1>5. back \in 0..active /\ active - back = Cardinality(leases \ rs)
  BY <1>1, <1>2, <1>3, <1>4
<1>6. leases \ rs = {r \in Requests : /\ status[r] = "granted"
                                      /\ r \notin released \cup rs
                                      /\ bornIn[r] = generation}
  BY DEF AdmissionInv, Consistent
<1>7. \A r \in released \cup rs : status[r] = "granted"
  BY DEF AdmissionInv, Consistent
<1>8. Consistent(queue, active - back, leases \ rs, status, bornIn, released \cup rs, generation)
  BY <1>5, <1>6, <1>7 DEF AdmissionInv, Consistent
<1> QED
  BY <1>1, <1>5, <1>8

\* Giving leases back keeps it.
LEMMA ReleaseLeasesInv ==
  ASSUME AdmissionInv, NEW rs \in SUBSET Requests, rs # {},
         \A r \in rs : status[r] = "granted" /\ r \notin released,
         ReleaseLeases(rs)
  PROVE  AdmissionInv'
<1> DEFINE left == leases \ rs
           back == Cardinality(OfThisGeneration(rs))
           rel == released \cup rs
<1>1. /\ OfThisGeneration(rs) = leases \cap rs
      /\ back \in 0..active
      /\ Consistent(queue, active - back, left, status, bornIn, rel, generation)
  BY ReleaseKeepsConsistent
<1>2. /\ UNCHANGED <<paused, retired, generation, bornIn>>
      /\ released' = rel
      /\ aged' = aged \ rs
  BY DEF ReleaseLeases
<1>3. /\ queue \in Seq(Requests) /\ active \in 0..MaxConcurrent
      /\ status \in [Requests -> Status]
      /\ bornIn \in [Requests -> 0..MaxGeneration]
      /\ left \in SUBSET Requests /\ rel \in SUBSET Requests
      /\ aged \ rs \in SUBSET left
  BY DEF AdmissionInv, AdmissionTypeOK
<1>4. CASE OfThisGeneration(rs) # {}
  <2>1. (IF active > back THEN active - back ELSE 0) = active - back
    BY <1>1, <1>3
  <2>2. /\ DrainResult(queue, active - back, left, status, bornIn, generation,
                       Room(active - back), queue', active', leases', status')
        /\ watchdog' = ((watchdog /\ left # {}) \/ leases' # left)
    BY <1>4, <2>1 DEF ReleaseLeases, Drain, DrainResult, EnsureWatchdog
  <2>3. active - back \in 0..MaxConcurrent
    BY <1>1, <1>3, MaxConcurrentAssumption
  <2> HIDE DEF left, back, rel
  <2>4. PICK occ \in 0..MaxConcurrent, room \in Nat :
          /\ occ = active - back
          /\ DrainResult(queue, occ, left, status, bornIn, generation, room,
                         queue', active', leases', status')
          /\ occ + room <= MaxConcurrent
          /\ ~paused' => occ + room = MaxConcurrent
    BY <2>2, <2>3, RoomFits
  <2>5. Drained(queue, occ, left, bornIn, rel, generation, room,
                queue', active', leases', status')
    <3>1. Consistent(queue, occ, left, status, bornIn, rel, generation) /\ occ \in Nat
      BY <1>1, <2>4
    <3> QED
      BY <1>3, <2>4, <3>1, DrainKeepsConsistent
  <2>6. /\ queue' \in Seq(Requests)
        /\ active' \in occ..(occ + room)
        /\ leases' \in SUBSET Requests
        /\ left \subseteq leases'
        /\ status' \in [Requests -> Status]
        /\ Consistent(queue', active', leases', status', bornIn, rel, generation)
        /\ queue' # <<>> => active' = occ + room
        /\ queue = <<>> => queue' = <<>>
    BY <2>5 DEF Drained
  <2>7. active' \in 0..MaxConcurrent
    BY <2>4, <2>6, MaxConcurrentAssumption
  <2>8. AdmissionTypeOK'
    BY <1>2, <1>3, <2>2, <2>6, <2>7 DEF AdmissionInv, AdmissionTypeOK
  <2>9. NoIdleSlot'
    BY <2>4, <2>6 DEF NoIdleSlot
  <2>10. leases' # {} => watchdog'
    BY <2>2 DEF AdmissionInv, left
  <2>11. retired' => queue' = <<>>
    BY <1>2, <2>6 DEF AdmissionInv
  <2> QED
    BY <1>2, <2>6, <2>8, <2>9, <2>10, <2>11 DEF AdmissionInv
<1>5. CASE OfThisGeneration(rs) = {}
  <2>1. /\ leases' = left
        /\ watchdog' = (watchdog /\ left # {})
        /\ UNCHANGED <<queue, active, status>>
    BY <1>5 DEF ReleaseLeases
  <2>2. back = 0
    BY <1>5, FS_EmptySet
  <2>3. Consistent(queue', active', leases', status', bornIn, rel, generation)
    BY <1>1, <1>3, <2>1, <2>2
  <2>4. left \subseteq leases
    OBVIOUS
  <2> HIDE DEF left, back, rel
  <2>5. AdmissionTypeOK'
    BY <1>2, <1>3, <2>1 DEF AdmissionInv, AdmissionTypeOK
  <2>6. NoIdleSlot'
    BY <1>2, <2>1 DEF AdmissionInv, NoIdleSlot
  <2>7. leases' # {} => watchdog'
    BY <2>1, <2>4 DEF AdmissionInv
  <2> QED
    BY <1>2, <2>1, <2>3, <2>5, <2>6, <2>7 DEF AdmissionInv
<1> QED
  BY <1>4, <1>5

\* reset() keeps it.
LEMMA ResetInv ==
  ASSUME AdmissionInv, Reset
  PROVE  AdmissionInv'
<1> USE MaxConcurrentAssumption, MaxGenerationAssumption
<1>0. generation' = generation + 1 /\ generation' \in 0..MaxGeneration
  BY DEF Reset, AdmissionInv, AdmissionTypeOK
<1>1. /\ generation' = generation + 1 /\ generation' \in 0..MaxGeneration
      /\ queue' = <<>> /\ active' = 0 /\ paused' = TRUE /\ retired' = TRUE
      /\ leases' = {} /\ watchdog' = FALSE /\ aged' = {}
      /\ UNCHANGED <<bornIn, released>>
  BY <1>0 DEF Reset
<1>2. status' = [r \in Requests |-> IF \E i \in 1..Len(queue) : queue[i] = r
                                     THEN "rejected" ELSE status[r]]
  <2>1. DOMAIN queue = 1..Len(queue)
    BY DEF AdmissionInv, AdmissionTypeOK
  <2> QED
    BY <2>1 DEF Reset
<1>3. status' \in [Requests -> Status]
  BY <1>2 DEF AdmissionInv, AdmissionTypeOK, Status
<1>4. AdmissionTypeOK'
  <2>1. queue' \in Seq(Requests) /\ active' \in 0..MaxConcurrent
    BY <1>1
  <2> QED
    BY <1>1, <1>3, <2>1 DEF AdmissionInv, AdmissionTypeOK
<1>5. Consistent(queue', active', leases', status', bornIn', released', generation')
  <2>1. \A r \in Requests : status'[r] # "queued"
    BY <1>2 DEF AdmissionInv, Consistent
  <2>2. \A r \in Requests : bornIn[r] # generation'
    BY <1>1 DEF AdmissionInv, AdmissionTypeOK
  <2>3. \A r \in released : status'[r] = "granted"
    BY <1>2 DEF AdmissionInv, AdmissionTypeOK, Consistent
  <2>4. Cardinality({}) = 0
    BY FS_EmptySet
  <2> QED
    BY <1>1, <2>1, <2>2, <2>3, <2>4 DEF Consistent
<1>6. \A x \in Requests : bornIn'[x] <= generation'
  BY <1>1 DEF AdmissionInv, AdmissionTypeOK
<1> QED
  BY <1>1, <1>4, <1>5, <1>6 DEF AdmissionInv, NoIdleSlot
-----------------------------------------------------------------------------
\* The inductive step: one case per operation.
LEMMA AdmissionInvStep ==
  AdmissionInv /\ [AdmissionNext]_admissionVars => AdmissionInv'
<1> SUFFICES ASSUME AdmissionInv, [AdmissionNext]_admissionVars
             PROVE  AdmissionInv'
  OBVIOUS
<1>1. ASSUME NEW r \in Requests, AcquireRetired(r)
      PROVE  AdmissionInv'
  <2>1. /\ status[r] = "idle" /\ status' = [status EXCEPT ![r] = "rejected"]
        /\ UNCHANGED <<queue, active, paused, retired, generation, leases,
                       watchdog, aged, bornIn, released>>
    BY <1>1 DEF AcquireRetired
  <2>2. AdmissionTypeOK'
    BY <2>1 DEF AdmissionInv, AdmissionTypeOK, Status
  <2>3. Consistent(queue', active', leases', status', bornIn', released', generation')
    BY <2>1 DEF AdmissionInv, AdmissionTypeOK, Consistent
  <2> QED
    BY <2>1, <2>2, <2>3 DEF AdmissionInv, NoIdleSlot
<1>2. ASSUME NEW r \in Requests, AcquireQueued(r)
      PROVE  AdmissionInv'
  BY <1>2, AcquireQueuedInv
<1>3. ASSUME NEW r \in Requests, Release(r)
      PROVE  AdmissionInv'
  <2>1. {r} # {} /\ {r} \in SUBSET Requests
    OBVIOUS
  <2> QED
    BY <1>3, <2>1, ReleaseLeasesInv DEF Release
<1>4. ASSUME NEW r \in Requests, Age(r)
      PROVE  AdmissionInv'
  <2>1. /\ aged' \in SUBSET leases
        /\ UNCHANGED <<queue, active, paused, retired, generation, leases,
                       watchdog, status, bornIn, released>>
    BY <1>4 DEF Age, AdmissionInv, AdmissionTypeOK
  <2> QED
    BY <2>1 DEF AdmissionInv, AdmissionTypeOK, NoIdleSlot
<1>5. CASE Pause
  BY <1>5 DEF Pause, AdmissionInv, AdmissionTypeOK, NoIdleSlot
<1>6. CASE Resume
  BY <1>6, ResumeInv
<1>7. CASE Reset
  BY <1>7, ResetInv
<1>8. CASE Sweep
  <2>1. aged \in SUBSET Requests /\ aged # {}
    BY <1>8 DEF Sweep, AdmissionInv, AdmissionTypeOK
  <2>2. \A r \in aged : status[r] = "granted" /\ r \notin released
    BY DEF AdmissionInv, AdmissionTypeOK, Consistent
  <2> QED
    BY <1>8, <2>1, <2>2, ReleaseLeasesInv DEF Sweep
<1>9. CASE UNCHANGED admissionVars
  BY <1>9 DEF admissionVars, AdmissionInv, AdmissionTypeOK, NoIdleSlot
<1> QED
  BY <1>1, <1>2, <1>3, <1>4, <1>5, <1>6, <1>7, <1>8, <1>9
     DEF AdmissionNext, Acquire

\* The strengthened invariant holds in every reachable state.
THEOREM AdmissionInvariant == AdmissionSpec => []AdmissionInv
<1>1. AdmissionInit => AdmissionInv
  BY AdmissionInvInit
<1>2. AdmissionInv /\ [AdmissionNext]_admissionVars => AdmissionInv'
  BY AdmissionInvStep
<1> QED
  BY <1>1, <1>2, PTL DEF AdmissionSpec

\* The controller's variables keep their types, and the counter its range.
THEOREM AdmissionTypeCorrect == AdmissionSpec => []AdmissionTypeOK
<1>1. AdmissionInv => AdmissionTypeOK
  BY DEF AdmissionInv
<1> QED
  BY <1>1, AdmissionInvariant, PTL

\* At most maxConcurrent runs of a generation hold a lease, and the counter
\* equals the number of holders: no slot leaks, none is handed out twice.
THEOREM AdmissionLimit == AdmissionSpec => []SlotAccounting
<1>1. AdmissionInv => SlotAccounting
  BY MaxConcurrentAssumption
     DEF AdmissionInv, AdmissionTypeOK, Consistent, Holding, SlotAccounting
<1> QED
  BY <1>1, AdmissionInvariant, PTL

\* Nobody waits beside a free slot of an open controller.
THEOREM AdmissionNoIdleSlot == AdmissionSpec => []NoIdleSlot
<1>1. AdmissionInv => NoIdleSlot
  BY DEF AdmissionInv
<1> QED
  BY <1>1, AdmissionInvariant, PTL

\* A retired controller parks nobody and waiting means being queued.
THEOREM AdmissionNobodyStranded == AdmissionSpec => []NobodyStranded
<1>1. AdmissionInv => NobodyStranded
  BY DEF AdmissionInv, AdmissionTypeOK, Consistent, NobodyStranded
<1> QED
  BY <1>1, AdmissionInvariant, PTL

\* The watchdog looks after exactly the leases that occupy a slot, with its
\* timer set while there is one.
THEOREM AdmissionWatchdogCovers == AdmissionSpec => []WatchdogCovers
<1>1. AdmissionInv => WatchdogCovers
  BY DEF AdmissionInv, Consistent, Holding, WatchdogCovers
<1> QED
  BY <1>1, AdmissionInvariant, PTL
-----------------------------------------------------------------------------
(***************************************************************************)
(* The controller implements the abstract semaphore.  Its holders are the  *)
(* leases, so a run of the drain loop is a Serve from the queue and the    *)
(* leases it starts with.                                                  *)
(***************************************************************************)

\* The semaphore counts as the controller does.
LEMMA SameCardinality == \A S : Semaphore!Cardinality(S) = Cardinality(S)
  BY DEF Semaphore!Cardinality, Cardinality

\* Who holds a slot of the semaphore holds a lease under the watchdog.
LEMMA HoldersAreLeases == AdmissionInv => Holding = leases
  BY DEF AdmissionInv, Consistent, Holding

\* The first n of queue q got a slot each, n being as large as room allows.
Served(q, occ, ls, room, q2, occ2, ls2) ==
  \E n \in 0..Len(q) :
    /\ q2 = SubSeq(q, n + 1, Len(q))
    /\ ls2 = ls \cup {q[i] : i \in 1..n}
    /\ occ2 = occ + n
    /\ n <= room /\ (n = Len(q) \/ n = room)

\* That is what the loop does.
LEMMA DrainServes ==
  ASSUME NEW gen, NEW q \in Seq(Requests), NEW occ \in Nat, NEW room \in Nat,
         NEW ls \in SUBSET Requests, NEW st, NEW born, NEW rel,
         NEW q2, NEW occ2, NEW ls2, NEW st2,
         Consistent(q, occ, ls, st, born, rel, gen),
         DrainResult(q, occ, ls, st, born, gen, room, q2, occ2, ls2, st2)
  PROVE  Served(q, occ, ls, room, q2, occ2, ls2)
<1> DEFINE n == Taken(q, room, born, gen)
<1>1. /\ n \in 0..Len(q)
      /\ n <= room
      /\ n = Len(q) \/ n = room
      /\ Fresh(q, n, born, gen) = 1..n
      /\ Cardinality(Fresh(q, n, born, gen)) = n
  BY TakenFromFreshQueue DEF Consistent
<1> QED
  BY <1>1 DEF DrainResult, Served

\* A method that ends in the drain loop serves the queue it hands to the loop.
LEMMA DrainIsServe ==
  ASSUME AdmissionInv', NEW q \in Seq(Requests), NEW occ \in 0..MaxConcurrent,
         NEW ls \in SUBSET Requests, NEW st, NEW born, NEW rel,
         Consistent(q, occ, ls, st, born, rel, generation),
         Drain(q, occ, ls, st, born)
  PROVE  Semaphore!Serve(q, ls)
<1>1. /\ Holding' = leases'
      /\ active' = Cardinality(leases') /\ active' <= MaxConcurrent
  BY HoldersAreLeases, MaxConcurrentAssumption
     DEF AdmissionInv, AdmissionTypeOK, Consistent, Holding
<1>2. PICK room \in Nat :
        /\ DrainResult(q, occ, ls, st, born, generation, room,
                       queue', active', leases', status')
        /\ ~paused' => occ + room = MaxConcurrent
        /\ paused' => room = 0
  <2>1. DrainResult(q, occ, ls, st, born, generation, Room(occ),
                    queue', active', leases', status')
    BY DEF Drain, DrainResult
  <2>2. paused' => Room(occ) = 0
    BY DEF Room
  <2> QED
    BY <2>1, <2>2, RoomFits
<1>3. occ \in Nat
  BY MaxConcurrentAssumption
<1>4. PICK n \in 0..Len(q) :
        /\ queue' = SubSeq(q, n + 1, Len(q))
        /\ leases' = ls \cup {q[i] : i \in 1..n}
        /\ active' = occ + n
        /\ n <= room /\ (n = Len(q) \/ n = room)
  <2>1. Served(q, occ, ls, room, queue', active', leases')
    BY <1>2, <1>3, DrainServes
  <2> QED
    BY <2>1 DEF Served
<1>5. ~paused' => n = Len(q) \/ active' = MaxConcurrent
  BY <1>2, <1>4
<1>6. paused' => n = 0
  BY <1>2, <1>4
<1> QED
  BY <1>1, <1>4, <1>5, <1>6, SameCardinality DEF Semaphore!Serve

\* Every operation is a step of the semaphore or invisible to it.
LEMMA AdmissionStepRefines ==
  ASSUME AdmissionInv, AdmissionInv', [AdmissionNext]_admissionVars
  PROVE  [Semaphore!Next]_Semaphore!vars
<1>1. Holding = leases /\ Holding' = leases'
  BY HoldersAreLeases DEF AdmissionInv, Consistent, Holding
<1>2. /\ queue \in Seq(Requests) /\ active \in 0..MaxConcurrent
      /\ leases \in SUBSET Requests
      /\ Consistent(queue, active, leases, status, bornIn, released, generation)
  BY DEF AdmissionInv, AdmissionTypeOK
<1>3. ASSUME NEW rs \in SUBSET Requests,
             \A r \in rs : status[r] = "granted" /\ r \notin released,
             ReleaseLeases(rs)
      PROVE  [Semaphore!Next]_Semaphore!vars
  <2>1. /\ OfThisGeneration(rs) = leases \cap rs
        /\ Cardinality(OfThisGeneration(rs)) \in 0..active
        /\ Consistent(queue, active - Cardinality(OfThisGeneration(rs)), leases \ rs,
                      status, bornIn, released \cup rs, generation)
    BY <1>3, ReleaseKeepsConsistent
  <2>2. UNCHANGED <<paused, retired>>
    BY <1>3 DEF ReleaseLeases
  <2>3. CASE OfThisGeneration(rs) # {}
    <3> DEFINE back == Cardinality(OfThisGeneration(rs))
    <3>1. (IF active > back THEN active - back ELSE 0) = active - back
      BY <1>2, <2>1
    <3>2. active - back \in 0..MaxConcurrent
      BY <1>2, <2>1, MaxConcurrentAssumption
    <3>3. Drain(queue, active - back, leases \ rs, status, bornIn)
      BY <1>3, <2>3, <3>1 DEF ReleaseLeases
    <3>4. Semaphore!Serve(queue, leases \ rs)
      BY <1>2, <2>1, <3>2, <3>3, DrainIsServe
    <3>5. leases \ rs = Holding \ (leases \cap rs)
      BY <1>1
    <3>6. Semaphore!Leave(leases \cap rs)
      BY <1>1, <2>1, <2>2, <2>3, <3>4, <3>5 DEF Semaphore!Leave
    <3> QED
      BY <1>2, <3>6 DEF Semaphore!Next
  <2>4. CASE OfThisGeneration(rs) = {}
    <3>1. leases' = leases \ rs /\ queue' = queue
      BY <1>3, <2>4 DEF ReleaseLeases
    <3>2. leases' = leases
      BY <2>1, <2>4, <3>1
    <3> QED
      BY <1>1, <2>2, <3>1, <3>2 DEF Semaphore!vars
  <2> QED
    BY <2>3, <2>4
<1>4. ASSUME NEW r \in Requests, AcquireRetired(r)
      PROVE  UNCHANGED Semaphore!vars
  BY <1>1, <1>4 DEF AcquireRetired, Semaphore!vars
<1>5. ASSUME NEW r \in Requests, AcquireQueued(r)
      PROVE  Semaphore!Join(r)
  <2> DEFINE st == [status EXCEPT ![r] = "queued"]
             born == [bornIn EXCEPT ![r] = generation]
  <2>1. /\ ~retired /\ status[r] = "idle"
        /\ UNCHANGED <<paused, retired>>
        /\ Drain(Append(queue, r), active, leases, st, born)
    BY <1>5 DEF AcquireQueued, Join
  <2>2. /\ r \notin Holding
        /\ \A i \in 1..Len(queue) : queue[i] # r
    BY <2>1 DEF Holding, AdmissionInv, Consistent
  <2>3. Consistent(Append(queue, r), active, leases, st, born, released, generation)
    BY <2>1, JoinedQueueConsistent
  <2>4. Append(queue, r) \in Seq(Requests)
    BY <1>2
  <2> HIDE DEF st, born
  <2>5. Semaphore!Serve(Append(queue, r), leases)
    BY <1>2, <2>1, <2>3, <2>4, DrainIsServe
  <2> QED
    BY <1>1, <2>1, <2>2, <2>5 DEF Semaphore!Join
<1>6. ASSUME NEW r \in Requests, Release(r)
      PROVE  [Semaphore!Next]_Semaphore!vars
  BY <1>3, <1>6 DEF Release
<1>7. ASSUME NEW r \in Requests, Age(r)
      PROVE  UNCHANGED Semaphore!vars
  BY <1>1, <1>7 DEF Age, Semaphore!vars
<1>8. ASSUME Pause PROVE Semaphore!Close
  BY <1>1, <1>8 DEF Pause, Semaphore!Close
<1>9. ASSUME Resume PROVE Semaphore!Open
  <2>1. Semaphore!Serve(queue, leases)
    BY <1>2, <1>9, DrainIsServe DEF Resume
  <2> QED
    BY <1>1, <1>9, <2>1 DEF Resume, Semaphore!Open
<1>10. ASSUME Reset PROVE Semaphore!SendAway
  BY <1>1, <1>10 DEF Reset, Semaphore!SendAway
<1>11. ASSUME Sweep PROVE [Semaphore!Next]_Semaphore!vars
  <2>1. /\ aged \in SUBSET Requests
        /\ \A r \in aged : status[r] = "granted" /\ r \notin released
    BY DEF AdmissionInv, AdmissionTypeOK, Consistent
  <2> QED
    BY <1>3, <1>11, <2>1 DEF Sweep
<1>12. ASSUME UNCHANGED admissionVars PROVE UNCHANGED Semaphore!vars
  BY <1>1, <1>12 DEF admissionVars, Semaphore!vars
<1> QED
  BY <1>4, <1>5, <1>6, <1>7, <1>8, <1>9, <1>10, <1>11, <1>12
     DEF AdmissionNext, Acquire, Semaphore!Next

\* The controller is a FIFO semaphore with a gate to everybody who uses it:
\* nobody overtakes, a free slot is handed on at once, a paused controller
\* admits nobody and a reset leaves nobody in the queue.
THEOREM AdmissionImplementsSemaphore == AdmissionSpec => ImplementsSemaphore
<1>1. AdmissionInit => Semaphore!Init
  BY DEF AdmissionInit, Semaphore!Init, Holding
<1>2. AdmissionInv /\ AdmissionInv' /\ [AdmissionNext]_admissionVars
        => [Semaphore!Next]_Semaphore!vars
  BY AdmissionStepRefines
<1> QED
  BY <1>1, <1>2, AdmissionInvariant, PTL
     DEF AdmissionSpec, ImplementsSemaphore, Semaphore!Spec

\* Serving a queue keeps everybody in one place, and leaves nobody in the queue
\* beside a free slot.
LEMMA ServeKeepsPromise ==
  ASSUME NEW w \in Seq(Requests), NEW h, Semaphore!OnePlace(w, h),
         Semaphore!Serve(w, h), ~retired'
  PROVE  Semaphore!Promise'
<1>1. PICK n \in 0..Len(w) :
        /\ queue' = SubSeq(w, n + 1, Len(w))
        /\ Holding' = h \cup {w[i] : i \in 1..n}
        /\ Cardinality(Holding') <= MaxConcurrent
        /\ IF ~paused' THEN n = Len(w) \/ Cardinality(Holding') = MaxConcurrent
                       ELSE n = 0
  BY SameCardinality DEF Semaphore!Serve
<1>2. /\ Len(w) \in Nat
      /\ queue' \in Seq(Requests)
      /\ Len(queue') = Len(w) - n
      /\ \A i \in 1..Len(queue') : n + i \in 1..Len(w) /\ queue'[i] = w[n + i]
  BY <1>1
<1>3. ASSUME NEW i \in 1..Len(queue'), NEW j \in 1..Len(queue'),
             queue'[i] = queue'[j]
      PROVE  i = j
  <2>1. n + i = n + j
    BY <1>2, <1>3 DEF Semaphore!OnePlace
  <2> QED BY <2>1, <1>2
<1>4. ASSUME NEW i \in 1..Len(queue') PROVE queue'[i] \notin Holding'
  <2>1. w[n + i] \notin h
    BY <1>2 DEF Semaphore!OnePlace
  <2>2. ASSUME NEW j \in 1..n PROVE w[n + i] # w[j]
    <3>1. j \in 1..Len(w) /\ n + i # j
      BY <1>2
    <3> QED BY <1>2, <3>1 DEF Semaphore!OnePlace
  <2> QED BY <1>1, <1>2, <2>1, <2>2
<1>5. n = Len(w) => queue' = <<>>
  BY <1>2
<1> QED
  BY <1>1, <1>2, <1>3, <1>4, <1>5, SameCardinality
  DEF Semaphore!Promise, Semaphore!OnePlace

\* What the abstract semaphore guarantees by itself, and so whatever implements
\* it: its promise needs no counter, lease or timer of the controller.
THEOREM SemaphoreKeepsPromise == ImplementsSemaphore => []Semaphore!Promise
<1>1. Semaphore!Init => Semaphore!Promise
  <2> SUFFICES ASSUME Semaphore!Init PROVE Semaphore!Promise
    OBVIOUS
  <2>1. queue = <<>> /\ Holding = {} /\ ~retired
    BY DEF Semaphore!Init
  <2>2. Cardinality(Holding) = 0
    BY <2>1, FS_EmptySet
  <2> QED
    BY <2>1, <2>2, MaxConcurrentAssumption, SameCardinality
    DEF Semaphore!Promise, Semaphore!OnePlace
<1>2. Semaphore!Promise /\ [Semaphore!Next]_(Semaphore!vars)
        => Semaphore!Promise'
  <2> SUFFICES ASSUME Semaphore!Promise, [Semaphore!Next]_(Semaphore!vars)
               PROVE  Semaphore!Promise'
    OBVIOUS
  <2>0. queue \in Seq(Requests) /\ Semaphore!OnePlace(queue, Holding)
    BY DEF Semaphore!Promise
  <2>1. ASSUME NEW c \in Requests, Semaphore!Join(c)
        PROVE  Semaphore!Promise'
    <3>1. /\ c \notin Holding
          /\ \A i \in 1..Len(queue) : queue[i] # c
          /\ ~retired'
          /\ Semaphore!Serve(Append(queue, c), Holding)
      BY <2>1 DEF Semaphore!Join
    <3>2. Append(queue, c) \in Seq(Requests)
      BY <2>0
    <3>3. Semaphore!OnePlace(Append(queue, c), Holding)
      BY <2>0, <3>1 DEF Semaphore!OnePlace
    <3> QED BY <3>1, <3>2, <3>3, ServeKeepsPromise
  <2>2. ASSUME NEW S \in SUBSET Requests, Semaphore!Leave(S)
        PROVE  Semaphore!Promise'
    <3>1. ~retired' /\ Semaphore!Serve(queue, Holding \ S)
      BY <2>2 DEF Semaphore!Leave, Semaphore!Promise
    <3>2. Semaphore!OnePlace(queue, Holding \ S)
      BY <2>0 DEF Semaphore!OnePlace
    <3> QED BY <2>0, <3>1, <3>2, ServeKeepsPromise
  <2>3. CASE Semaphore!Close
    BY <2>3 DEF Semaphore!Close, Semaphore!Promise, Semaphore!OnePlace
  <2>4. CASE Semaphore!Open
    BY <2>0, <2>4, ServeKeepsPromise DEF Semaphore!Open
  <2>5. CASE Semaphore!SendAway
    <3>1. queue' = <<>> /\ Holding' = {}
      BY <2>5 DEF Semaphore!SendAway
    <3>2. Cardinality(Holding') = 0
      BY <3>1, FS_EmptySet
    <3> QED
      BY <3>1, <3>2, MaxConcurrentAssumption, SameCardinality
      DEF Semaphore!Promise, Semaphore!OnePlace
  <2>6. CASE UNCHANGED Semaphore!vars
    BY <2>6 DEF Semaphore!vars, Semaphore!Promise, Semaphore!OnePlace
  <2> QED BY <2>1, <2>2, <2>3, <2>4, <2>5, <2>6 DEF Semaphore!Next
<1> QED BY <1>1, <1>2, PTL DEF ImplementsSemaphore, Semaphore!Spec
=============================================================================
