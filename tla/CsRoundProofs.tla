---------------------------- MODULE CsRoundProofs ----------------------------
(***************************************************************************)
(* Theorems about CsRound for every set of messages and number of calls.   *)
(*                                                                         *)
(* As long as no round lost its unfinished run, to another run or to the   *)
(* disposal of a round that had it before, each call that is on its way or *)
(* whose run goes on has a round of its own to itself: the round's active  *)
(* run is the call's.  From this and the markers of aborted runs follows   *)
(* which runs may speak.                                                   *)
(***************************************************************************)
EXTENDS CsRound, TLAPS

Rounds == [run : RunIds, aborted : SUBSET RunIds, tracked : SUBSET Calls,
           dispose : BOOLEAN, attempts : 0..1]
CallRecords == [kind : Kinds, msg : SUBSET Msgs, at : Places, rnd : {0} \cup Calls]

\* The calls on their way to a run, by a placeholder.
OnItsWay(c) == call[c].at \in {"quiet", "preparing", "asked"} /\ call[c].kind # "operator"

\* Rounds are named for calls that were made, an operator's once it has been
\* answered.
Used(c) == call[c].at # "unused"
Named(c) == Used(c) /\ (call[c].at = "asked" => call[c].kind # "operator")
FreshInv ==
  /\ pending # 0 => call[pending].at = "quiet"
  /\ active # 0 => Named(active)
  /\ \A c \in Calls :
       /\ owner[c] # 0 => Named(owner[c])
       /\ call[c].rnd # 0 => Named(call[c].rnd) /\ Used(c)
       /\ call[c].kind \in {"buyer", "recovery"} => call[c].rnd # 0
       /\ call[c].at \in {"quiet", "preparing"} => call[c].kind = "buyer" /\ call[c].rnd = c
       /\ call[c].kind = "none" <=> ~Used(c)
       /\ ~Used(c) => call[c].rnd = 0 /\ round[c].attempts = 0

\* Each call on its way and each unfinished run has its round to itself.
HomeInv ==
  /\ pending # 0 => active = pending
  /\ \A c \in Calls : OnItsWay(c) =>
       call[c].rnd # 0 /\ round[call[c].rnd].run = Placeholder(c)
  /\ \A c \in Calls : call[c].at = "registered" =>
       /\ call[c].rnd # 0 /\ owner[c] = call[c].rnd
       /\ round[call[c].rnd].run = Run(c)
  /\ \A R, c \in Calls :
       /\ c \in round[R].tracked => call[c].at \in {"registered", "done"}
       /\ round[R].run = Run(c) => call[c].at \in {"registered", "done"}
       /\ round[R].run = Placeholder(c) => Named(c) /\ (OnItsWay(c) => call[c].rnd = R)

\* What became of the calls that a buyer message came after.
MarkedInv ==
  /\ \A c \in Calls : call[c].at = "registered" /\ call[c].rnd # active
       => Run(c) \in round[call[c].rnd].aborted
  /\ \A c \in superseded :
       /\ c \in Calls /\ Named(c)
       /\ OnItsWay(c) => Placeholder(c) \in round[call[c].rnd].aborted
       /\ call[c].at = "registered" => Run(c) \in round[call[c].rnd].aborted
  /\ \A c \in Calls : call[c].at \in {"quiet", "preparing"} /\ c \notin overtaken
       => active = c
  /\ bailed \subseteq overtaken

\* Is round r named in the next state, r being one of that state's rounds?
NamedNext(r) == call'[r].at # "unused" /\ (call'[r].at = "asked" => call'[r].kind # "operator")

RoundInv ==
  /\ TypeOK
  /\ FreshInv
  /\ ~shared => HomeInv /\ MarkedInv
-----------------------------------------------------------------------------
\* Run ids of different calls or kinds differ.
LEMMA RunIdsDiffer ==
  /\ \A c : Placeholder(c) # NoRun /\ Run(c) # NoRun
  /\ \A c, d : Placeholder(c) # Run(d)
  /\ \A c, d : Placeholder(c) = Placeholder(d) => c = d
  /\ \A c, d : Run(c) = Run(d) => c = d
BY DEF Placeholder, Run, NoRun

\* They are among the run ids of the types.
LEMMA RunIdsTyped ==
  /\ NoRun \in RunIds
  /\ \A c \in Calls : Placeholder(c) \in RunIds /\ Run(c) \in RunIds
BY DEF RunIds

LEMMA NoZero == 0 \notin Calls
BY RoundBoundsAssumption DEF Calls

LEMMA RoundInvInit == Init => RoundInv
<1> SUFFICES ASSUME Init PROVE RoundInv
  OBVIOUS
<1>1. /\ \A c \in Calls : call[c] = NotUsed
      /\ \A c \in Calls : round[c] = NewRound(NoRun)
  BY DEF Init
<1>2. NewRound(NoRun) \in Rounds /\ NotUsed \in CallRecords
  BY RunIdsTyped DEF NewRound, Rounds, NotUsed, CallRecords, Kinds, Places
<1>3. TypeOK
  BY <1>2 DEF Init, TypeOK, Rounds, CallRecords
<1>4. FreshInv
  BY <1>1 DEF Init, FreshInv, Used, Named, NotUsed, NewRound
<1>5. HomeInv /\ MarkedInv
  BY <1>1, RunIdsDiffer DEF Init, HomeInv, MarkedInv, OnItsWay, NotUsed, NewRound
<1> QED
  BY <1>3, <1>4, <1>5 DEF RoundInv
-----------------------------------------------------------------------------
(***************************************************************************)
(* Types.                                                                  *)
(***************************************************************************)

\* TypeOK, with its records named.
LEMMA TypeOKIs ==
  TypeOK <=> /\ pending \in {0} \cup Calls /\ active \in {0} \cup Calls
             /\ round \in [Calls -> Rounds]
             /\ owner \in [Calls -> {0} \cup Calls]
             /\ call \in [Calls -> CallRecords]
             /\ deliveries \subseteq Calls
BY DEF TypeOK, Rounds, CallRecords

\* What the methods of a round make of it is a round.
LEMMA RoundMethods ==
  ASSUME NEW r \in Rounds
  PROVE  /\ NewRound(NoRun) \in Rounds
         /\ \A c \in Calls : NewRound(Placeholder(c)) \in Rounds
         /\ Destroyed(r) \in Rounds /\ Aborted(r) \in Rounds
         /\ \A c \in Calls : Cleared(r, c) \in Rounds
         /\ Terminal(r) \in Rounds /\ Delivery(r) \in Rounds
         /\ \A c, d \in Calls, owns \in BOOLEAN : Resolved(r, c, d, owns) \in Rounds
         /\ r.attempts > 0 => [r EXCEPT !.attempts = @ - 1] \in Rounds
<1>1. /\ NewRound(NoRun) \in Rounds
      /\ \A c \in Calls : NewRound(Placeholder(c)) \in Rounds
  BY RunIdsTyped DEF NewRound, Rounds
<1>2. Destroyed(r) \in Rounds
  BY RunIdsTyped DEF Destroyed, NewRound, Rounds
<1>3. Aborted(r) \in Rounds
  BY DEF Aborted, Rounds
<1>4. ASSUME NEW c \in Calls PROVE Cleared(r, c) \in Rounds
  BY RunIdsTyped DEF Cleared, Rounds
<1>5. Terminal(r) \in Rounds /\ Delivery(r) \in Rounds
  <2>1. \A q \in Rounds : Terminal(q) \in Rounds
    BY DEF Terminal, Rounds
  <2>2. \A q \in Rounds : [q EXCEPT !.attempts = 0] \in Rounds
    BY DEF Rounds
  <2> QED
    BY <2>1, <2>2 DEF Delivery
<1>6. ASSUME NEW c \in Calls, NEW d \in Calls, NEW owns \in BOOLEAN
      PROVE  Resolved(r, c, d, owns) \in Rounds
  <2> DEFINE marks == IF Placeholder(c) \in r.aborted \/ ~owns \/ r.run # Placeholder(c)
                      THEN {Run(d)} ELSE {}
  <2>1. /\ Run(d) \in RunIds /\ marks \subseteq RunIds
        /\ r.aborted \subseteq RunIds /\ r.tracked \subseteq Calls
    BY RunIdsTyped DEF Rounds
  <2> HIDE DEF marks
  <2>2. [r EXCEPT !.run = IF @ = Placeholder(c) THEN Run(d) ELSE @,
                  !.tracked = @ \cup {d},
                  !.aborted = (@ \ {Placeholder(c)}) \cup marks] \in Rounds
    BY <2>1 DEF Rounds
  <2> QED
    BY <2>2 DEF Resolved, marks
<1>7. r.attempts > 0 => [r EXCEPT !.attempts = @ - 1] \in Rounds
  BY DEF Rounds
<1> QED
  BY <1>1, <1>2, <1>3, <1>4, <1>5, <1>6, <1>7

\* What disposeRound() does, if it does anything.
LEMMA SettleDoes ==
  ASSUME TypeOK, NEW R \in Calls, NEW r \in Rounds, NEW own \in [Calls -> {0} \cup Calls],
         NEW now, Settle(R, r, own, now)
  PROVE  /\ round' \in [Calls -> Rounds] /\ owner' \in [Calls -> {0} \cup Calls]
         /\ active' \in {0, now}
         /\ shared => shared'
         /\ \A c \in Calls : owner'[c] \in {0, own[c]}
         /\ \A c \in Calls : c # R => round'[c] = round[c]
         /\ \/ /\ round'[R] = r /\ owner' = own /\ active' = now
            \/ /\ round'[R] = Destroyed(r) /\ r.run = NoRun
               /\ Robs(R, r, own) => shared'
               /\ \A c \in Calls : c \notin r.tracked => owner'[c] = own[c]
               /\ now # R => active' = now
               /\ now = R => active' = 0
<1> USE TypeOKIs
<1>1. CASE r.dispose /\ r.run = NoRun
  <2>1. /\ round' = [round EXCEPT ![R] = Destroyed(r)]
        /\ owner' = [c \in Calls |-> IF c \in r.tracked THEN 0 ELSE own[c]]
        /\ active' = IF now = R THEN 0 ELSE now
        /\ shared' = (shared \/ Robs(R, r, own))
    BY <1>1 DEF Settle
  <2>2. Destroyed(r) \in Rounds
    BY RoundMethods
  <2> QED
    BY <1>1, <2>1, <2>2
<1>2. CASE ~(r.dispose /\ r.run = NoRun)
  <2>1. /\ round' = [round EXCEPT ![R] = r] /\ owner' = own /\ active' = now
        /\ shared' = shared
    BY <1>2 DEF Settle
  <2> QED
    BY <2>1
<1> QED
  BY <1>1, <1>2

\* What they do to the active run, the markers and the tracked runs.
LEMMA RoundFields ==
  ASSUME NEW r \in Rounds
  PROVE  /\ Destroyed(r).run = NoRun /\ Destroyed(r).aborted = {}
         /\ Destroyed(r).tracked = {} /\ Destroyed(r).attempts = 0
         /\ Aborted(r).run = r.run /\ Aborted(r).tracked = r.tracked
         /\ Aborted(r).attempts = r.attempts
         /\ Aborted(r).aborted = IF r.run = NoRun THEN r.aborted ELSE r.aborted \cup {r.run}
         /\ Terminal(r).run = r.run /\ Terminal(r).tracked = r.tracked
         /\ Terminal(r).attempts = r.attempts /\ Terminal(r).aborted = r.aborted
         /\ Delivery(r).run = r.run /\ Delivery(r).tracked = r.tracked
         /\ Delivery(r).aborted = r.aborted
         /\ \A c \in Calls :
              /\ Cleared(r, c).run = IF r.run = Placeholder(c) THEN NoRun ELSE r.run
              /\ Cleared(r, c).tracked = r.tracked /\ Cleared(r, c).aborted = r.aborted
              /\ Cleared(r, c).attempts = r.attempts
<1>1. /\ Destroyed(r).run = NoRun /\ Destroyed(r).aborted = {}
      /\ Destroyed(r).tracked = {} /\ Destroyed(r).attempts = 0
  BY DEF Destroyed, NewRound
<1>2. /\ Aborted(r).run = r.run /\ Aborted(r).tracked = r.tracked
      /\ Aborted(r).attempts = r.attempts
      /\ Aborted(r).aborted = IF r.run = NoRun THEN r.aborted ELSE r.aborted \cup {r.run}
  BY DEF Aborted, Rounds
<1>3. \A q \in Rounds : /\ Terminal(q).run = q.run /\ Terminal(q).tracked = q.tracked
                        /\ Terminal(q).attempts = q.attempts /\ Terminal(q).aborted = q.aborted
                        /\ Terminal(q) \in Rounds
  BY DEF Terminal, Rounds
<1>4. /\ Delivery(r).run = r.run /\ Delivery(r).tracked = r.tracked
      /\ Delivery(r).aborted = r.aborted
  <2>1. \A q \in Rounds : /\ [q EXCEPT !.attempts = 0].run = q.run
                          /\ [q EXCEPT !.attempts = 0].tracked = q.tracked
                          /\ [q EXCEPT !.attempts = 0].aborted = q.aborted
    BY DEF Rounds
  <2> QED
    BY <1>3, <2>1 DEF Delivery
<1>5. ASSUME NEW c \in Calls
      PROVE  /\ Cleared(r, c).run = IF r.run = Placeholder(c) THEN NoRun ELSE r.run
             /\ Cleared(r, c).tracked = r.tracked /\ Cleared(r, c).aborted = r.aborted
             /\ Cleared(r, c).attempts = r.attempts
  BY DEF Cleared, Rounds
<1> QED
  BY <1>1, <1>2, <1>3, <1>4, <1>5

\* markDispatchResolved() of call c, answered with run d, in round r, which
\* the call owns or not.
LEMMA ResolvedFields ==
  ASSUME NEW r \in Rounds, NEW c \in Calls, NEW d \in Calls, NEW owns \in BOOLEAN
  PROVE  /\ Resolved(r, c, d, owns).run = IF r.run = Placeholder(c) THEN Run(d) ELSE r.run
         /\ Resolved(r, c, d, owns).tracked = r.tracked \cup {d}
         /\ r.aborted \ {Placeholder(c)} \subseteq Resolved(r, c, d, owns).aborted
         /\ Placeholder(c) \in r.aborted \/ ~owns
              => Run(d) \in Resolved(r, c, d, owns).aborted
         /\ Resolved(r, c, d, owns).attempts = r.attempts
<1> DEFINE marks == IF Placeholder(c) \in r.aborted \/ ~owns \/ r.run # Placeholder(c)
                    THEN {Run(d)} ELSE {}
           q == [r EXCEPT !.run = IF @ = Placeholder(c) THEN Run(d) ELSE @,
                          !.tracked = @ \cup {d},
                          !.aborted = (@ \ {Placeholder(c)}) \cup marks]
<1>1. Placeholder(c) \in r.aborted \/ ~owns => marks = {Run(d)}
  OBVIOUS
<1>2. q = Resolved(r, c, d, owns)
  BY DEF Resolved
<1> HIDE DEF marks
<1>3. /\ q.run = IF r.run = Placeholder(c) THEN Run(d) ELSE r.run
      /\ q.tracked = r.tracked \cup {d}
      /\ q.aborted = (r.aborted \ {Placeholder(c)}) \cup marks
      /\ q.attempts = r.attempts
  BY DEF Rounds
<1> QED
  BY <1>1, <1>2, <1>3
-----------------------------------------------------------------------------
(***************************************************************************)
(* Steps that end calls and may dispose of a round.                        *)
(***************************************************************************)

\* A call that is not ended stays as it is.
OnlyEnds ==
  \A d \in Calls : \/ call'[d] = call[d]
                   \/ /\ call'[d].at = "done" /\ call'[d].kind = call[d].kind
                      /\ call'[d].rnd = call[d].rnd
                      /\ call[d].at \notin {"unused", "quiet"}

\* Calls that end and a round that goes leave the other calls their rounds.
LEMMA EndsKeep ==
  ASSUME TypeOK, TypeOK', FreshInv, HomeInv, MarkedInv,
         UNCHANGED <<pending, superseded, overtaken>>, bailed' \subseteq overtaken,
         OnlyEnds, NEW R \in Calls,
         \A Q \in Calls : Q # R => round'[Q] = round[Q],
         round'[R].run \in {NoRun, round[R].run},
         round'[R].tracked \subseteq round[R].tracked,
         \A d \in Calls : call'[d] = call[d] /\ call[d].rnd = R
                            /\ (OnItsWay(d) \/ call[d].at = "registered") =>
           /\ round'[R].run = round[R].run
           /\ Placeholder(d) \in round[R].aborted => Placeholder(d) \in round'[R].aborted
           /\ Run(d) \in round[R].aborted => Run(d) \in round'[R].aborted
           /\ active' = active,
         active' # active => active = R \/ active = 0,
         \A d \in Calls : call'[d].at = "registered" => owner'[d] = owner[d]
  PROVE  HomeInv' /\ MarkedInv'
<1> USE TypeOKIs, NoZero
<1>1. \A d \in Calls :
        /\ OnItsWay(d)' => OnItsWay(d) /\ call'[d] = call[d]
        /\ call'[d].at = "registered" => call[d].at = "registered" /\ call'[d] = call[d]
        /\ call'[d].at \in {"quiet", "preparing"} => call'[d] = call[d]
        /\ Named(d) => Named(d)'
        /\ call'[d].kind = call[d].kind /\ call'[d].rnd = call[d].rnd
  BY DEF OnlyEnds, OnItsWay, Used, Named
<1>2. /\ \A d \in Calls : OnItsWay(d) => call[d].rnd # 0
      /\ \A d \in Calls : call[d].at = "registered" => call[d].rnd # 0
      /\ \A d \in Calls : call[d].rnd \in {0} \cup Calls
  BY DEF HomeInv, CallRecords
<1>3. ASSUME pending' # 0 PROVE active' = pending'
  <2>1. /\ active = pending /\ call[pending].at = "quiet" /\ pending \in Calls
        /\ call'[pending] = call[pending]
    BY <1>3 DEF HomeInv, FreshInv, OnlyEnds
  <2>2. OnItsWay(pending) /\ call[pending].rnd = pending
    BY <2>1 DEF FreshInv, OnItsWay
  <2>3. active # R \/ active' = active
    BY <1>3, <2>1, <2>2
  <2> QED
    BY <1>3, <2>1, <2>3
<1>4. ASSUME NEW c \in Calls, OnItsWay(c)'
      PROVE  call'[c].rnd # 0 /\ round'[call'[c].rnd].run = Placeholder(c)
  BY <1>1, <1>2, <1>4 DEF HomeInv
<1>5. ASSUME NEW c \in Calls, call'[c].at = "registered"
      PROVE  /\ call'[c].rnd # 0 /\ owner'[c] = call'[c].rnd
             /\ round'[call'[c].rnd].run = Run(c)
  BY <1>1, <1>2, <1>5 DEF HomeInv
<1>6. ASSUME NEW c \in Calls, call[c].at \in {"registered", "done"}
      PROVE  call'[c].at \in {"registered", "done"}
  BY <1>6 DEF OnlyEnds
<1>7. ASSUME NEW Q \in Calls, NEW c \in Calls
      PROVE  /\ c \in round'[Q].tracked => call'[c].at \in {"registered", "done"}
             /\ round'[Q].run = Run(c) => call'[c].at \in {"registered", "done"}
             /\ round'[Q].run = Placeholder(c) =>
                  Named(c)' /\ (OnItsWay(c)' => call'[c].rnd = Q)
  <2>1. round'[Q].run = NoRun \/ round'[Q].run = round[Q].run
    OBVIOUS
  <2>2. ASSUME c \in round'[Q].tracked \/ round'[Q].run = Run(c)
        PROVE  call'[c].at \in {"registered", "done"}
    <3>1. c \in round[Q].tracked \/ round[Q].run = Run(c)
      BY <2>1, <2>2, RunIdsDiffer
    <3>2. call[c].at \in {"registered", "done"}
      BY <3>1 DEF HomeInv
    <3> QED
      BY <1>6, <3>2
  <2>3. ASSUME round'[Q].run = Placeholder(c)
        PROVE  Named(c)' /\ (OnItsWay(c)' => call'[c].rnd = Q)
    <3>1. round[Q].run = Placeholder(c)
      BY <2>1, <2>3, RunIdsDiffer
    <3>2. Named(c) /\ (OnItsWay(c) => call[c].rnd = Q)
      BY <3>1 DEF HomeInv
    <3> QED
      BY <1>1, <3>2
  <2> QED
    BY <2>2, <2>3
<1>8. HomeInv'
  BY <1>3, <1>4, <1>5, <1>7 DEF HomeInv
<1>9. ASSUME NEW c \in Calls, call'[c].at = "registered", call'[c].rnd # active'
      PROVE  Run(c) \in round'[call'[c].rnd].aborted
  <2>1. call[c].at = "registered" /\ call'[c] = call[c] /\ call[c].rnd \in Calls
    BY <1>1, <1>2, <1>9
  <2>2. call[c].rnd # active
    BY <1>9, <2>1
  <2> QED
    BY <2>1, <2>2 DEF MarkedInv
<1>10. ASSUME NEW c \in superseded'
       PROVE  /\ c \in Calls /\ Named(c)'
              /\ OnItsWay(c)' => Placeholder(c) \in round'[call'[c].rnd].aborted
              /\ call'[c].at = "registered" => Run(c) \in round'[call'[c].rnd].aborted
  <2>1. /\ c \in Calls /\ Named(c)
        /\ OnItsWay(c) => Placeholder(c) \in round[call[c].rnd].aborted
        /\ call[c].at = "registered" => Run(c) \in round[call[c].rnd].aborted
    BY DEF MarkedInv
  <2> QED
    BY <1>1, <1>2, <2>1
<1>11. ASSUME NEW c \in Calls, call'[c].at \in {"quiet", "preparing"}, c \notin overtaken'
       PROVE  active' = c
  <2>1. call'[c] = call[c] /\ active = c
    BY <1>1, <1>11 DEF MarkedInv
  <2>2. OnItsWay(c) /\ call[c].rnd = c
    BY <1>11, <2>1 DEF FreshInv, OnItsWay
  <2> QED
    BY <2>1, <2>2
<1>12. MarkedInv'
  BY <1>9, <1>10, <1>11 DEF MarkedInv
<1> QED
  BY <1>8, <1>12

\* A round R that becomes r keeps the run of each call that goes on in it, and
\* the markers of that run; own and now keep the entry of each run that goes on
\* and the active round.
KeepsHomes(R, r, own, now) ==
  /\ r.run \in {NoRun, round[R].run} /\ r.tracked = round[R].tracked
  /\ \A d \in Calls : call'[d] = call[d] /\ call[d].rnd = R
                        /\ (OnItsWay(d) \/ call[d].at = "registered") =>
       /\ r.run = round[R].run
       /\ Placeholder(d) \in round[R].aborted => Placeholder(d) \in r.aborted
       /\ Run(d) \in round[R].aborted => Run(d) \in r.aborted
       /\ now = active
  /\ \A d \in Calls : call'[d].at = "registered" => own[d] = owner[d]

LEMMA SettleKeeps ==
  ASSUME RoundInv, NEW R \in Calls, Named(R), NEW r \in Rounds,
         NEW own \in [Calls -> {0} \cup Calls],
         NEW now, now = active \/ (active = 0 /\ now = R), Settle(R, r, own, now),
         call' \in [Calls -> CallRecords], deliveries' \subseteq Calls,
         UNCHANGED <<pending, superseded, overtaken, bailed>>,
         OnlyEnds,
         \A c \in Calls : own[c] # 0 => Named(own[c]),
         ~shared => KeepsHomes(R, r, own, now)
  PROVE  RoundInv'
<1>1. TypeOK /\ FreshInv
  BY DEF RoundInv
<1>2. /\ round' \in [Calls -> Rounds] /\ owner' \in [Calls -> {0} \cup Calls]
      /\ active' \in {0, now} /\ (shared => shared')
      /\ \A c \in Calls : owner'[c] \in {0, own[c]}
      /\ \A c \in Calls : c # R => round'[c] = round[c]
      /\ \/ /\ round'[R] = r /\ owner' = own /\ active' = now
         \/ /\ round'[R] = Destroyed(r) /\ r.run = NoRun
            /\ Robs(R, r, own) => shared'
            /\ \A c \in Calls : c \notin r.tracked => owner'[c] = own[c]
            /\ now # R => active' = now
            /\ now = R => active' = 0
  BY <1>1, SettleDoes
<1>3. TypeOK'
  <2>1. pending' \in {0} \cup Calls /\ active' \in {0} \cup Calls
    BY <1>1, <1>2, TypeOKIs
  <2> QED
    BY <1>2, <2>1 DEF TypeOK, Rounds, CallRecords
<1>4. FreshInv'
  <2>1. \A d \in Calls : /\ Used(d)' <=> Used(d)
                         /\ Named(d) => NamedNext(d)
                         /\ call'[d].kind = call[d].kind /\ call'[d].rnd = call[d].rnd
                         /\ call'[d].at \in {"unused", "quiet", "preparing"} => call'[d] = call[d]
    BY DEF OnlyEnds, Used, Named, NamedNext
  <2>2. \A d \in Calls : call'[d].rnd \in {0} \cup Calls /\ pending \in {0} \cup Calls
                         /\ active \in {0} \cup Calls /\ own[d] \in {0} \cup Calls
    BY <1>1, TypeOKIs DEF CallRecords
  <2>3. pending # 0 => call'[pending] = call[pending]
    BY <1>1, TypeOKIs DEF FreshInv, OnlyEnds
  <2>4. \A d \in Calls : ~Used(d) => round'[d].attempts = 0
    BY <1>1, <1>2 DEF FreshInv, Named
  <2>5. \A d \in Calls : owner'[d] # 0 => NamedNext(owner'[d])
    BY <1>2, <2>1, <2>2
  <2>6. active' # 0 => NamedNext(active')
    BY <1>1, <1>2, <2>1, <2>2 DEF FreshInv
  <2>7. pending' # 0 => call'[pending'].at = "quiet"
    BY <1>1, <2>3 DEF FreshInv
  <2>8. ASSUME NEW d \in Calls
        PROVE  /\ call'[d].rnd # 0 => NamedNext(call'[d].rnd) /\ Used(d)'
               /\ call'[d].kind \in {"buyer", "recovery"} => call'[d].rnd # 0
               /\ call'[d].kind = "none" <=> ~Used(d)'
               /\ ~Used(d)' => call'[d].rnd = 0
    BY <1>1, <2>1, <2>2 DEF FreshInv
  <2>9. \A d \in Calls : call'[d].at \in {"quiet", "preparing"} =>
          call'[d].kind = "buyer" /\ call'[d].rnd = d
    BY <1>1, <2>1 DEF FreshInv
  <2> QED
    BY <2>1, <2>4, <2>5, <2>6, <2>7, <2>8, <2>9 DEF FreshInv, Used, Named, NamedNext
<1>5. ASSUME ~shared' PROVE HomeInv' /\ MarkedInv'
  <2>1. HomeInv /\ MarkedInv /\ KeepsHomes(R, r, own, now)
    BY <1>2, <1>5 DEF RoundInv
  <2>2. bailed' \subseteq overtaken
    BY <2>1 DEF MarkedInv
  <2>3. /\ round'[R].run \in {NoRun, round[R].run}
        /\ round'[R].tracked \subseteq round[R].tracked
    <3>1. /\ r.run \in {NoRun, round[R].run} /\ r.tracked = round[R].tracked
          /\ round'[R] = r \/ round'[R] = Destroyed(r)
      BY <1>2, <2>1 DEF KeepsHomes
    <3>2. Destroyed(r).run = NoRun /\ Destroyed(r).tracked = {}
      BY RoundFields
    <3> QED
      BY <3>1, <3>2
  <2>4. ASSUME NEW d \in Calls, call'[d] = call[d], call[d].rnd = R,
               OnItsWay(d) \/ call[d].at = "registered"
        PROVE  /\ round'[R].run = round[R].run
               /\ Placeholder(d) \in round[R].aborted => Placeholder(d) \in round'[R].aborted
               /\ Run(d) \in round[R].aborted => Run(d) \in round'[R].aborted
               /\ active' = active
    <3>1. round[R].run # NoRun
      BY <2>1, <2>4, RunIdsDiffer DEF HomeInv
    <3>2. /\ r.run = round[R].run /\ now = active
          /\ Placeholder(d) \in round[R].aborted => Placeholder(d) \in r.aborted
          /\ Run(d) \in round[R].aborted => Run(d) \in r.aborted
      BY <2>1, <2>4 DEF KeepsHomes
    <3>3. round'[R] = r /\ active' = active
      BY <1>2, <3>1, <3>2
    <3> QED
      BY <3>2, <3>3
  <2>5. active' # active => active = R \/ active = 0
    BY <1>2
  <2>6. ASSUME NEW d \in Calls, call'[d].at = "registered" PROVE owner'[d] = owner[d]
    <3>1. own[d] = owner[d] /\ call[d].at = "registered" /\ call'[d] = call[d]
      BY <2>1, <2>6 DEF OnlyEnds, KeepsHomes
    <3>2. owner[d] = call[d].rnd /\ round[call[d].rnd].run = Run(d)
      BY <2>1, <3>1 DEF HomeInv
    <3>3. CASE round'[R] = r /\ owner' = own
      BY <3>1, <3>3
    <3>4. CASE round'[R] = Destroyed(r) /\ r.run = NoRun /\ ~Robs(R, r, own)
      <4>1. call[d].rnd # R
        BY <2>1, <2>6, <3>1, <3>2, <3>4, RunIdsDiffer DEF KeepsHomes
      <4>2. d \notin r.tracked
        BY <3>1, <3>2, <3>4, <4>1 DEF Robs
      <4> QED
        BY <1>2, <3>1, <4>2
    <3> QED
      BY <1>2, <1>5, <3>3, <3>4
  <2>7. UNCHANGED <<pending, superseded, overtaken>>
    OBVIOUS
  <2>8. \A Q \in Calls : Q # R => round'[Q] = round[Q]
    BY <1>2
  <2> QED
    BY <1>1, <1>3, <2>1, <2>2, <2>3, <2>4, <2>5, <2>6, <2>7, <2>8, EndsKeep
<1> QED
  BY <1>3, <1>4, <1>5 DEF RoundInv

\* A call that ends.
LEMMA CallEnds ==
  ASSUME RoundInv, NEW c \in Calls, call[c].at \in {"preparing", "asked", "registered"},
         call' = [call EXCEPT ![c].at = "done"]
  PROVE  /\ call' \in [Calls -> CallRecords] /\ OnlyEnds
         /\ call'[c].at = "done"
         /\ \A d \in Calls : d # c => call'[d] = call[d]
<1>1. call \in [Calls -> CallRecords] /\ pending \in {0} \cup Calls
  BY TypeOKIs DEF RoundInv
<1>2. \A q \in CallRecords : /\ [q EXCEPT !.at = "done"] \in CallRecords
                             /\ [q EXCEPT !.at = "done"].at = "done"
                             /\ [q EXCEPT !.at = "done"].kind = q.kind
                             /\ [q EXCEPT !.at = "done"].rnd = q.rnd
  BY DEF CallRecords, Places
<1>3. call' = [call EXCEPT ![c] = [call[c] EXCEPT !.at = "done"]]
  BY <1>1
<1>4. /\ call' \in [Calls -> CallRecords] /\ call'[c].at = "done"
      /\ \A d \in Calls : d # c => call'[d] = call[d]
      /\ call'[c].kind = call[c].kind /\ call'[c].rnd = call[c].rnd
  BY <1>1, <1>2, <1>3
<1>5. OnlyEnds
  BY <1>4 DEF OnlyEnds, Used
<1> QED
  BY <1>4, <1>5

\* A call that ends and leaves all rounds as they are.
LEMMA EndKeepsRounds ==
  ASSUME RoundInv, NEW c \in Calls, call[c].at \in {"preparing", "asked", "registered"},
         call' = [call EXCEPT ![c].at = "done"],
         UNCHANGED <<pending, active, round, owner, deliveries, superseded, overtaken, shared>>,
         ~shared => bailed' \subseteq overtaken
  PROVE  RoundInv'
<1>1. /\ call' \in [Calls -> CallRecords] /\ OnlyEnds
      /\ \A d \in Calls : d # c => call'[d] = call[d]
  BY CallEnds
<1>2. TypeOK /\ FreshInv
  BY DEF RoundInv
<1>3. TypeOK'
  BY <1>1, <1>2 DEF TypeOK, CallRecords
<1>4. FreshInv'
  BY <1>1, <1>2 DEF FreshInv, OnlyEnds, Used, Named
<1>5. ASSUME ~shared' PROVE HomeInv' /\ MarkedInv'
  <2>1. HomeInv /\ MarkedInv /\ ~shared
    BY <1>5 DEF RoundInv
  <2>2. \A d \in Calls : call'[d].at = "registered" => owner'[d] = owner[d]
    OBVIOUS
  <2>3. UNCHANGED <<pending, superseded, overtaken>> /\ bailed' \subseteq overtaken
    BY <2>1
  <2> QED
    BY <1>1, <1>2, <1>3, <2>1, <2>2, <2>3, EndsKeep
<1> QED
  BY <1>3, <1>4, <1>5 DEF RoundInv

\* A step that leaves the session alone.
LEMMA DeliveryKeeps ==
  ASSUME RoundInv, UNCHANGED <<sessionVars, historyVars>>, deliveries' \subseteq Calls
  PROVE  RoundInv'
<1>1. TypeOK'
  BY DEF RoundInv, TypeOK, sessionVars
<1>2. FreshInv'
  BY DEF RoundInv, FreshInv, sessionVars, Used, Named
<1>3. HomeInv /\ MarkedInv => HomeInv' /\ MarkedInv'
  BY DEF HomeInv, MarkedInv, OnItsWay, Used, Named, sessionVars, historyVars
<1> QED
  BY <1>1, <1>2, <1>3 DEF RoundInv, historyVars

\* A delivery that ends marks its round as one to dispose of.
LEMMA DeliveryEnds ==
  ASSUME RoundInv, NEW R \in Calls, Named(R), NEW r \in Rounds,
         NEW own \in [Calls -> {0} \cup Calls], Settle(R, r, own, active),
         UNCHANGED <<call, pending, superseded, overtaken, bailed>>, deliveries' \subseteq Calls,
         r.run = round[R].run, r.tracked = round[R].tracked, r.aborted = round[R].aborted,
         \A c \in Calls : own[c] # 0 => Named(own[c]),
         \A c \in Calls : own[c] # owner[c] => owner[c] = 0
  PROVE  RoundInv'
<1>1. call' \in [Calls -> CallRecords] /\ OnlyEnds
  BY TypeOKIs DEF RoundInv, OnlyEnds
<1>2. ASSUME ~shared, NEW d \in Calls, call'[d].at = "registered"
      PROVE  own[d] = owner[d]
  BY <1>2, NoZero DEF RoundInv, HomeInv
<1> QED
  BY <1>1, <1>2, SettleKeeps DEF KeepsHomes

LEMMA DeliveredKeeps ==
  ASSUME RoundInv, NEW c \in Calls, Delivered(c) \/ Undelivered(c) \/ Rejected(c)
  PROVE  RoundInv'
<1> USE NoZero
<1>1. /\ deliveries \subseteq Calls /\ round \in [Calls -> Rounds]
      /\ owner \in [Calls -> {0} \cup Calls] /\ active \in {0} \cup Calls
      /\ \A d \in Calls : owner[d] # 0 => Named(owner[d])
      /\ active # 0 => Named(active)
  BY TypeOKIs DEF RoundInv, FreshInv
<1>2. deliveries' \subseteq Calls /\ UNCHANGED <<call, pending, superseded, overtaken, bailed>>
  BY <1>1 DEF Delivered, Undelivered, Rejected
<1>3. CASE owner[c] # 0 /\ Settle(owner[c], Delivery(round[owner[c]]), owner, active)
  <2>1. owner[c] \in Calls /\ round[owner[c]] \in Rounds /\ Named(owner[c])
    BY <1>1, <1>3
  <2>2. Delivery(round[owner[c]]) \in Rounds
    BY <2>1, RoundMethods
  <2>3. /\ Delivery(round[owner[c]]).run = round[owner[c]].run
        /\ Delivery(round[owner[c]]).tracked = round[owner[c]].tracked
        /\ Delivery(round[owner[c]]).aborted = round[owner[c]].aborted
    BY <2>1, RoundFields
  <2> QED
    BY <1>1, <1>2, <1>3, <2>1, <2>2, <2>3, DeliveryEnds
<1>4. ASSUME NEW R \in {owner[c], active}, R # 0, R = owner[c] \/ owner[c] = 0,
             Settle(R, Terminal(round[R]), [owner EXCEPT ![c] = R], active)
      PROVE  RoundInv'
  <2>1. R \in Calls /\ round[R] \in Rounds /\ Named(R)
    BY <1>1, <1>4
  <2>2. Terminal(round[R]) \in Rounds
    BY <2>1, RoundMethods
  <2>3. /\ Terminal(round[R]).run = round[R].run
        /\ Terminal(round[R]).tracked = round[R].tracked
        /\ Terminal(round[R]).aborted = round[R].aborted
    BY <2>1, RoundFields
  <2> DEFINE own == [owner EXCEPT ![c] = R]
  <2>4. /\ own \in [Calls -> {0} \cup Calls]
        /\ \A d \in Calls : own[d] # 0 => Named(own[d])
        /\ \A d \in Calls : own[d] # owner[d] => owner[d] = 0
    BY <1>1, <1>4, <2>1
  <2>5. Settle(R, Terminal(round[R]), own, active)
    BY <1>4
  <2> HIDE DEF own
  <2> QED
    BY <1>2, <2>1, <2>2, <2>3, <2>4, <2>5, DeliveryEnds
<1>5. CASE UNCHANGED <<active, round, owner, shared>>
  BY <1>2, <1>5, DeliveryKeeps DEF sessionVars, historyVars
<1>6. [owner EXCEPT ![c] = owner[c]] = owner
  BY <1>1
<1>7. CASE owner[c] # 0 /\ Settle(owner[c], Terminal(round[owner[c]]), owner, active)
  BY <1>4, <1>6, <1>7
<1>8. CASE Rejected(c)
  BY <1>4, <1>8 DEF Rejected, RecoveryRound
<1> QED
  BY <1>3, <1>5, <1>7, <1>8 DEF Delivered, Undelivered

\* A call or its run ends in the round it has to itself, which may have
\* become the active one meanwhile.
LEMMA HomeEnds ==
  ASSUME RoundInv, NEW c \in Calls, call[c].at \in {"preparing", "asked", "registered"},
         call' = [call EXCEPT ![c].at = "done"],
         NEW R \in Calls, Named(R), NEW r \in Rounds,
         NEW now, now = active \/ (active = 0 /\ now = R), Settle(R, r, owner, now),
         UNCHANGED <<pending, deliveries, superseded, overtaken, bailed>>,
         r.run = NoRun \/ r.run = round[R].run, r.tracked = round[R].tracked,
         ~shared => /\ call[c].rnd = R /\ round[R].run \in {Placeholder(c), Run(c)}
                    /\ r.run = NoRun
  PROVE  RoundInv'
<1>1. /\ call' \in [Calls -> CallRecords] /\ OnlyEnds
      /\ call'[c].at = "done"
      /\ \A d \in Calls : d # c => call'[d] = call[d]
  BY CallEnds
<1>2. deliveries' \subseteq Calls /\ owner \in [Calls -> {0} \cup Calls]
      /\ \A d \in Calls : owner[d] # 0 => Named(owner[d])
  BY TypeOKIs DEF RoundInv, FreshInv
<1>3. ASSUME ~shared, NEW d \in Calls, call'[d] = call[d], call[d].rnd = R,
             OnItsWay(d) \/ call[d].at = "registered"
      PROVE  FALSE
  <2>1. d # c
    BY <1>1, <1>3 DEF OnItsWay
  <2>2. round[R].run \in {Placeholder(d), Run(d)}
    BY <1>3 DEF RoundInv, HomeInv
  <2> QED
    BY <1>3, <2>1, <2>2, RunIdsDiffer
<1> QED
  BY <1>1, <1>2, <1>3, SettleKeeps DEF KeepsHomes

\* A round whose call ended without a run.
LEMMA EndedRound ==
  ASSUME NEW r \in Rounds, NEW c \in Calls
  PROVE  /\ Terminal(Cleared(r, c)) \in Rounds
         /\ Terminal(Cleared(r, c)).tracked = r.tracked
         /\ Terminal(Cleared(r, c)).run = IF r.run = Placeholder(c) THEN NoRun ELSE r.run
<1>1. Cleared(r, c) \in Rounds
  BY RoundMethods
<1>2. /\ Cleared(r, c).tracked = r.tracked
      /\ Cleared(r, c).run = IF r.run = Placeholder(c) THEN NoRun ELSE r.run
  BY RoundFields
<1>3. /\ Terminal(Cleared(r, c)) \in Rounds
      /\ Terminal(Cleared(r, c)).tracked = Cleared(r, c).tracked
      /\ Terminal(Cleared(r, c)).run = Cleared(r, c).run
  BY <1>1, RoundMethods, RoundFields
<1> QED
  BY <1>2, <1>3

LEMMA DispatchFailsKeeps ==
  ASSUME RoundInv, NEW c \in Calls, DispatchFails(c)
  PROVE  RoundInv'
<1> DEFINE R == call[c].rnd
           s == Terminal(Cleared(round[R], c))
           r == IF call[c].kind = "recovery" /\ s.attempts > 0
                THEN [s EXCEPT !.attempts = @ - 1] ELSE s
<1>1. /\ call[c].at = "asked" /\ call' = [call EXCEPT ![c].at = "done"]
      /\ UNCHANGED <<pending, deliveries, superseded, overtaken, bailed>>
  BY DEF DispatchFails
<1>2. CASE UNCHANGED <<active, round, owner, shared>>
  <2>1. bailed' \subseteq overtaken \/ shared
    BY <1>1 DEF RoundInv, MarkedInv
  <2> QED
    BY <1>1, <1>2, <2>1, EndKeepsRounds
<1>3. CASE call[c].kind \in {"buyer", "recovery"} /\ Settle(R, r, owner, active)
  <2>1. R \in Calls /\ Named(R) /\ round[R] \in Rounds
    BY <1>3, TypeOKIs DEF RoundInv, FreshInv, CallRecords
  <2>2. /\ s \in Rounds /\ s.tracked = round[R].tracked
        /\ s.run = IF round[R].run = Placeholder(c) THEN NoRun ELSE round[R].run
    BY <2>1, EndedRound
  <2> HIDE DEF s
  <2>3. \A q \in Rounds : /\ [q EXCEPT !.attempts = @ - 1].run = q.run
                          /\ [q EXCEPT !.attempts = @ - 1].tracked = q.tracked
                          /\ q.attempts > 0 => [q EXCEPT !.attempts = @ - 1] \in Rounds
    BY DEF Rounds
  <2>4. r \in Rounds /\ r.run = s.run /\ r.tracked = s.tracked
    BY <2>2, <2>3
  <2>5. ~shared => round[R].run = Placeholder(c)
    BY <1>1, <1>3 DEF RoundInv, HomeInv, OnItsWay
  <2> HIDE DEF r, R
  <2>6. /\ r.run = NoRun \/ r.run = round[R].run
        /\ r.tracked = round[R].tracked
        /\ ~shared => r.run = NoRun
    BY <2>2, <2>4, <2>5
  <2> QED
    BY <1>1, <1>3, <2>1, <2>4, <2>5, <2>6, HomeEnds DEF R
<1> QED
  BY <1>2, <1>3 DEF DispatchFails, FailureNoticed

LEMMA CompletesKeeps ==
  ASSUME RoundInv, NEW c \in Calls, Completes(c)
  PROVE  RoundInv'
<1> DEFINE R == owner[c]
           r == [round[R] EXCEPT !.aborted = @ \ {Run(c)},
                                 !.run = IF @ = Run(c) THEN NoRun ELSE @]
<1>1. /\ call[c].at = "registered" /\ call' = [call EXCEPT ![c].at = "done"]
      /\ UNCHANGED <<pending, deliveries, superseded, overtaken, bailed>>
  BY DEF Completes
<1>2. R \in {0} \cup Calls /\ (R # 0 => Named(R))
      /\ (R # 0 => round[R] \in Rounds)
  BY TypeOKIs DEF RoundInv, FreshInv
<1>3. ~shared => R # 0 /\ call[c].rnd = R /\ round[R].run = Run(c)
  BY <1>1 DEF RoundInv, HomeInv
<1>4. CASE R = 0
  <2>1. UNCHANGED <<active, round, owner, shared>>
    BY <1>4 DEF Completes
  <2>2. ~shared => bailed' \subseteq overtaken
    BY <1>1 DEF RoundInv, MarkedInv
  <2> QED
    BY <1>1, <2>1, <2>2, EndKeepsRounds
<1>5. CASE R # 0
  <2>1. Settle(R, r, owner, active)
    BY <1>5 DEF Completes
  <2>2. \A q \in Rounds :
          LET p == [q EXCEPT !.aborted = @ \ {Run(c)}, !.run = IF @ = Run(c) THEN NoRun ELSE @]
          IN  /\ p \in Rounds /\ p.tracked = q.tracked
              /\ p.run = IF q.run = Run(c) THEN NoRun ELSE q.run
    BY RunIdsTyped DEF Rounds
  <2>3. /\ r \in Rounds /\ r.tracked = round[R].tracked
        /\ r.run = IF round[R].run = Run(c) THEN NoRun ELSE round[R].run
    BY <1>2, <1>5, <2>2
  <2> HIDE DEF r, R
  <2> QED
    BY <1>1, <1>2, <1>3, <1>5, <2>1, <2>3, HomeEnds
<1> QED
  BY <1>4, <1>5
-----------------------------------------------------------------------------
(***************************************************************************)
(* Steps of a call on its way.                                             *)
(***************************************************************************)

\* A buyer's call that ends and takes its placeholder from its round, which
\* is the active one by then.
LEMMA ClearsKeeps ==
  ASSUME RoundInv, NEW c \in Calls, call[c].at \in {"preparing", "asked"},
         call[c].kind = "buyer", call' = [call EXCEPT ![c].at = "done"],
         NEW R \in Calls, R = call[c].rnd, active \in {0, R}, active' = R,
         round' = [round EXCEPT ![R] = Cleared(round[R], c)],
         UNCHANGED <<pending, owner, deliveries, historyVars>>
  PROVE  RoundInv'
<1> USE NoZero
<1>1. round \in [Calls -> Rounds] /\ TypeOK /\ FreshInv /\ pending \in {0} \cup Calls
  BY TypeOKIs DEF RoundInv
<1>2. round'[R] = Cleared(round[R], c) /\ Cleared(round[R], c) \in Rounds
      /\ \A Q \in Calls : Q # R => round'[Q] = round[Q]
  BY <1>1, RoundMethods
<1>3. /\ call' \in [Calls -> CallRecords] /\ OnlyEnds
      /\ call'[c].at = "done"
      /\ \A d \in Calls : d # c => call'[d] = call[d]
  BY CallEnds
<1>4. /\ Cleared(round[R], c).run = IF round[R].run = Placeholder(c) THEN NoRun
                                    ELSE round[R].run
      /\ Cleared(round[R], c).tracked = round[R].tracked
      /\ Cleared(round[R], c).attempts = round[R].attempts
  BY <1>1, RoundFields
<1>5. TypeOK'
  BY <1>1, <1>2, <1>3 DEF TypeOK, Rounds, CallRecords
<1>6. FreshInv'
  <2>1. \A d \in Calls : round'[d].attempts = round[d].attempts
    BY <1>2, <1>4
  <2>2. Named(R)
    BY <1>1 DEF FreshInv
  <2>3. call'[c].kind = call[c].kind /\ call'[c].rnd = call[c].rnd
    BY DEF OnlyEnds, CallRecords, TypeOK, RoundInv
  <2> QED
    BY <1>1, <1>3, <2>1, <2>2, <2>3 DEF FreshInv, OnlyEnds, Used, Named
<1>7. ASSUME ~shared' PROVE HomeInv' /\ MarkedInv'
  <2>1. HomeInv /\ MarkedInv /\ ~shared
    BY <1>7 DEF RoundInv, historyVars
  <2>2. /\ round'[R].run \in {NoRun, round[R].run}
        /\ round'[R].tracked \subseteq round[R].tracked
    BY <1>2, <1>4
  <2>3. ASSUME NEW d \in Calls, call'[d] = call[d], call[d].rnd = R,
               OnItsWay(d) \/ call[d].at = "registered"
        PROVE  FALSE
    <3>1. d # c
      BY <1>3, <2>3 DEF OnItsWay
    <3>2. OnItsWay(c)
      BY DEF OnItsWay
    <3>3. round[R].run = Placeholder(c)
      BY <2>1, <3>2 DEF HomeInv
    <3> QED
      BY <2>1, <2>3, <3>1, <3>3, RunIdsDiffer DEF HomeInv
  <2>4. UNCHANGED <<pending, owner, superseded, overtaken>> /\ bailed' \subseteq overtaken
    BY <2>1 DEF historyVars, MarkedInv
  <2>5. active' # active => active = R \/ active = 0
    OBVIOUS
  <2>6. \A d \in Calls : call'[d].at = "registered" => owner'[d] = owner[d]
    BY <2>4
  <2> QED
    BY <1>1, <1>2, <1>3, <1>5, <2>1, <2>2, <2>3, <2>4, <2>5, <2>6, EndsKeep
<1> QED
  BY <1>5, <1>6, <1>7 DEF RoundInv, historyVars

LEMMA UnpreparedKeeps ==
  ASSUME RoundInv, NEW c \in Calls, Unprepared(c)
  PROVE  RoundInv'
<1>1. /\ call[c].at = "preparing" /\ call' = [call EXCEPT ![c].at = "done"]
      /\ UNCHANGED <<pending, active, owner, deliveries, historyVars>>
      /\ round' = [round EXCEPT ![call[c].rnd] =
                     IF active = call[c].rnd THEN Cleared(@, c) ELSE @]
  BY DEF Unprepared
<1>2. call[c].rnd = c /\ call[c].kind = "buyer" /\ round \in [Calls -> Rounds]
  BY <1>1, TypeOKIs DEF RoundInv, FreshInv
<1>3. ~shared => bailed' \subseteq overtaken
  BY <1>1 DEF RoundInv, MarkedInv, historyVars
<1>4. CASE active # c
  <2>1. round' = round
    BY <1>1, <1>2, <1>4
  <2> QED
    BY <1>1, <1>3, <2>1, EndKeepsRounds DEF historyVars
<1>5. CASE active = c
  <2>1. round' = [round EXCEPT ![c] = Cleared(round[c], c)]
    BY <1>1, <1>2, <1>5
  <2> QED
    BY <1>1, <1>2, <1>5, <2>1, ClearsKeeps
<1> QED
  BY <1>4, <1>5

\* A call that goes on from its quiet window or from its preparation.
LEMMA MovesOn ==
  ASSUME RoundInv, NEW c \in Calls, NEW place \in {"preparing", "asked"},
         call[c].at \in {"quiet", "preparing"}, call' = [call EXCEPT ![c].at = place],
         UNCHANGED <<active, round, owner, deliveries, historyVars>>,
         pending' = 0 \/ (pending' = pending /\ pending # c)
  PROVE  RoundInv'
<1>1. \A q \in CallRecords : \A p \in {"preparing", "asked"} :
        /\ [q EXCEPT !.at = p] \in CallRecords
        /\ [q EXCEPT !.at = p].at = p
        /\ [q EXCEPT !.at = p].kind = q.kind
        /\ [q EXCEPT !.at = p].rnd = q.rnd
  BY DEF CallRecords, Places
<1>2. call \in [Calls -> CallRecords] /\ pending \in {0} \cup Calls
  BY TypeOKIs DEF RoundInv
<1>3. call' = [call EXCEPT ![c] = [call[c] EXCEPT !.at = place]]
  BY <1>2
<1>4. /\ call' \in [Calls -> CallRecords] /\ call'[c].at = place
      /\ \A d \in Calls : d # c => call'[d] = call[d]
      /\ \A d \in Calls : call'[d].kind = call[d].kind /\ call'[d].rnd = call[d].rnd
  <2>1. [call[c] EXCEPT !.at = place] \in CallRecords
    BY <1>1, <1>2
  <2>2. /\ call' \in [Calls -> CallRecords]
        /\ \A d \in Calls : d # c => call'[d] = call[d]
        /\ call'[c] = [call[c] EXCEPT !.at = place]
    BY <1>2, <1>3, <2>1
  <2>3. /\ call'[c].at = place /\ call'[c].kind = call[c].kind
        /\ call'[c].rnd = call[c].rnd
    BY <1>1, <1>2, <2>2
  <2> QED
    BY <2>2, <2>3
<1>5. call[c].kind = "buyer" /\ call[c].rnd = c
  BY DEF RoundInv, FreshInv
<1> HIDE DEF RoundInv
<1>6. /\ \A d \in Calls : Used(d)' <=> Used(d)
      /\ \A d \in Calls : Named(d)' <=> Named(d)
      /\ \A d \in Calls : OnItsWay(d)' <=> OnItsWay(d)
      /\ \A d \in Calls : call'[d].at \in {"registered", "done"}
                            <=> call[d].at \in {"registered", "done"}
      /\ \A d \in Calls : call'[d].at = "registered" <=> call[d].at = "registered"
      /\ \A d \in Calls : call'[d].at \in {"quiet", "preparing"}
                            => call[d].at \in {"quiet", "preparing"}
  BY <1>4, <1>5 DEF Used, Named, OnItsWay
<1>7. TypeOK'
  BY <1>2, <1>4 DEF RoundInv, TypeOK, CallRecords
<1>8. FreshInv'
  <2>1. pending' # 0 => call'[pending'].at = "quiet"
    BY <1>2, <1>4 DEF RoundInv, FreshInv
  <2>2. \A d \in Calls : /\ owner[d] \in {0} \cup Calls /\ call[d].rnd \in {0} \cup Calls
                         /\ round'[d] = round[d] /\ owner'[d] = owner[d]
    BY <1>2, TypeOKIs DEF RoundInv, CallRecords
  <2>3. active \in {0} \cup Calls
    BY TypeOKIs DEF RoundInv
  <2> QED
    BY <1>4, <1>5, <1>6, <2>1, <2>2, <2>3 DEF RoundInv, FreshInv, Named, Used
<1>9. ASSUME ~shared' PROVE HomeInv' /\ MarkedInv'
  <2>1. HomeInv /\ MarkedInv
    BY <1>9 DEF RoundInv, historyVars
  <2>2. HomeInv'
    BY <1>4, <1>6, <2>1 DEF HomeInv
  <2>3. \A d \in Calls : call'[d].at = "asked" => call[d].at = "asked" \/ d = c
    BY <1>4
  <2>4. MarkedInv'
    BY <1>4, <1>5, <1>6, <2>1, <2>3 DEF MarkedInv, historyVars
  <2> QED
    BY <2>2, <2>4
<1> QED
  BY <1>7, <1>8, <1>9 DEF RoundInv

LEMMA PreparedKeeps ==
  ASSUME RoundInv, NEW c \in Calls, Prepared(c)
  PROVE  RoundInv'
<1>1. /\ call[c].at = "preparing" /\ call[c].rnd = c
      /\ pending # 0 => call[pending].at = "quiet"
  BY DEF Prepared, RoundInv, FreshInv
<1>2. CASE Claims(c)
  <2>1. /\ call' = [call EXCEPT ![c].at = "asked"]
        /\ UNCHANGED <<pending, active, round, owner, deliveries, historyVars>>
    BY <1>2 DEF Prepared, historyVars
  <2>2. pending' = 0 \/ (pending' = pending /\ pending # c)
    BY <1>1, <2>1
  <2> QED
    BY <1>1, <2>1, <2>2, MovesOn
<1>3. CASE ~Claims(c)
  <2>1. /\ call' = [call EXCEPT ![c].at = "done"] /\ bailed' = bailed \cup {c}
        /\ UNCHANGED <<pending, active, round, owner, deliveries, superseded, overtaken, shared>>
    BY <1>3 DEF Prepared
  <2>2. ASSUME ~shared PROVE bailed' \subseteq overtaken
    <3>1. HomeInv /\ MarkedInv /\ FreshInv
      BY <2>2 DEF RoundInv
    <3>2. round[c].run = Placeholder(c)
      BY <1>1, <3>1 DEF HomeInv, FreshInv, OnItsWay
    <3>3. c \in overtaken
      BY <1>1, <1>3, <3>1, <3>2 DEF MarkedInv, Claims
    <3> QED
      BY <2>1, <3>1, <3>3 DEF MarkedInv
  <2> QED
    BY <1>1, <2>1, <2>2, EndKeepsRounds
<1> QED
  BY <1>2, <1>3

LEMMA QuietWindowKeeps ==
  ASSUME RoundInv, QuietWindowEnds
  PROVE  RoundInv'
<1>1. pending \in Calls /\ call[pending].at = "quiet"
  BY TypeOKIs DEF QuietWindowEnds, RoundInv, FreshInv
<1> QED
  BY <1>1, MovesOn DEF QuietWindowEnds

LEMMA OperatorCallKeeps ==
  ASSUME RoundInv, NEW c \in Calls, OperatorCall(c)
  PROVE  RoundInv'
<1> DEFINE q == [kind |-> "operator", msg |-> {}, at |-> "asked", rnd |-> 0]
<1>1. /\ ~Used(c) /\ call' = [call EXCEPT ![c] = q]
      /\ UNCHANGED <<pending, active, round, owner, deliveries, historyVars>>
  BY DEF OperatorCall, Fresh, Used
<1>2. q \in CallRecords
  BY DEF CallRecords, Kinds, Places
<1>3. /\ call' \in [Calls -> CallRecords] /\ call'[c] = q
      /\ \A d \in Calls : d # c => call'[d] = call[d]
  BY <1>1, <1>2, TypeOKIs DEF RoundInv
<1>4. TypeOK'
  BY <1>1, <1>3 DEF RoundInv, TypeOK, CallRecords
<1>5. FreshInv'
  BY <1>1, <1>3 DEF RoundInv, FreshInv, Used, Named
<1>6. ASSUME ~shared' PROVE HomeInv' /\ MarkedInv'
  <2>1. HomeInv /\ MarkedInv
    BY <1>1, <1>6 DEF RoundInv, historyVars
  <2>2. HomeInv'
    BY <1>1, <1>3, <2>1 DEF HomeInv, OnItsWay, Used, Named
  <2>3. MarkedInv'
    BY <1>1, <1>3, <2>1 DEF MarkedInv, OnItsWay, Used, Named, historyVars
  <2> QED
    BY <2>2, <2>3
<1> QED
  BY <1>4, <1>5, <1>6 DEF RoundInv
-----------------------------------------------------------------------------
(***************************************************************************)
(* Steps that give a call a run or a round.                                *)
(***************************************************************************)

LEMMA ReplyKeeps ==
  ASSUME RoundInv, NEW c \in Calls, NEW d \in Calls, Reply(c, d)
  PROVE  RoundInv'
<1> DEFINE R == call[c].rnd
           a == IF active = 0 THEN R ELSE active
           r == Resolved(round[R], c, d, a = R)
           q == [call[d] EXCEPT !.at = "registered", !.rnd = R]
           z == [call[c] EXCEPT !.at = "done"]
<1> USE NoZero
<1>1. /\ call[c].at = "asked" /\ call[c].kind # "operator" /\ d \in Answers(c)
      /\ active' = a /\ round' = [round EXCEPT ![R] = r]
      /\ owner' = [owner EXCEPT ![d] = R]
      /\ call' = [e \in Calls |-> IF e = d THEN q ELSE IF e = c THEN z ELSE call[e]]
      /\ superseded' = IF c \in superseded THEN superseded \cup {d} ELSE superseded \ {d}
      /\ UNCHANGED <<pending, deliveries, overtaken, bailed, shared>>
  <2>1. active' = a
    BY DEF Reply
  <2>2. call' = [e \in Calls |-> IF e = d THEN q ELSE IF e = c THEN z ELSE call[e]]
    <3>1. call' = [e \in Calls |->
                     IF e = d THEN [call[e] EXCEPT !.at = "registered", !.rnd = R]
                     ELSE IF e = c THEN [call[e] EXCEPT !.at = "done"]
                     ELSE call[e]]
      BY DEF Reply
    <3> QED
      BY <3>1
  <2> HIDE DEF q, z
  <2> QED
    BY <2>1, <2>2 DEF Reply
<1>2. /\ round \in [Calls -> Rounds] /\ call \in [Calls -> CallRecords]
      /\ owner \in [Calls -> {0} \cup Calls] /\ active \in {0} \cup Calls
      /\ pending \in {0} \cup Calls /\ FreshInv
  BY TypeOKIs DEF RoundInv
<1>3. R \in Calls /\ Named(R)
  <2>1. call[c].kind \in {"buyer", "recovery"}
    BY <1>1, <1>2 DEF FreshInv, Used, CallRecords, Kinds
  <2> QED
    BY <1>2, <2>1 DEF FreshInv, CallRecords
<1>4. /\ r \in Rounds
      /\ r.run = IF round[R].run = Placeholder(c) THEN Run(d) ELSE round[R].run
      /\ r.tracked = round[R].tracked \cup {d}
      /\ round[R].aborted \ {Placeholder(c)} \subseteq r.aborted
      /\ Placeholder(c) \in round[R].aborted \/ a # R => Run(d) \in r.aborted
      /\ r.attempts = round[R].attempts
  <2> DEFINE owns == a = R
  <2>1. round[R] \in Rounds /\ owns \in BOOLEAN /\ r = Resolved(round[R], c, d, owns)
    BY <1>2, <1>3
  <2>2. ~owns <=> a # R
    OBVIOUS
  <2> HIDE DEF owns, r, a
  <2>3. r \in Rounds
    BY <2>1, RoundMethods
  <2>4. /\ r.run = IF round[R].run = Placeholder(c) THEN Run(d) ELSE round[R].run
        /\ r.tracked = round[R].tracked \cup {d}
        /\ round[R].aborted \ {Placeholder(c)} \subseteq r.aborted
        /\ Placeholder(c) \in round[R].aborted \/ ~owns => Run(d) \in r.aborted
        /\ r.attempts = round[R].attempts
    BY <2>1, ResolvedFields
  <2> QED
    BY <2>2, <2>3, <2>4
<1>5. /\ q \in CallRecords /\ q.at = "registered" /\ q.kind = call[d].kind /\ q.rnd = R
      /\ z \in CallRecords /\ z.at = "done" /\ z.kind = call[c].kind /\ z.rnd = R
  <2>1. \A p \in CallRecords, Q \in Calls :
          LET w == [p EXCEPT !.at = "registered", !.rnd = Q]
          IN  w \in CallRecords /\ w.at = "registered" /\ w.rnd = Q /\ w.kind = p.kind
    BY DEF CallRecords, Places
  <2>2. \A p \in CallRecords :
          LET w == [p EXCEPT !.at = "done"]
          IN  w \in CallRecords /\ w.at = "done" /\ w.rnd = p.rnd /\ w.kind = p.kind
    BY DEF CallRecords, Places
  <2>3. call[c] \in CallRecords /\ call[d] \in CallRecords
    BY <1>2
  <2>4. z \in CallRecords /\ z.at = "done" /\ z.kind = call[c].kind /\ z.rnd = R
    BY <2>2, <2>3
  <2> HIDE DEF R
  <2>5. q \in CallRecords /\ q.at = "registered" /\ q.kind = call[d].kind /\ q.rnd = R
    BY <1>3, <2>1, <2>3
  <2> QED
    BY <2>4, <2>5
<1>6. a \in Calls /\ Named(a)
  BY <1>2, <1>3 DEF FreshInv
<1>7. d # c => call[d].at \in {"registered", "done"}
  BY <1>1 DEF Answers
<1> HIDE DEF r, q, z
<1>8. /\ round' \in [Calls -> Rounds] /\ call' \in [Calls -> CallRecords]
      /\ owner' \in [Calls -> {0} \cup Calls]
      /\ round'[R] = r /\ owner'[d] = R
      /\ \A Q \in Calls : Q # R => round'[Q] = round[Q]
      /\ \A e \in Calls : e # d => owner'[e] = owner[e]
      /\ call'[d].at = "registered" /\ call'[d].rnd = R /\ call'[d].kind = call[d].kind
      /\ d # c => call'[c].at = "done" /\ call'[c].rnd = R /\ call'[c].kind = call[c].kind
      /\ \A e \in Calls : e # c /\ e # d => call'[e] = call[e]
      /\ active' = a
  BY <1>1, <1>2, <1>3, <1>4, <1>5
<1>9. /\ \A e \in Calls : call'[e].kind = call[e].kind
      /\ \A e \in Calls : e # d => call'[e].rnd = call[e].rnd
      /\ \A e \in Calls : Used(e)' <=> Used(e)
      /\ \A e \in Calls : Named(e) => NamedNext(e)
      /\ \A e \in Calls : OnItsWay(e)' => OnItsWay(e) /\ e # c /\ e # d
      /\ \A e \in Calls : call'[e].at = "registered" /\ e # d
           => call[e].at = "registered" /\ e # c
  BY <1>1, <1>7, <1>8 DEF Used, Named, NamedNext, OnItsWay
<1> HIDE DEF a
<1>10. TypeOK'
  BY <1>1, <1>2, <1>6, <1>8 DEF RoundInv, TypeOK, Rounds, CallRecords
<1>11. FreshInv'
  <2>1. \A e \in Calls : round'[e].attempts = round[e].attempts
    BY <1>4, <1>8
  <2>2. pending' # 0 => call'[pending'].at = "quiet"
    BY <1>1, <1>2, <1>7, <1>8 DEF FreshInv
  <2>3. active' # 0 => NamedNext(active')
    BY <1>6, <1>8, <1>9
  <2>4. \A e \in Calls : owner'[e] # 0 => NamedNext(owner'[e])
    BY <1>2, <1>3, <1>8, <1>9 DEF FreshInv
  <2>5. Used(c) /\ Used(d)
    BY <1>1, <1>7 DEF Used
  <2>6. \A e \in Calls : call'[e].rnd # 0 => NamedNext(call'[e].rnd) /\ Used(e)'
    BY <1>2, <1>3, <1>8, <1>9, <2>5 DEF FreshInv, CallRecords
  <2>7. \A e \in Calls : call'[e].at \in {"quiet", "preparing"} =>
          call'[e].kind = "buyer" /\ call'[e].rnd = e
    BY <1>1, <1>2, <1>8 DEF FreshInv
  <2>8. \A e \in Calls : /\ call'[e].kind \in {"buyer", "recovery"} => call'[e].rnd # 0
                         /\ call'[e].kind = "none" <=> ~Used(e)'
                         /\ ~Used(e)' => call'[e].rnd = 0 /\ round'[e].attempts = 0
    BY <1>2, <1>3, <1>8, <1>9, <2>1, <2>5 DEF FreshInv
  <2> QED
    BY <2>2, <2>3, <2>4, <2>6, <2>7, <2>8 DEF FreshInv, Used, Named, NamedNext
<1>12. ASSUME ~shared' PROVE HomeInv' /\ MarkedInv'
  <2>1. HomeInv /\ MarkedInv
    BY <1>1, <1>12 DEF RoundInv
  <2>2. OnItsWay(c) /\ round[R].run = Placeholder(c) /\ r.run = Run(d)
    BY <1>1, <1>4, <2>1 DEF HomeInv, OnItsWay
  <2>3. ASSUME NEW e \in Calls, e # c, OnItsWay(e) \/ call[e].at = "registered"
        PROVE  call[e].rnd \in Calls /\ call[e].rnd # R
    <3>1. call[e].rnd # 0 /\ round[call[e].rnd].run \in {Placeholder(e), Run(e)}
      BY <2>1, <2>3 DEF HomeInv
    <3> QED
      BY <1>2, <2>2, <2>3, <3>1, RunIdsDiffer DEF CallRecords
  <2>4. active # 0 => active' = active
    BY <1>8 DEF a
  <2>5. HomeInv'
    <3>1. pending' # 0 => active' = pending'
      BY <1>1, <1>2, <2>1, <2>4 DEF HomeInv
    <3>2. ASSUME NEW e \in Calls, OnItsWay(e)'
          PROVE  call'[e].rnd # 0 /\ round'[call'[e].rnd].run = Placeholder(e)
      <4>1. OnItsWay(e) /\ e # c /\ e # d /\ call'[e] = call[e]
        BY <1>8, <1>9, <3>2
      <4> QED
        BY <1>8, <2>1, <2>3, <4>1 DEF HomeInv
    <3>3. ASSUME NEW e \in Calls, call'[e].at = "registered"
          PROVE  /\ call'[e].rnd # 0 /\ owner'[e] = call'[e].rnd
                 /\ round'[call'[e].rnd].run = Run(e)
      <4>1. CASE e = d
        BY <1>3, <1>8, <2>2, <4>1
      <4>2. CASE e # d
        <5>1. call[e].at = "registered" /\ e # c /\ call'[e] = call[e]
          BY <1>8, <1>9, <3>3, <4>2
        <5> QED
          BY <1>8, <2>1, <2>3, <4>2, <5>1 DEF HomeInv
      <4> QED
        BY <4>1, <4>2
    <3>4. ASSUME NEW e \in Calls, e = d \/ call[e].at \in {"registered", "done"}
          PROVE  call'[e].at \in {"registered", "done"}
      BY <1>1, <1>8, <3>4
    <3>5. ASSUME NEW Q \in Calls, NEW e \in Calls,
                 e \in round'[Q].tracked \/ round'[Q].run = Run(e)
          PROVE  call'[e].at \in {"registered", "done"}
      <4>1. e = d \/ e \in round[Q].tracked \/ round[Q].run = Run(e)
        BY <1>4, <1>8, <2>2, <3>5, RunIdsDiffer
      <4>2. e = d \/ call[e].at \in {"registered", "done"}
        BY <2>1, <4>1 DEF HomeInv
      <4> QED
        BY <3>4, <4>2
    <3>6. ASSUME NEW Q \in Calls, NEW e \in Calls, round'[Q].run = Placeholder(e)
          PROVE  NamedNext(e) /\ (OnItsWay(e)' => call'[e].rnd = Q)
      <4>1. round[Q].run = Placeholder(e)
        BY <1>8, <2>2, <3>6, RunIdsDiffer
      <4>2. Named(e) /\ (OnItsWay(e) => call[e].rnd = Q)
        BY <2>1, <4>1 DEF HomeInv
      <4> QED
        BY <1>9, <4>2
    <3> QED
      BY <3>1, <3>2, <3>3, <3>5, <3>6 DEF HomeInv, Named, Used, NamedNext
  <2>6. MarkedInv'
    <3>1. ASSUME NEW e \in Calls, call'[e].at = "registered", call'[e].rnd # active'
          PROVE  Run(e) \in round'[call'[e].rnd].aborted
      <4>1. CASE e = d
        BY <1>4, <1>8, <3>1, <4>1
      <4>2. CASE e # d
        <5>1. call[e].at = "registered" /\ e # c /\ call'[e] = call[e]
          BY <1>8, <1>9, <3>1, <4>2
        <5> QED
          BY <1>8, <2>1, <2>3, <2>4, <3>1, <5>1 DEF MarkedInv
      <4> QED
        BY <4>1, <4>2
    <3>2. ASSUME NEW e \in superseded'
          PROVE  /\ e \in Calls /\ NamedNext(e)
                 /\ OnItsWay(e)' => Placeholder(e) \in round'[call'[e].rnd].aborted
                 /\ call'[e].at = "registered" => Run(e) \in round'[call'[e].rnd].aborted
      <4>1. CASE e = d
        <5>1. c \in superseded
          BY <1>1, <3>2, <4>1
        <5>2. Run(d) \in r.aborted
          BY <1>4, <2>1, <2>2, <5>1 DEF MarkedInv
        <5> QED
          BY <1>8, <1>9, <4>1, <5>2 DEF NamedNext
      <4>2. CASE e # d
        <5>1. e \in superseded
          BY <1>1, <3>2, <4>2
        <5>2. /\ e \in Calls /\ Named(e)
              /\ OnItsWay(e) => Placeholder(e) \in round[call[e].rnd].aborted
              /\ call[e].at = "registered" => Run(e) \in round[call[e].rnd].aborted
          BY <2>1, <5>1 DEF MarkedInv
        <5>3. OnItsWay(e)' \/ call'[e].at = "registered" =>
                /\ OnItsWay(e) \/ call[e].at = "registered"
                /\ e # c /\ call'[e] = call[e] /\ call[e].rnd \in Calls /\ call[e].rnd # R
          BY <1>8, <1>9, <2>3, <4>2, <5>2
        <5> QED
          BY <1>8, <1>9, <4>2, <5>2, <5>3
      <4> QED
        BY <4>1, <4>2
    <3>3. \A e \in Calls : call'[e].at \in {"quiet", "preparing"} /\ e \notin overtaken'
            => active' = e
      BY <1>1, <1>8, <2>1, <2>4 DEF MarkedInv
    <3>4. bailed' \subseteq overtaken'
      BY <1>1, <2>1 DEF MarkedInv
    <3> QED
      BY <3>1, <3>2, <3>3, <3>4 DEF MarkedInv, Named, Used, NamedNext
  <2> QED
    BY <2>5, <2>6
<1> QED
  BY <1>10, <1>11, <1>12 DEF RoundInv

LEMMA OperatorReplyKeeps ==
  ASSUME RoundInv, NEW c \in Calls, OperatorReply(c)
  PROVE  RoundInv'
<1> DEFINE R == IF active # 0 THEN active ELSE c
           r == [round[R] EXCEPT !.run = Run(c), !.tracked = @ \cup {c}]
           q == [call[c] EXCEPT !.at = "registered", !.rnd = R]
<1> USE NoZero
<1>1. /\ round \in [Calls -> Rounds] /\ call \in [Calls -> CallRecords]
      /\ owner \in [Calls -> {0} \cup Calls] /\ active \in {0} \cup Calls
      /\ pending \in {0} \cup Calls /\ FreshInv
  BY TypeOKIs DEF RoundInv
<1>2. /\ call[c].at = "asked" /\ call[c].kind = "operator"
      /\ active' = R /\ owner' = [owner EXCEPT ![c] = R]
      /\ shared' = (shared \/ round[R].run # NoRun)
      /\ UNCHANGED <<pending, deliveries, superseded, overtaken, bailed>>
  BY DEF OperatorReply
<1>3. R \in Calls /\ (Named(R) \/ R = c)
  BY <1>1 DEF FreshInv
<1>4. /\ \A p \in Rounds :
           LET w == [p EXCEPT !.run = Run(c), !.tracked = @ \cup {c}]
           IN  /\ w \in Rounds /\ w.run = Run(c) /\ w.tracked = p.tracked \cup {c}
               /\ w.aborted = p.aborted /\ w.attempts = p.attempts
      /\ \A p \in CallRecords, Q \in Calls :
           LET w == [p EXCEPT !.at = "registered", !.rnd = Q]
           IN  /\ w \in CallRecords /\ w.at = "registered" /\ w.rnd = Q
               /\ w.kind = p.kind
  BY RunIdsTyped DEF Rounds, CallRecords, Places
<1>5. /\ round' = [round EXCEPT ![R] = r] /\ call' = [call EXCEPT ![c] = q]
  BY <1>1, <1>3 DEF OperatorReply
<1>6. active # 0 => active' = active
  BY <1>2
<1> HIDE DEF R
<1>7. /\ r \in Rounds /\ r.run = Run(c) /\ r.tracked = round[R].tracked \cup {c}
      /\ r.aborted = round[R].aborted /\ r.attempts = round[R].attempts
      /\ q \in CallRecords /\ q.at = "registered" /\ q.rnd = R /\ q.kind = "operator"
  <2>1. round[R] \in Rounds /\ call[c] \in CallRecords
    BY <1>1, <1>3
  <2>2. /\ r \in Rounds /\ r.run = Run(c) /\ r.tracked = round[R].tracked \cup {c}
        /\ r.aborted = round[R].aborted /\ r.attempts = round[R].attempts
    BY <1>4, <2>1
  <2>3. /\ q \in CallRecords /\ q.at = "registered" /\ q.rnd = R /\ q.kind = call[c].kind
    BY <1>3, <1>4, <2>1
  <2> QED
    BY <1>2, <2>2, <2>3
<1> HIDE DEF r, q
<1>8. /\ round' \in [Calls -> Rounds] /\ call' \in [Calls -> CallRecords]
      /\ owner' \in [Calls -> {0} \cup Calls]
      /\ round'[R] = r /\ call'[c] = q /\ owner'[c] = R
      /\ \A Q \in Calls : Q # R => round'[Q] = round[Q]
      /\ \A d \in Calls : d # c => call'[d] = call[d] /\ owner'[d] = owner[d]
  BY <1>1, <1>2, <1>3, <1>5, <1>7
<1>9. /\ \A d \in Calls : call'[d].kind = call[d].kind
      /\ \A d \in Calls : Used(d)' <=> Used(d)
      /\ \A d \in Calls : Named(d) \/ d = c => NamedNext(d)
      /\ \A d \in Calls : OnItsWay(d)' <=> OnItsWay(d)
      /\ \A d \in Calls : OnItsWay(d) => d # c
  BY <1>2, <1>7, <1>8 DEF Used, Named, NamedNext, OnItsWay
<1>10. TypeOK'
  BY <1>1, <1>2, <1>3, <1>8 DEF RoundInv, TypeOK, Rounds, CallRecords
<1>11. FreshInv'
  <2>1. \A d \in Calls : round'[d].attempts = round[d].attempts
    BY <1>7, <1>8
  <2>2. pending' # 0 => call'[pending'].at = "quiet"
    BY <1>1, <1>2, <1>8 DEF FreshInv
  <2>3. active' # 0 => NamedNext(active')
    BY <1>2, <1>3, <1>9
  <2>4. \A d \in Calls : owner'[d] # 0 => NamedNext(owner'[d])
    BY <1>1, <1>3, <1>8, <1>9 DEF FreshInv
  <2>5. ASSUME NEW d \in Calls, call'[d].rnd # 0
        PROVE  NamedNext(call'[d].rnd) /\ Used(d)'
    <3>1. CASE d = c
      BY <1>2, <1>3, <1>7, <1>8, <1>9, <3>1 DEF Used
    <3>2. CASE d # c
      BY <1>1, <1>8, <1>9, <2>5, <3>2 DEF FreshInv, CallRecords
    <3> QED
      BY <3>1, <3>2
  <2>6. \A d \in Calls : call'[d].at \in {"quiet", "preparing"} =>
          call'[d].kind = "buyer" /\ call'[d].rnd = d
    BY <1>1, <1>7, <1>8 DEF FreshInv
  <2>7. \A d \in Calls : /\ call'[d].kind \in {"buyer", "recovery"} => call'[d].rnd # 0
                         /\ call'[d].kind = "none" <=> ~Used(d)'
                         /\ ~Used(d)' => call'[d].rnd = 0 /\ round'[d].attempts = 0
    <3>1. Used(c)
      BY <1>2 DEF Used
    <3> QED
      BY <1>1, <1>7, <1>8, <1>9, <2>1, <3>1 DEF FreshInv
  <2> QED
    BY <2>2, <2>3, <2>4, <2>5, <2>6, <2>7 DEF FreshInv, Used, Named, NamedNext
<1>12. ASSUME ~shared' PROVE HomeInv' /\ MarkedInv'
  <2>1. HomeInv /\ MarkedInv /\ round[R].run = NoRun
    BY <1>2, <1>12 DEF RoundInv
  <2>2. ASSUME NEW d \in Calls, d # c, OnItsWay(d) \/ call[d].at = "registered"
        PROVE  call[d].rnd \in Calls /\ call[d].rnd # R
    <3>1. call[d].rnd # 0 /\ round[call[d].rnd].run \in {Placeholder(d), Run(d)}
      BY <2>1, <2>2 DEF HomeInv
    <3> QED
      BY <1>1, <2>1, <3>1, RunIdsDiffer DEF CallRecords
  <2>3. \A d \in Calls : call'[d].at = "registered" /\ d # c => call[d].at = "registered"
    BY <1>8
  <2>4. HomeInv'
    <3>1. pending' # 0 => active' = pending'
      BY <1>1, <1>2, <1>6, <2>1 DEF HomeInv
    <3>2. \A d \in Calls : OnItsWay(d)' =>
            call'[d].rnd # 0 /\ round'[call'[d].rnd].run = Placeholder(d)
      BY <1>8, <1>9, <2>1, <2>2 DEF HomeInv
    <3>3. \A d \in Calls : call'[d].at = "registered" =>
            /\ call'[d].rnd # 0 /\ owner'[d] = call'[d].rnd
            /\ round'[call'[d].rnd].run = Run(d)
      BY <1>3, <1>7, <1>8, <2>1, <2>2 DEF HomeInv
    <3>4. ASSUME NEW d \in Calls, d = c \/ call[d].at \in {"registered", "done"}
          PROVE  call'[d].at \in {"registered", "done"}
      BY <1>7, <1>8, <3>4
    <3>5. ASSUME NEW Q \in Calls, NEW d \in Calls,
                 d \in round'[Q].tracked \/ round'[Q].run = Run(d)
          PROVE  call'[d].at \in {"registered", "done"}
      <4>1. d = c \/ d \in round[Q].tracked \/ round[Q].run = Run(d)
        BY <1>7, <1>8, <3>5, RunIdsDiffer
      <4>2. d = c \/ call[d].at \in {"registered", "done"}
        BY <2>1, <4>1 DEF HomeInv
      <4> QED
        BY <3>4, <4>2
    <3>6. ASSUME NEW Q \in Calls, NEW d \in Calls, round'[Q].run = Placeholder(d)
          PROVE  NamedNext(d) /\ (OnItsWay(d)' => call'[d].rnd = Q)
      <4>1. round[Q].run = Placeholder(d)
        BY <1>7, <1>8, <3>6, RunIdsDiffer
      <4>2. Named(d) /\ (OnItsWay(d) => call[d].rnd = Q)
        BY <2>1, <4>1 DEF HomeInv
      <4> QED
        BY <1>8, <1>9, <4>2
    <3> QED
      BY <3>1, <3>2, <3>3, <3>5, <3>6 DEF HomeInv, Named, Used, NamedNext
  <2>5. MarkedInv'
    <3>1. \A d \in Calls : call'[d].at = "registered" /\ call'[d].rnd # active'
            => Run(d) \in round'[call'[d].rnd].aborted
      <4>1. ASSUME NEW d \in Calls, d # c, call[d].at = "registered", call[d].rnd # active'
            PROVE  Run(d) \in round'[call[d].rnd].aborted
        BY <1>6, <1>8, <2>1, <2>2, <4>1 DEF MarkedInv
      <4> QED
        BY <1>2, <1>7, <1>8, <4>1
    <3>2. ASSUME NEW d \in superseded'
          PROVE  /\ d \in Calls /\ NamedNext(d)
                 /\ OnItsWay(d)' => Placeholder(d) \in round'[call'[d].rnd].aborted
                 /\ call'[d].at = "registered" => Run(d) \in round'[call'[d].rnd].aborted
      <4>1. /\ d \in Calls /\ Named(d)
            /\ OnItsWay(d) => Placeholder(d) \in round[call[d].rnd].aborted
            /\ call[d].at = "registered" => Run(d) \in round[call[d].rnd].aborted
        BY <1>2, <2>1 DEF MarkedInv
      <4>2. d # c
        BY <1>2, <4>1 DEF Named
      <4> QED
        BY <1>8, <1>9, <2>2, <4>1, <4>2
    <3>3. \A d \in Calls : call'[d].at \in {"quiet", "preparing"} /\ d \notin overtaken'
            => active' = d
      BY <1>2, <1>7, <1>6, <1>8, <2>1 DEF MarkedInv
    <3>4. bailed' \subseteq overtaken'
      BY <1>2, <2>1 DEF MarkedInv
    <3> QED
      BY <3>1, <3>2, <3>3, <3>4 DEF MarkedInv, Named, Used, NamedNext
  <2> QED
    BY <2>4, <2>5
<1> QED
  BY <1>10, <1>11, <1>12 DEF RoundInv

LEMMA AnswersNoRunKeeps ==
  ASSUME RoundInv, NEW c \in Calls, AnswersNoRun(c)
  PROVE  RoundInv'
<1> DEFINE R == IF call[c].kind = "operator" THEN c ELSE call[c].rnd
           now == IF active = 0 THEN R ELSE active
           s == Terminal(Cleared(round[R], c))
<1> USE NoZero
<1>1. /\ call[c].at = "asked" /\ call' = [call EXCEPT ![c].at = "done"]
      /\ UNCHANGED <<pending, deliveries, superseded, overtaken, bailed>>
  BY DEF AnswersNoRun
<1>2. /\ round \in [Calls -> Rounds] /\ active \in {0} \cup Calls /\ TypeOK /\ FreshInv
      /\ owner \in [Calls -> {0} \cup Calls] /\ pending \in {0} \cup Calls
  BY TypeOKIs DEF RoundInv
<1>3. ~shared => bailed' \subseteq overtaken
  BY <1>1 DEF RoundInv, MarkedInv
<1>4. ASSUME UNCHANGED <<active, round, owner, shared>> PROVE RoundInv'
  BY <1>1, <1>3, <1>4, EndKeepsRounds
<1>5. \/ /\ call[c].kind = "operator" /\ active' = now
         /\ round' = [round EXCEPT ![R] = IF active = 0 THEN NewRound(Placeholder(c)) ELSE @]
         /\ UNCHANGED <<owner, shared>>
      \/ /\ call[c].kind = "buyer" /\ active' = now
         /\ round' = [round EXCEPT ![R] = IF now = R THEN Cleared(@, c) ELSE @]
         /\ UNCHANGED <<owner, shared>>
      \/ /\ call[c].kind = "recovery" /\ Settle(R, s, owner, now)
  BY DEF AnswersNoRun
<1>6. call[c].kind \in {"buyer", "recovery"} => /\ R = call[c].rnd /\ R \in Calls /\ Named(R)
                                                /\ round[R] \in Rounds
  BY <1>2, TypeOKIs DEF FreshInv, CallRecords
<1>7. CASE call[c].kind = "operator" /\ active # 0
  BY <1>2, <1>4, <1>5, <1>7
<1>8. CASE call[c].kind = "operator" /\ active = 0
  <2> DEFINE new == NewRound(Placeholder(c))
  <2>1. /\ active' = c /\ round' = [round EXCEPT ![c] = new] /\ UNCHANGED <<owner, shared>>
    BY <1>2, <1>5, <1>8
  <2>2. /\ new \in Rounds /\ new.run = Placeholder(c) /\ new.tracked = {} /\ new.attempts = 0
    BY RunIdsTyped DEF NewRound, Rounds
  <2> HIDE DEF new
  <2>3. /\ call' \in [Calls -> CallRecords] /\ OnlyEnds
        /\ call'[c].at = "done"
        /\ \A d \in Calls : d # c => call'[d] = call[d]
    BY <1>1, CallEnds
  <2>4. /\ round' \in [Calls -> Rounds] /\ round'[c] = new
        /\ \A Q \in Calls : Q # c => round'[Q] = round[Q]
    BY <1>2, <2>1, <2>2
  <2>5. ~Named(c) /\ Used(c)
    BY <1>1, <1>8 DEF Named, Used
  <2>6. \A d \in Calls : call[d].rnd \in {0} \cup Calls /\ call[d].rnd # c
    BY <1>2, <2>5, TypeOKIs DEF FreshInv, CallRecords
  <2>7. /\ call'[c].kind = "operator" /\ call'[c].rnd = call[c].rnd
        /\ \A d \in Calls : Used(d)' <=> Used(d)
        /\ \A d \in Calls : Named(d) \/ d = c => NamedNext(d)
        /\ \A d \in Calls : OnItsWay(d)' \/ call'[d].at = "registered" => d # c
    BY <1>8, <2>3, <2>5 DEF OnlyEnds, Used, Named, NamedNext, OnItsWay
  <2>8. TypeOK'
    BY <1>1, <1>2, <2>1, <2>3, <2>4 DEF TypeOK, Rounds, CallRecords
  <2>9. FreshInv'
    <3>1. /\ pending' # 0 => call'[pending'].at = "quiet"
          /\ NamedNext(active')
      BY <1>1, <1>2, <2>1, <2>3, <2>7 DEF FreshInv
    <3>2. \A d \in Calls : owner'[d] # 0 => NamedNext(owner'[d])
      BY <1>2, <2>1, <2>7 DEF FreshInv
    <3>3. \A d \in Calls : call'[d].rnd # 0 => NamedNext(call'[d].rnd) /\ Used(d)'
      BY <1>2, <2>3, <2>6, <2>7 DEF FreshInv
    <3>4. \A d \in Calls : call'[d].at \in {"quiet", "preparing"} =>
            call'[d].kind = "buyer" /\ call'[d].rnd = d
      BY <1>2, <2>3 DEF FreshInv
    <3>5. \A d \in Calls : /\ call'[d].kind \in {"buyer", "recovery"} => call'[d].rnd # 0
                           /\ call'[d].kind = "none" <=> ~Used(d)'
                           /\ ~Used(d)' => call'[d].rnd = 0 /\ round'[d].attempts = 0
      BY <1>2, <2>3, <2>4, <2>5, <2>7 DEF FreshInv
    <3> QED
      BY <3>1, <3>2, <3>3, <3>4, <3>5 DEF FreshInv, Used, Named, NamedNext
  <2>10. ASSUME ~shared' PROVE HomeInv' /\ MarkedInv'
    <3>1. HomeInv /\ MarkedInv
      BY <2>1, <2>10 DEF RoundInv
    <3>2. \A d \in Calls : OnItsWay(d)' \/ call'[d].at = "registered" =>
            /\ d # c /\ call'[d] = call[d] /\ round'[call[d].rnd] = round[call[d].rnd]
            /\ OnItsWay(d)' => OnItsWay(d)
      <4>1. \A d \in Calls : OnItsWay(d)' \/ call'[d].at = "registered" =>
              /\ d # c /\ call'[d] = call[d]
              /\ OnItsWay(d)' => OnItsWay(d)
        BY <2>3, <2>7 DEF OnItsWay
      <4>2. \A d \in Calls : OnItsWay(d) \/ call[d].at = "registered" =>
              call[d].rnd \in Calls /\ call[d].rnd # c
        BY <2>6, <3>1 DEF HomeInv
      <4>3. \A d \in Calls : OnItsWay(d)' \/ call'[d].at = "registered" =>
              OnItsWay(d) \/ call[d].at = "registered"
        BY <4>1
      <4> QED
        BY <2>4, <4>1, <4>2, <4>3
    <3>3. pending' = 0
      BY <1>1, <1>8, <3>1 DEF HomeInv
    <3>4. \A d \in Calls : OnItsWay(d)' =>
            call'[d].rnd # 0 /\ round'[call'[d].rnd].run = Placeholder(d)
      BY <3>1, <3>2 DEF HomeInv
    <3>5. \A d \in Calls : call'[d].at = "registered" =>
            /\ call'[d].rnd # 0 /\ owner'[d] = call'[d].rnd
            /\ round'[call'[d].rnd].run = Run(d)
      BY <2>1, <3>1, <3>2 DEF HomeInv
    <3>6. ASSUME NEW Q \in Calls, NEW d \in Calls,
                 d \in round'[Q].tracked \/ round'[Q].run = Run(d)
          PROVE  call'[d].at \in {"registered", "done"}
      <4>1. d \in round[Q].tracked \/ round[Q].run = Run(d)
        BY <2>2, <2>4, <3>6, RunIdsDiffer
      <4>2. call[d].at \in {"registered", "done"}
        BY <3>1, <4>1 DEF HomeInv
      <4> QED
        BY <2>3, <4>2
    <3>7. ASSUME NEW Q \in Calls, NEW d \in Calls, round'[Q].run = Placeholder(d)
          PROVE  NamedNext(d) /\ (OnItsWay(d)' => call'[d].rnd = Q)
      <4>1. CASE d = c
        BY <2>7, <4>1
      <4>2. CASE d # c
        <5>1. round[Q].run = Placeholder(d)
          BY <2>2, <2>4, <3>7, <4>2, RunIdsDiffer
        <5>2. Named(d) /\ (OnItsWay(d) => call[d].rnd = Q)
          BY <3>1, <5>1 DEF HomeInv
        <5> QED
          BY <2>7, <3>2, <5>2
      <4> QED
        BY <4>1, <4>2
    <3>8. HomeInv'
      BY <3>3, <3>4, <3>5, <3>6, <3>7 DEF HomeInv, Named, Used, NamedNext
    <3>9. \A d \in Calls : call'[d].at = "registered" /\ call'[d].rnd # active'
            => Run(d) \in round'[call'[d].rnd].aborted
      <4>1. \A d \in Calls : call[d].at = "registered" => call[d].rnd # active
        BY <1>8, <3>1 DEF HomeInv
      <4> QED
        BY <3>1, <3>2, <4>1 DEF MarkedInv
    <3>10. ASSUME NEW d \in superseded'
           PROVE  /\ d \in Calls /\ NamedNext(d)
                  /\ OnItsWay(d)' => Placeholder(d) \in round'[call'[d].rnd].aborted
                  /\ call'[d].at = "registered" => Run(d) \in round'[call'[d].rnd].aborted
      BY <1>1, <2>7, <3>1, <3>2 DEF MarkedInv
    <3>11. \A d \in Calls : call'[d].at \in {"quiet", "preparing"} => d \in overtaken'
      BY <1>1, <1>8, <2>3, <3>1 DEF MarkedInv
    <3>12. MarkedInv'
      BY <1>1, <3>1, <3>9, <3>10, <3>11 DEF MarkedInv, Named, Used, NamedNext
    <3> QED
      BY <3>8, <3>12
  <2> QED
    BY <2>8, <2>9, <2>10 DEF RoundInv
<1>9. CASE call[c].kind = "buyer"
  <2>1. /\ active' = now /\ UNCHANGED <<owner, shared>>
        /\ round' = [round EXCEPT ![R] = IF now = R THEN Cleared(round[R], c) ELSE round[R]]
    BY <1>5, <1>9
  <2>2. CASE now = R
    <3>1. /\ active \in {0, R} /\ active' = R /\ R = call[c].rnd /\ R \in Calls
          /\ round' = [round EXCEPT ![R] = Cleared(round[R], c)]
      BY <1>6, <1>9, <2>1, <2>2
    <3> HIDE DEF R
    <3> QED
      BY <1>1, <1>9, <2>1, <3>1, ClearsKeeps DEF historyVars
  <2>3. CASE now # R
    BY <1>2, <1>4, <2>1, <2>3
  <2> QED
    BY <2>2, <2>3
<1>10. CASE call[c].kind = "recovery"
  <2>1. Settle(R, s, owner, now) /\ (now = active \/ (active = 0 /\ now = R))
    BY <1>5, <1>10
  <2>2. /\ s \in Rounds /\ s.tracked = round[R].tracked
        /\ s.run = IF round[R].run = Placeholder(c) THEN NoRun ELSE round[R].run
    BY <1>6, <1>10, EndedRound
  <2>3. ~shared => call[c].rnd = R /\ round[R].run = Placeholder(c)
    BY <1>1, <1>6, <1>10 DEF RoundInv, HomeInv, OnItsWay
  <2> HIDE DEF s, R, now
  <2> QED
    BY <1>1, <1>6, <1>10, <2>1, <2>2, <2>3, HomeEnds
<1>11. call[c].kind \in {"operator", "buyer", "recovery"}
  BY <1>5
<1> QED
  BY <1>7, <1>8, <1>9, <1>10, <1>11

LEMMA BuyerMessageKeeps ==
  ASSUME RoundInv, NEW c \in Calls, NEW m \in Msgs, BuyerMessage(c, m)
  PROVE  RoundInv'
<1> DEFINE q == [kind |-> "buyer", msg |-> {m}, at |-> "quiet", rnd |-> c]
           fresh == NewRound(Placeholder(c))
<1> USE NoZero
<1>1. /\ round \in [Calls -> Rounds] /\ call \in [Calls -> CallRecords]
      /\ owner \in [Calls -> {0} \cup Calls] /\ active \in {0} \cup Calls
      /\ pending \in {0} \cup Calls /\ FreshInv
  BY TypeOKIs DEF RoundInv
<1>2. /\ ~Used(c) /\ pending' = c /\ active' = c
      /\ overtaken' = overtaken \cup {d \in Calls : call[d].at # "unused"}
      /\ UNCHANGED <<owner, deliveries, bailed, shared>>
  BY DEF BuyerMessage, Fresh, Used
<1>3. /\ pending # c /\ active # c
      /\ \A d \in Calls : call[d].rnd # c /\ owner[d] # c
  BY <1>1, <1>2 DEF FreshInv, Used, Named
<1>4. /\ q \in CallRecords /\ q.at = "quiet" /\ q.kind = "buyer" /\ q.rnd = c
      /\ fresh \in Rounds /\ fresh.run = Placeholder(c) /\ fresh.tracked = {}
      /\ fresh.aborted = {} /\ fresh.attempts = 0
  BY RunIdsTyped DEF CallRecords, Kinds, Places, Rounds, NewRound
<1> HIDE DEF q, fresh
<1>5. /\ call' \in [Calls -> CallRecords] /\ call'[c] = q
      /\ \A d \in Calls : d # c /\ d # pending => call'[d] = call[d]
      /\ pending # 0 => /\ call'[pending].at = "done"
                        /\ call'[pending].kind = call[pending].kind
                        /\ call'[pending].rnd = call[pending].rnd
  <2>1. \A p \in CallRecords : /\ [p EXCEPT !.at = "done"] \in CallRecords
                               /\ [p EXCEPT !.at = "done"].at = "done"
                               /\ [p EXCEPT !.at = "done"].kind = p.kind
                               /\ [p EXCEPT !.at = "done"].rnd = p.rnd
    BY DEF CallRecords, Places
  <2>2. call' = [d \in Calls |-> IF d = c THEN q
                                 ELSE IF d = pending THEN [call[d] EXCEPT !.at = "done"]
                                 ELSE call[d]]
    BY DEF BuyerMessage, q
  <2>3. \A d \in Calls : [call[d] EXCEPT !.at = "done"] \in CallRecords
    BY <1>1, <2>1
  <2>4. call' \in [Calls -> CallRecords]
    BY <1>1, <1>4, <2>2, <2>3
  <2>5. pending # 0 => call[pending] \in CallRecords
                       /\ call'[pending] = [call[pending] EXCEPT !.at = "done"]
    BY <1>1, <1>3, <2>2
  <2> QED
    BY <2>1, <2>2, <2>4, <2>5
<1>6. /\ round' \in [Calls -> Rounds] /\ round'[c] = fresh
      /\ pending # 0 => /\ superseded' = superseded
                        /\ round'[pending] = Destroyed(round[pending])
                        /\ \A Q \in Calls : Q # c /\ Q # pending => round'[Q] = round[Q]
      /\ pending = 0 => /\ \A Q \in Calls : Q # c /\ Q # active => round'[Q] = round[Q]
                        /\ active # 0 => round'[active] = Aborted(round[active])
                        /\ superseded' = superseded \cup
                             {d \in Calls : active # 0 /\
                                round[active].run \in {Placeholder(d), Run(d)}}
  <2>1. CASE pending # 0
    <3>1. /\ round' = [round EXCEPT ![pending] = Destroyed(round[pending]), ![c] = fresh]
          /\ superseded' = superseded
      BY <1>1, <2>1 DEF BuyerMessage, fresh
    <3>2. pending \in Calls /\ Destroyed(round[pending]) \in Rounds
      BY <1>1, <2>1, RoundMethods
    <3> QED
      BY <1>1, <1>3, <1>4, <2>1, <3>1, <3>2
  <2>2. CASE pending = 0 /\ active # 0
    <3>1. /\ round' = [round EXCEPT ![active] = Aborted(round[active]), ![c] = fresh]
          /\ superseded' = superseded \cup
               {d \in Calls : round[active].run \in {Placeholder(d), Run(d)}}
      BY <1>1, <2>2 DEF BuyerMessage, fresh
    <3>2. active \in Calls /\ Aborted(round[active]) \in Rounds
      BY <1>1, <2>2, RoundMethods
    <3> QED
      BY <1>1, <1>3, <1>4, <2>2, <3>1, <3>2
  <2>3. CASE pending = 0 /\ active = 0
    <3>1. round' = [round EXCEPT ![c] = fresh] /\ superseded' = superseded
      BY <2>3 DEF BuyerMessage, fresh
    <3> QED
      BY <1>1, <1>4, <2>3, <3>1
  <2> QED
    BY <2>1, <2>2, <2>3
<1>7. /\ \A d \in Calls : Used(d)' <=> Used(d) \/ d = c
      /\ \A d \in Calls : Named(d) \/ d = c => NamedNext(d)
      /\ \A d \in Calls : call[d].at \in {"registered", "done"}
                            => call'[d].at \in {"registered", "done"}
      /\ \A d \in Calls : d # c => call'[d].kind = call[d].kind /\ call'[d].rnd = call[d].rnd
      /\ \A d \in Calls : OnItsWay(d)' /\ d # c => OnItsWay(d) /\ d # pending
      /\ \A d \in Calls : call'[d].at \in {"quiet", "preparing", "asked", "registered"} /\ d # c
           => call'[d] = call[d] /\ d # pending
  <2>1. pending # 0 => Used(pending)
    BY <1>1 DEF FreshInv, Used
  <2> QED
    BY <1>1, <1>2, <1>4, <1>5, <2>1 DEF Used, Named, NamedNext, OnItsWay
<1>8. \A Q \in Calls : Q # c =>
        /\ round'[Q].run \in {NoRun, round[Q].run}
        /\ round'[Q].tracked \subseteq round[Q].tracked
        /\ round'[Q].attempts \in {0, round[Q].attempts}
        /\ Q # pending => /\ round'[Q].run = round[Q].run
                          /\ round[Q].aborted \subseteq round'[Q].aborted
  <2>1. ASSUME NEW Q \in Calls, Q # c
        PROVE  \/ round'[Q] = round[Q]
               \/ Q = pending /\ round'[Q] = Destroyed(round[Q])
               \/ Q # pending /\ round'[Q] = Aborted(round[Q])
    BY <1>1, <1>6, <2>1
  <2>2. \A Q \in Calls : round[Q] \in Rounds
    BY <1>1
  <2>3. \A r \in Rounds :
          /\ Destroyed(r).run = NoRun /\ Destroyed(r).tracked = {}
          /\ Destroyed(r).attempts = 0
          /\ Aborted(r).run = r.run /\ Aborted(r).tracked = r.tracked
          /\ Aborted(r).attempts = r.attempts /\ r.aborted \subseteq Aborted(r).aborted
    BY RoundFields
  <2> QED
    BY <2>1, <2>2, <2>3
<1>9. TypeOK'
  BY <1>1, <1>2, <1>5, <1>6 DEF RoundInv, TypeOK, Rounds, CallRecords
<1>10. FreshInv'
  <2>1. pending' # 0 => call'[pending'].at = "quiet"
    BY <1>2, <1>4, <1>5
  <2>2. active' # 0 => NamedNext(active')
    BY <1>2, <1>7
  <2>3. \A d \in Calls : owner'[d] # 0 => NamedNext(owner'[d])
    BY <1>1, <1>2, <1>7 DEF FreshInv
  <2>4. \A d \in Calls : call'[d].rnd # 0 => NamedNext(call'[d].rnd) /\ Used(d)'
    BY <1>1, <1>4, <1>5, <1>7 DEF FreshInv, CallRecords
  <2>5. \A d \in Calls : call'[d].at \in {"quiet", "preparing"} =>
          call'[d].kind = "buyer" /\ call'[d].rnd = d
    BY <1>1, <1>4, <1>5, <1>7 DEF FreshInv
  <2>6. \A d \in Calls : /\ call'[d].kind \in {"buyer", "recovery"} => call'[d].rnd # 0
                         /\ call'[d].kind = "none" <=> ~Used(d)'
                         /\ ~Used(d)' => call'[d].rnd = 0
    BY <1>1, <1>4, <1>5, <1>7 DEF FreshInv
  <2>7. \A d \in Calls : ~Used(d)' => round'[d].attempts = 0
    BY <1>1, <1>7, <1>8 DEF FreshInv
  <2> QED
    BY <2>1, <2>2, <2>3, <2>4, <2>5, <2>6, <2>7 DEF FreshInv, Used, Named, NamedNext
<1>11. ASSUME ~shared' PROVE HomeInv' /\ MarkedInv'
  <2>1. HomeInv /\ MarkedInv
    BY <1>2, <1>11 DEF RoundInv
  <2>2. pending # 0 => /\ active = pending /\ OnItsWay(pending)
                       /\ round[pending].run = Placeholder(pending)
    <3>1. pending # 0 => call[pending].at = "quiet" /\ call[pending].kind = "buyer"
                         /\ call[pending].rnd = pending
      BY <1>1 DEF FreshInv
    <3> QED
      BY <1>1, <2>1, <3>1 DEF HomeInv, OnItsWay
  <2>3. ASSUME NEW d \in Calls, d # c, d # pending,
               OnItsWay(d) \/ call[d].at = "registered"
        PROVE  call[d].rnd \in Calls /\ call[d].rnd # c /\ call[d].rnd # pending
    <3>1. call[d].rnd # 0 /\ round[call[d].rnd].run \in {Placeholder(d), Run(d)}
      BY <2>1, <2>3 DEF HomeInv
    <3> QED
      BY <1>1, <1>3, <2>2, <2>3, <3>1, RunIdsDiffer DEF CallRecords
  <2>4. HomeInv'
    <3>1. pending' # 0 => active' = pending'
      BY <1>2
    <3>2. ASSUME NEW d \in Calls, OnItsWay(d)'
          PROVE  call'[d].rnd # 0 /\ round'[call'[d].rnd].run = Placeholder(d)
      <4>1. CASE d = c
        BY <1>4, <1>5, <1>6, <4>1
      <4>2. CASE d # c
        BY <1>7, <1>8, <2>1, <2>3, <3>2, <4>2 DEF HomeInv
      <4> QED
        BY <4>1, <4>2
    <3>3. ASSUME NEW d \in Calls, call'[d].at = "registered"
          PROVE  /\ call'[d].rnd # 0 /\ owner'[d] = call'[d].rnd
                 /\ round'[call'[d].rnd].run = Run(d)
      <4>1. d # c /\ d # pending /\ call'[d] = call[d]
        BY <1>4, <1>5, <1>7, <3>3
      <4> QED
        BY <1>2, <1>8, <2>1, <2>3, <3>3, <4>1 DEF HomeInv
    <3>4. ASSUME NEW Q \in Calls, NEW d \in Calls,
                 d \in round'[Q].tracked \/ round'[Q].run = Run(d)
          PROVE  call'[d].at \in {"registered", "done"}
      <4>1. Q # c
        BY <1>4, <1>6, <3>4, RunIdsDiffer
      <4>2. d \in round[Q].tracked \/ round[Q].run = Run(d)
        BY <1>8, <3>4, <4>1, RunIdsDiffer
      <4>3. call[d].at \in {"registered", "done"}
        BY <2>1, <4>2 DEF HomeInv
      <4> QED
        BY <1>7, <4>3
    <3>5. ASSUME NEW Q \in Calls, NEW d \in Calls, round'[Q].run = Placeholder(d)
          PROVE  NamedNext(d) /\ (OnItsWay(d)' => call'[d].rnd = Q)
      <4>1. CASE Q = c
        <5>1. d = c
          BY <1>4, <1>6, <3>5, <4>1, RunIdsDiffer
        <5> QED
          BY <1>4, <1>5, <1>7, <4>1, <5>1
      <4>2. CASE Q # c
        <5>1. round[Q].run = Placeholder(d)
          BY <1>8, <3>5, <4>2, RunIdsDiffer
        <5>2. Named(d) /\ d # c /\ (OnItsWay(d) => call[d].rnd = Q)
          BY <1>2, <2>1, <5>1 DEF HomeInv, Named
        <5> QED
          BY <1>7, <5>2
      <4> QED
        BY <4>1, <4>2
    <3> QED
      BY <3>1, <3>2, <3>3, <3>4, <3>5 DEF HomeInv, Named, Used, NamedNext
  <2>5. MarkedInv'
    <3>1. ASSUME NEW d \in Calls, call'[d].at = "registered", call'[d].rnd # active'
          PROVE  Run(d) \in round'[call'[d].rnd].aborted
      <4>1. d # c /\ d # pending /\ call'[d] = call[d] /\ call[d].at = "registered"
        BY <1>4, <1>5, <1>7, <3>1
      <4>2. call[d].rnd \in Calls /\ call[d].rnd # c /\ call[d].rnd # pending
        BY <2>3, <4>1
      <4>3. CASE call[d].rnd # active
        BY <1>8, <2>1, <4>1, <4>2, <4>3 DEF MarkedInv
      <4>4. CASE call[d].rnd = active
        <5>1. pending = 0 /\ active # 0 /\ round[active].run = Run(d)
          BY <2>1, <2>2, <4>1, <4>2, <4>4 DEF HomeInv
        <5>2. round'[active] = Aborted(round[active]) /\ round[active] \in Rounds
          BY <1>1, <1>6, <5>1
        <5>3. Run(d) \in round'[active].aborted
          BY <5>1, <5>2, RoundFields, RunIdsDiffer
        <5> QED
          BY <4>1, <4>4, <5>3
      <4> QED
        BY <4>3, <4>4
    <3>2. ASSUME NEW d \in superseded'
          PROVE  /\ d \in Calls /\ NamedNext(d)
                 /\ OnItsWay(d)' => Placeholder(d) \in round'[call'[d].rnd].aborted
                 /\ call'[d].at = "registered" => Run(d) \in round'[call'[d].rnd].aborted
      <4>1. CASE d \in superseded
        <5>1. /\ d \in Calls /\ Named(d)
              /\ OnItsWay(d) => Placeholder(d) \in round[call[d].rnd].aborted
              /\ call[d].at = "registered" => Run(d) \in round[call[d].rnd].aborted
          BY <2>1, <4>1 DEF MarkedInv
        <5>2. d # c
          BY <1>2, <5>1 DEF Named
        <5>3. OnItsWay(d)' \/ call'[d].at = "registered" =>
                /\ call'[d] = call[d] /\ d # pending /\ call[d].rnd \in Calls
                /\ OnItsWay(d)' => OnItsWay(d)
                /\ round[call[d].rnd].aborted \subseteq round'[call[d].rnd].aborted
          <6>1. OnItsWay(d)' \/ call'[d].at = "registered" => call'[d] = call[d] /\ d # pending
            BY <1>7, <5>1, <5>2 DEF OnItsWay
          <6>2. OnItsWay(d)' \/ call'[d].at = "registered" =>
                  OnItsWay(d) \/ call[d].at = "registered"
            BY <1>7, <5>1, <5>2, <6>1
          <6> QED
            BY <1>7, <1>8, <2>3, <5>1, <5>2, <6>1, <6>2
        <5> QED
          BY <1>7, <5>1, <5>2, <5>3
      <4>2. CASE d \notin superseded
        <5>1. /\ pending = 0 /\ active # 0 /\ d \in Calls /\ active \in Calls
              /\ round[active].run \in {Placeholder(d), Run(d)}
          BY <1>1, <1>6, <3>2, <4>2
        <5>2. Named(d) /\ d # c
          <6>1. Named(d)
            BY <2>1, <5>1 DEF HomeInv, Named, Used
          <6> QED
            BY <1>2, <6>1 DEF Named
        <5>3. call'[d] = call[d]
          BY <1>1, <1>5, <5>1, <5>2
        <5>4. round[active].run \in round'[active].aborted
          <6>1. round'[active] = Aborted(round[active]) /\ round[active] \in Rounds
            BY <1>1, <1>6, <5>1
          <6>2. round[active].run # NoRun
            BY <5>1, RunIdsDiffer
          <6> QED
            BY <6>1, <6>2, RoundFields
        <5>5. ASSUME OnItsWay(d)'
              PROVE  Placeholder(d) \in round'[call'[d].rnd].aborted
          <6>1. OnItsWay(d)
            BY <1>7, <5>1, <5>2, <5>5
          <6>2. round[active].run = Placeholder(d)
            BY <2>1, <5>1, <6>1 DEF HomeInv, OnItsWay
          <6>3. call[d].rnd = active
            BY <2>1, <5>1, <6>1, <6>2 DEF HomeInv
          <6> QED
            BY <5>3, <5>4, <6>2, <6>3
        <5>6. ASSUME call'[d].at = "registered"
              PROVE  Run(d) \in round'[call'[d].rnd].aborted
          <6>1. CASE call'[d].rnd = active'
            BY <1>2, <1>3, <5>1, <5>3, <6>1
          <6>2. CASE call'[d].rnd # active'
            BY <3>1, <5>1, <5>6, <6>2
          <6> QED
            BY <6>1, <6>2
        <5> QED
          BY <1>7, <5>1, <5>2, <5>5, <5>6
      <4> QED
        BY <4>1, <4>2
    <3>3. \A d \in Calls : call'[d].at \in {"quiet", "preparing"} /\ d \notin overtaken'
            => active' = d
      <4>1. ASSUME NEW d \in Calls, d # c, call'[d].at \in {"quiet", "preparing"}
            PROVE  d \in overtaken'
        BY <1>2, <1>7, <4>1
      <4> QED
        BY <1>2, <4>1
    <3>4. bailed' \subseteq overtaken'
      BY <1>2, <2>1 DEF MarkedInv
    <3> QED
      BY <3>1, <3>2, <3>3, <3>4 DEF MarkedInv, Named, Used, NamedNext
  <2> QED
    BY <2>4, <2>5
<1> QED
  BY <1>9, <1>10, <1>11 DEF RoundInv

LEMMA RecoversKeeps ==
  ASSUME RoundInv, NEW c \in Calls, NEW n \in Calls, Recovers(c, n)
  PROVE  RoundInv'
<1> DEFINE R == IF RecoveryRound(c) = 0 THEN n ELSE RecoveryRound(c)
           r == [round[R] EXCEPT !.run = Placeholder(n), !.attempts = @ + 1]
           q == [kind |-> "recovery", msg |-> {}, at |-> "asked", rnd |-> R]
<1> USE NoZero
<1>1. /\ round \in [Calls -> Rounds] /\ call \in [Calls -> CallRecords]
      /\ owner \in [Calls -> {0} \cup Calls] /\ active \in {0} \cup Calls
      /\ pending \in {0} \cup Calls /\ deliveries \subseteq Calls /\ FreshInv
  BY TypeOKIs DEF RoundInv
<1>2. /\ ~Used(n) /\ owner' = [owner EXCEPT ![c] = R]
      /\ call' = [call EXCEPT ![n] = q] /\ deliveries' = deliveries \ {c}
      /\ shared' = (shared \/ round[R].run # NoRun)
      /\ UNCHANGED <<pending, superseded, overtaken, bailed>>
      /\ active' = IF active = 0 /\ R = n THEN n ELSE active
  BY DEF Recovers, Fresh, Used
<1>3. R \in Calls /\ (R # n => Named(R)) /\ round[R].attempts = 0
  <2>1. CASE RecoveryRound(c) = 0
    BY <1>1, <1>2, <2>1 DEF FreshInv
  <2>2. CASE RecoveryRound(c) # 0
    BY <1>1, <2>2 DEF Recovers, RecoveryRound, MayRecover, FreshInv
  <2> QED
    BY <2>1, <2>2
<1>4. \A p \in Rounds : p.attempts = 0 =>
        LET w == [p EXCEPT !.run = Placeholder(n), !.attempts = @ + 1]
        IN  /\ w \in Rounds /\ w.run = Placeholder(n) /\ w.tracked = p.tracked
            /\ w.aborted = p.aborted
  <2>1. \A p \in Rounds : /\ [p EXCEPT !.run = Placeholder(n)] \in Rounds
                          /\ [p EXCEPT !.run = Placeholder(n)].run = Placeholder(n)
                          /\ [p EXCEPT !.run = Placeholder(n)].tracked = p.tracked
                          /\ [p EXCEPT !.run = Placeholder(n)].aborted = p.aborted
    BY RunIdsTyped DEF Rounds
  <2>2. \A p \in Rounds : /\ [p EXCEPT !.attempts = 1] \in Rounds
                          /\ [p EXCEPT !.attempts = 1].run = p.run
                          /\ [p EXCEPT !.attempts = 1].tracked = p.tracked
                          /\ [p EXCEPT !.attempts = 1].aborted = p.aborted
    BY DEF Rounds
  <2>3. \A p \in Rounds : p.attempts = 0 =>
          [p EXCEPT !.run = Placeholder(n), !.attempts = @ + 1]
            = [[p EXCEPT !.run = Placeholder(n)] EXCEPT !.attempts = 1]
    BY DEF Rounds
  <2> SUFFICES ASSUME NEW p \in Rounds, p.attempts = 0
               PROVE  LET w == [p EXCEPT !.run = Placeholder(n), !.attempts = @ + 1]
                      IN  /\ w \in Rounds /\ w.run = Placeholder(n)
                          /\ w.tracked = p.tracked /\ w.aborted = p.aborted
    OBVIOUS
  <2> DEFINE v == [p EXCEPT !.run = Placeholder(n)]
             w == [p EXCEPT !.run = Placeholder(n), !.attempts = @ + 1]
  <2>4. /\ v \in Rounds /\ v.run = Placeholder(n)
        /\ v.tracked = p.tracked /\ v.aborted = p.aborted
        /\ w = [v EXCEPT !.attempts = 1]
    BY <2>1, <2>3
  <2> HIDE DEF v, w
  <2>5. /\ w \in Rounds /\ w.run = Placeholder(n)
        /\ w.tracked = p.tracked /\ w.aborted = p.aborted
    BY <2>2, <2>4
  <2> QED
    BY <2>5 DEF w
<1>5. round' = [round EXCEPT ![R] = r]
  BY <1>1, <1>3 DEF Recovers
<1>6. /\ r \in Rounds /\ r.run = Placeholder(n) /\ r.tracked = round[R].tracked
      /\ r.aborted = round[R].aborted
  <2>1. round[R] \in Rounds
    BY <1>1, <1>3
  <2> HIDE DEF R
  <2> QED
    BY <1>3, <1>4, <2>1
<1> HIDE DEF r, R
<1>7. q \in CallRecords /\ q.at = "asked" /\ q.rnd = R /\ q.kind = "recovery"
  BY <1>3 DEF CallRecords, Kinds, Places
<1> HIDE DEF q
<1>8. /\ round' \in [Calls -> Rounds] /\ call' \in [Calls -> CallRecords]
      /\ owner' \in [Calls -> {0} \cup Calls]
      /\ round'[R] = r /\ call'[n] = q /\ owner'[c] = R
      /\ \A Q \in Calls : Q # R => round'[Q] = round[Q]
      /\ \A d \in Calls : d # n => call'[d] = call[d]
      /\ \A d \in Calls : d # c => owner'[d] = owner[d]
      /\ active' \in {0} \cup Calls
      /\ active # 0 => active' = active
      /\ active' # active => active' = n
  BY <1>1, <1>2, <1>3, <1>5, <1>6, <1>7
<1>9. /\ \A d \in Calls : Used(d)' <=> Used(d) \/ d = n
      /\ \A d \in Calls : Named(d) \/ d = n => NamedNext(d)
      /\ \A d \in Calls : OnItsWay(d) => d # n
      /\ \A d \in Calls : call[d].at = "registered" => d # n
      /\ \A d \in Calls : OnItsWay(d)' => d = n \/ OnItsWay(d)
  BY <1>2, <1>7, <1>8 DEF Used, Named, NamedNext, OnItsWay
<1>10. TypeOK'
  BY <1>1, <1>2, <1>8 DEF RoundInv, TypeOK, Rounds, CallRecords
<1>11. FreshInv'
  <2>1. pending' # 0 => call'[pending'].at = "quiet"
    BY <1>1, <1>2, <1>8 DEF FreshInv, Used
  <2>2. active' # 0 => NamedNext(active')
    BY <1>1, <1>8, <1>9 DEF FreshInv
  <2>3. \A d \in Calls : owner'[d] # 0 => NamedNext(owner'[d])
    BY <1>1, <1>3, <1>8, <1>9 DEF FreshInv
  <2>4. ASSUME NEW d \in Calls, call'[d].rnd # 0
        PROVE  NamedNext(call'[d].rnd) /\ Used(d)'
    <3>1. CASE d = n
      BY <1>3, <1>7, <1>8, <1>9, <3>1
    <3>2. CASE d # n
      BY <1>1, <1>8, <1>9, <2>4, <3>2 DEF FreshInv, CallRecords
    <3> QED
      BY <3>1, <3>2
  <2>5. \A d \in Calls : call'[d].at \in {"quiet", "preparing"} =>
          call'[d].kind = "buyer" /\ call'[d].rnd = d
    BY <1>1, <1>7, <1>8 DEF FreshInv
  <2>6. \A d \in Calls : /\ call'[d].kind \in {"buyer", "recovery"} => call'[d].rnd # 0
                         /\ call'[d].kind = "none" <=> ~Used(d)'
                         /\ ~Used(d)' => call'[d].rnd = 0
    BY <1>1, <1>3, <1>7, <1>8, <1>9 DEF FreshInv
  <2>7. \A d \in Calls : ~Used(d)' => round'[d].attempts = 0
    BY <1>1, <1>3, <1>8, <1>9 DEF FreshInv, Named
  <2> QED
    BY <2>1, <2>2, <2>3, <2>4, <2>5, <2>6, <2>7 DEF FreshInv, Used, Named, NamedNext
<1>12. ASSUME ~shared' PROVE HomeInv' /\ MarkedInv'
  <2>1. HomeInv /\ MarkedInv /\ round[R].run = NoRun
    BY <1>2, <1>12 DEF RoundInv
  <2>2. ASSUME NEW d \in Calls, OnItsWay(d) \/ call[d].at = "registered"
        PROVE  /\ d # n /\ call[d].rnd \in Calls /\ call[d].rnd # R
               /\ call'[d] = call[d] /\ round'[call[d].rnd] = round[call[d].rnd]
    <3>1. call[d].rnd # 0 /\ round[call[d].rnd].run \in {Placeholder(d), Run(d)}
      BY <2>1, <2>2 DEF HomeInv
    <3>2. d # n /\ call[d].rnd \in Calls /\ call[d].rnd # R
      BY <1>1, <1>9, <2>1, <2>2, <3>1, RunIdsDiffer DEF CallRecords
    <3> QED
      BY <1>8, <3>2
  <2>3. \A d \in Calls : call'[d].at = "registered" => call[d].at = "registered" /\ d # n
    BY <1>7, <1>8
  <2>4. HomeInv'
    <3>1. pending' # 0 => active' = pending'
      BY <1>1, <1>2, <1>8, <2>1 DEF HomeInv
    <3>2. \A d \in Calls : OnItsWay(d)' =>
            call'[d].rnd # 0 /\ round'[call'[d].rnd].run = Placeholder(d)
      BY <1>3, <1>6, <1>7, <1>8, <1>9, <2>1, <2>2 DEF HomeInv
    <3>3. ASSUME NEW d \in Calls, call'[d].at = "registered"
          PROVE  /\ call'[d].rnd # 0 /\ owner'[d] = call'[d].rnd
                 /\ round'[call'[d].rnd].run = Run(d)
      <4>1. /\ call[d].at = "registered" /\ call'[d] = call[d] /\ call[d].rnd # R
            /\ round'[call[d].rnd] = round[call[d].rnd]
        BY <2>2, <2>3, <3>3
      <4>2. /\ call[d].rnd # 0 /\ owner[d] = call[d].rnd
            /\ round[call[d].rnd].run = Run(d)
        BY <2>1, <4>1 DEF HomeInv
      <4>3. d # c
        BY <4>1, <4>2 DEF R, RecoveryRound
      <4> QED
        BY <1>8, <4>1, <4>2, <4>3
    <3>4. ASSUME NEW Q \in Calls, NEW d \in Calls,
                 d \in round'[Q].tracked \/ round'[Q].run = Run(d)
          PROVE  call'[d].at \in {"registered", "done"}
      <4>1. d \in round[Q].tracked \/ round[Q].run = Run(d)
        BY <1>6, <1>8, <3>4, RunIdsDiffer
      <4>2. call[d].at \in {"registered", "done"}
        BY <2>1, <4>1 DEF HomeInv
      <4>3. d # n
        BY <1>2, <4>2 DEF Used
      <4> QED
        BY <1>8, <4>2, <4>3
    <3>5. ASSUME NEW Q \in Calls, NEW d \in Calls, round'[Q].run = Placeholder(d)
          PROVE  NamedNext(d) /\ (OnItsWay(d)' => call'[d].rnd = Q)
      <4>1. CASE Q = R
        <5>1. d = n
          BY <1>6, <1>8, <3>5, <4>1, RunIdsDiffer
        <5> QED
          BY <1>7, <1>8, <1>9, <4>1, <5>1
      <4>2. CASE Q # R
        <5>1. Named(d) /\ (OnItsWay(d) => call[d].rnd = Q)
          BY <1>8, <2>1, <3>5, <4>2 DEF HomeInv
        <5>2. d # n
          BY <1>2, <5>1 DEF Named
        <5> QED
          BY <1>8, <1>9, <5>1, <5>2
      <4> QED
        BY <4>1, <4>2
    <3> QED
      BY <3>1, <3>2, <3>3, <3>4, <3>5 DEF HomeInv, Named, Used, NamedNext
  <2>5. MarkedInv'
    <3>1. \A d \in Calls : call'[d].at = "registered" /\ call'[d].rnd # active'
            => Run(d) \in round'[call'[d].rnd].aborted
      BY <1>1, <1>8, <2>1, <2>2, <2>3 DEF MarkedInv
    <3>2. ASSUME NEW d \in superseded'
          PROVE  /\ d \in Calls /\ NamedNext(d)
                 /\ OnItsWay(d)' => Placeholder(d) \in round'[call'[d].rnd].aborted
                 /\ call'[d].at = "registered" => Run(d) \in round'[call'[d].rnd].aborted
      <4>1. /\ d \in Calls /\ Named(d)
            /\ OnItsWay(d) => Placeholder(d) \in round[call[d].rnd].aborted
            /\ call[d].at = "registered" => Run(d) \in round[call[d].rnd].aborted
        BY <1>2, <2>1 DEF MarkedInv
      <4>2. d # n
        BY <1>2, <4>1 DEF Named
      <4> QED
        BY <1>8, <1>9, <2>2, <2>3, <4>1, <4>2
    <3>3. \A d \in Calls : call'[d].at \in {"quiet", "preparing"} /\ d \notin overtaken'
            => active' = d
      BY <1>2, <1>7, <1>8, <2>1 DEF MarkedInv
    <3>4. bailed' \subseteq overtaken'
      BY <1>2, <2>1 DEF MarkedInv
    <3> QED
      BY <3>1, <3>2, <3>3, <3>4 DEF MarkedInv, Named, Used, NamedNext
  <2> QED
    BY <2>4, <2>5
<1> QED
  BY <1>10, <1>11, <1>12 DEF RoundInv
-----------------------------------------------------------------------------
(***************************************************************************)
(* The invariant and what follows from it.                                 *)
(***************************************************************************)

LEMMA RoundInvStep == RoundInv /\ [Next]_vars => RoundInv'
<1> SUFFICES ASSUME RoundInv, [Next]_vars PROVE RoundInv'
  OBVIOUS
<1>1. CASE QuietWindowEnds
  BY <1>1, QuietWindowKeeps
<1>2. ASSUME NEW c \in Calls, NEW m \in Msgs, BuyerMessage(c, m) PROVE RoundInv'
  BY <1>2, BuyerMessageKeeps
<1>3. ASSUME NEW c \in Calls, Prepared(c) PROVE RoundInv'
  BY <1>3, PreparedKeeps
<1>4. ASSUME NEW c \in Calls, Unprepared(c) PROVE RoundInv'
  BY <1>4, UnpreparedKeeps
<1>5. ASSUME NEW c \in Calls, OperatorCall(c) PROVE RoundInv'
  BY <1>5, OperatorCallKeeps
<1>6. ASSUME NEW c \in Calls, OperatorReply(c) PROVE RoundInv'
  BY <1>6, OperatorReplyKeeps
<1>7. ASSUME NEW c \in Calls, NEW d \in Calls, Reply(c, d) PROVE RoundInv'
  BY <1>7, ReplyKeeps
<1>8. ASSUME NEW c \in Calls, DispatchFails(c) PROVE RoundInv'
  BY <1>8, DispatchFailsKeeps
<1>9. ASSUME NEW c \in Calls, Turn(c) PROVE RoundInv'
  <2>1. deliveries' \subseteq Calls /\ UNCHANGED <<sessionVars, historyVars>>
    BY <1>9, TypeOKIs DEF Turn, RoundInv
  <2> QED
    BY <2>1, DeliveryKeeps
<1>10. ASSUME NEW c \in Calls, Delivered(c) \/ Undelivered(c) \/ Rejected(c) PROVE RoundInv'
  BY <1>10, DeliveredKeeps
<1>11. ASSUME NEW c \in Calls, NEW n \in Calls, Recovers(c, n) PROVE RoundInv'
  BY <1>11, RecoversKeeps
<1>12. ASSUME NEW c \in Calls, Completes(c) PROVE RoundInv'
  BY <1>12, CompletesKeeps
<1>13. ASSUME NEW c \in Calls, AnswersNoRun(c) PROVE RoundInv'
  BY <1>13, AnswersNoRunKeeps
<1>14. CASE UNCHANGED vars
  <2>1. deliveries' \subseteq Calls /\ UNCHANGED <<sessionVars, historyVars>>
    BY <1>14, TypeOKIs DEF vars, RoundInv
  <2> QED
    BY <2>1, DeliveryKeeps
<1> QED
  BY <1>1, <1>2, <1>3, <1>4, <1>5, <1>6, <1>7, <1>8, <1>9, <1>10, <1>11, <1>12,
     <1>13, <1>14 DEF Next

\* Whatever the messages, operators, rejections and failures of a
\* conversation, and in whatever order they come, its rounds, runs and calls
\* are related as RoundInv says.
THEOREM RoundInvariant == Spec => []RoundInv
<1>1. Init => RoundInv
  BY RoundInvInit
<1>2. RoundInv /\ [Next]_vars => RoundInv'
  BY RoundInvStep
<1> QED
  BY <1>1, <1>2, PTL DEF Spec

\* The state of the session has its types; in particular no round makes a
\* second attempt at a recovery (planSensitiveRecovery()).
THEOREM RoundTypeCorrect == Spec => []TypeOK
<1>1. RoundInv => TypeOK
  BY DEF RoundInv
<1> QED
  BY <1>1, RoundInvariant, PTL

\* As long as no round lost its unfinished run, to another run or to the
\* disposal of a round that had it before, the buyer is answered by one run at
\* a time: of any two dispatches whose text would be forwarded, one has been
\* superseded.
THEOREM RoundOneVoice == Spec => []OneVoice
<1>1. RoundInv => OneVoice
  <2> SUFFICES ASSUME RoundInv, ~shared, NEW c \in Voices, NEW d \in Voices
               PROVE  c = d
    BY DEF OneVoice
  <2>1. HomeInv /\ MarkedInv /\ FreshInv
    BY DEF RoundInv
  <2>2. ASSUME NEW e \in Voices
        PROVE  e \in Calls /\ round[active].run \in {Placeholder(e), Run(e)}
    <3>1. CASE call[e].at = "registered" /\ Speaks(e)
      <4>1. e \in Calls
        BY DEF Voices
      <4>2. owner[e] = call[e].rnd /\ round[call[e].rnd].run = Run(e)
        BY <2>1, <3>1, <4>1 DEF HomeInv
      <4>3. Run(e) \notin round[call[e].rnd].aborted
        BY <3>1, <4>2 DEF Speaks, IsRunAborted
      <4>4. call[e].rnd = active
        BY <2>1, <3>1, <4>1, <4>3 DEF MarkedInv
      <4> QED
        BY <4>1, <4>2, <4>4
    <3>2. CASE Claims(e)
      BY <3>2 DEF Claims, Voices
    <3> QED
      BY <3>1, <3>2 DEF Voices
  <2>3. /\ round[active].run \in {Placeholder(c), Run(c)}
        /\ round[active].run \in {Placeholder(d), Run(d)}
    BY <2>2
  <2> QED
    BY <2>3, RunIdsDiffer
<1> QED
  BY <1>1, RoundInvariant, PTL

\* As long as no round lost its unfinished run, a dispatch of a buyer message
\* bails out only after a newer message, never because an older round ends late.
THEOREM RoundOnlyNewer == Spec => []OnlyNewerUnlessShared
<1>1. RoundInv => OnlyNewerUnlessShared
  BY DEF RoundInv, MarkedInv, OnlyNewerUnlessShared
<1> QED
  BY <1>1, RoundInvariant, PTL

\* As long as no round lost its unfinished run, no text of a run that a buyer
\* message aborted starts on its way to the buyer, in whatever phase the dispatch
\* was, unless a later call is answered with that run.
THEOREM RoundSupersededSilent == Spec => SupersededStaysSilent
<1> DEFINE Silent == ~shared' => \A c \in deliveries' \ deliveries : c \notin superseded
<1>1. RoundInv /\ [Next]_vars => [Silent]_vars
  <2> SUFFICES ASSUME RoundInv, Next, ~shared',
                      NEW c \in deliveries' \ deliveries, c \in superseded
               PROVE  FALSE
    OBVIOUS
  <2>1. Turn(c)
    <3>1. \A d \in Calls : Turn(d) => deliveries' = deliveries \cup {d}
      BY DEF Turn
    <3>2. (\E d \in Calls : Turn(d)) \/ deliveries' \subseteq deliveries
      <4>1. QuietWindowEnds => deliveries' = deliveries
        BY DEF QuietWindowEnds
      <4>2. ASSUME NEW d \in Calls
            PROVE  /\ \A m \in Msgs : BuyerMessage(d, m) => deliveries' = deliveries
                   /\ Prepared(d) \/ Unprepared(d) \/ OperatorCall(d) \/ OperatorReply(d)
                        \/ AnswersNoRun(d) \/ DispatchFails(d) => deliveries' = deliveries
                   /\ \A e \in Calls : /\ Reply(d, e) => deliveries' = deliveries
                                       /\ Recovers(d, e) => deliveries' \subseteq deliveries
                   /\ Delivered(d) \/ Undelivered(d) \/ Rejected(d) \/ Completes(d)
                        => deliveries' \subseteq deliveries
        <5>1. \A m \in Msgs : BuyerMessage(d, m) => deliveries' = deliveries
          BY DEF BuyerMessage
        <5>2. Prepared(d) \/ Unprepared(d) \/ OperatorCall(d) => deliveries' = deliveries
          BY DEF Prepared, Unprepared, OperatorCall
        <5>3. OperatorReply(d) \/ AnswersNoRun(d) \/ DispatchFails(d) => deliveries' = deliveries
          BY DEF OperatorReply, AnswersNoRun, DispatchFails
        <5>4. \A e \in Calls : Reply(d, e) => deliveries' = deliveries
          BY DEF Reply
        <5>5. \A e \in Calls : Recovers(d, e) => deliveries' \subseteq deliveries
          BY DEF Recovers
        <5>6. Delivered(d) \/ Undelivered(d) => deliveries' \subseteq deliveries
          BY DEF Delivered, Undelivered
        <5>7. Rejected(d) \/ Completes(d) => deliveries' \subseteq deliveries
          BY DEF Rejected, Completes
        <5> QED
          BY <5>1, <5>2, <5>3, <5>4, <5>5, <5>6, <5>7
      <4> QED
        BY <4>1, <4>2 DEF Next
    <3> QED
      BY <3>1, <3>2
  <2>2. ~shared /\ call[c].at = "registered" /\ owner[c] # 0
        /\ Run(c) \notin round[owner[c]].aborted
    BY <2>1 DEF Turn, Speaks, IsRunAborted, historyVars
  <2>3. HomeInv /\ MarkedInv
    BY <2>2 DEF RoundInv
  <2>4. c \in Calls /\ Run(c) \in round[call[c].rnd].aborted
    BY <2>2, <2>3 DEF MarkedInv
  <2>5. owner[c] = call[c].rnd
    BY <2>2, <2>3, <2>4 DEF HomeInv
  <2> QED
    BY <2>2, <2>4, <2>5
<1> HIDE DEF Silent
<1>2. Spec => [][Silent]_vars
  BY <1>1, RoundInvariant, PTL DEF Spec
<1> QED
  BY <1>2 DEF Silent, SupersededStaysSilent
=============================================================================
