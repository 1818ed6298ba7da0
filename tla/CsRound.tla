------------------------------ MODULE CsRound ------------------------------
(***************************************************************************)
(* The rounds of one customer-service conversation: class                  *)
(* CustomerServiceSession (cs-bridge/customer-service-session.ts), class   *)
(* CSRound (cs-bridge/cs-round.ts) and what the bridge does with the runs  *)
(* of a session (ecommerce-relay/ecommerce-relay-bridge.ts): text of a     *)
(* turn is forwarded to the buyer, the end of a run is noted.              *)
(*                                                                         *)
(* A call is a dispatch: of a buyer message, of an operator or an          *)
(* escalation, or of the recovery from a reply the marketplace rejected.   *)
(* A call asks for one run at most, and the round it creates bears its     *)
(* number.  So does the run that the gateway starts for it; but a call for *)
(* a message that an earlier call was for has the idempotency key of that  *)
(* one, and may be answered with its run, whatever became of it.  Answers  *)
(* come in the order of the requests, and only dispatches of buyer         *)
(* messages have a key in common.  A run has one delivery under way at a   *)
(* time.                                                                   *)
(***************************************************************************)
EXTENDS Naturals, FiniteSets

CONSTANTS
  Msgs,    \* the buyer's messages
  MaxCalls \* bound on the calls

ASSUME RoundBoundsAssumption == MaxCalls \in Nat

VARIABLES
  pending,      \* pendingBuyerDispatch, or 0
  active,       \* activeRound, or 0
  round,        \* the rounds; one that is no longer referred to stays as it is
  owner,        \* roundsByRunId, 0 where it has no entry
  call,         \* the calls
  deliveries,   \* the runs with a forwardTextToBuyer() under way
  superseded,   \* history: calls a buyer message aborted
  overtaken,    \* history: calls a newer buyer message came after
  bailed,       \* history: calls that returned as superseded
  shared        \* history: did a round ever lose its unfinished run, to another
                \* run or to the disposal of a round that had it before?

sessionVars == <<pending, active, round, owner, call>>
historyVars == <<superseded, overtaken, bailed, shared>>
vars == <<sessionVars, deliveries, historyVars>>

Calls == 1..MaxCalls
NoRun == <<>>
Placeholder(c) == <<"pending", c>>
Run(c) == <<"run", c>>
RunIds == {NoRun} \cup {Placeholder(c) : c \in Calls} \cup {Run(c) : c \in Calls}

Kinds == {"none", "buyer", "operator", "recovery"}
Places == {"unused", "quiet", "preparing", "asked", "registered", "done"}
NotUsed == [kind |-> "none", msg |-> {}, at |-> "unused", rnd |-> 0]

\* A round: activeRunId, abortedRunIds, the real ones of trackedRunIds,
\* disposeWhenIdle, sensitiveRecoveryAttempts.
NewRound(run) ==
  [run |-> run, aborted |-> {}, tracked |-> {}, dispose |-> FALSE, attempts |-> 0]

Init ==
  /\ pending = 0 /\ active = 0
  /\ round = [r \in Calls |-> NewRound(NoRun)]
  /\ owner = [c \in Calls |-> 0]
  /\ call = [c \in Calls |-> NotUsed]
  /\ deliveries = {} /\ superseded = {} /\ overtaken = {} /\ bailed = {}
  /\ shared = FALSE

\* c is the next call.
Fresh(c) == call[c].at = "unused" /\ \A d \in 1..(c - 1) : call[d].at # "unused"
-----------------------------------------------------------------------------
(***************************************************************************)
(* Rounds.                                                                 *)
(***************************************************************************)

\* CSRound.destroy()
Destroyed(r) == [NewRound(NoRun) EXCEPT !.dispose = r.dispose]

\* Does the disposal of round R, R being r by now, take the entry of a run
\* that goes on in another round?
Robs(R, r, own) == \E c \in r.tracked : call[c].at = "registered" /\ own[c] # R

\* Mutation: whichever round is active is forgotten.
SettleForgets(R, r, own, now) ==
  IF r.dispose /\ r.run = NoRun
  THEN /\ round' = [round EXCEPT ![R] = Destroyed(r)]
       /\ owner' = [c \in Calls |-> IF c \in r.tracked THEN 0 ELSE own[c]]
       /\ active' = 0
       /\ shared' = (shared \/ Robs(R, r, own))
  ELSE /\ round' = [round EXCEPT ![R] = r]
       /\ owner' = own
       /\ active' = now
       /\ UNCHANGED shared

\* disposeRound(R), R being r by now, if it is to go and has no active run;
\* own is roundsByRunId and now the active round until then.
Settle(R, r, own, now) ==
  IF r.dispose /\ r.run = NoRun
  THEN /\ round' = [round EXCEPT ![R] = Destroyed(r)]
       /\ owner' = [c \in Calls |-> IF c \in r.tracked THEN 0 ELSE own[c]]
       /\ active' = IF now = R THEN 0 ELSE now
       /\ shared' = (shared \/ Robs(R, r, own))
  ELSE /\ round' = [round EXCEPT ![R] = r]
       /\ owner' = own
       /\ active' = now
       /\ UNCHANGED shared

\* clearPlaceholderIfCurrent()
Cleared(r, c) == [r EXCEPT !.run = IF @ = Placeholder(c) THEN NoRun ELSE @]

\* markRoundTerminal() and onDeliverySucceeded() before their check.
Terminal(r) == [r EXCEPT !.dispose = TRUE]
Delivery(r) == [Terminal(r) EXCEPT !.attempts = 0]

\* Mutation: the marker of the placeholder is not passed on to the run.
ResolvedUnmarked(r, c, d, owns) ==
  [r EXCEPT !.run = IF @ = Placeholder(c) THEN Run(d) ELSE @,
            !.tracked = @ \cup {d},
            !.aborted = @ \ {Placeholder(c)}]

\* markDispatchResolved(): call c was answered with run d.
Resolved(r, c, d, owns) ==
  LET stale == Placeholder(c) \in r.aborted \/ ~owns \/ r.run # Placeholder(c)
  IN  [r EXCEPT !.run = IF @ = Placeholder(c) THEN Run(d) ELSE @,
                !.tracked = @ \cup {d},
                !.aborted = (@ \ {Placeholder(c)}) \cup (IF stale THEN {Run(d)} ELSE {})]

\* May the text of run c go to the buyer?
IsRunAborted(c) == owner[c] # 0 /\ Run(c) \in round[owner[c]].aborted
-----------------------------------------------------------------------------
(***************************************************************************)
(* Buyer messages.                                                         *)
(***************************************************************************)

\* The message is that of the pending dispatch, or that of the active round
\* while it has a run.
Duplicate(m) ==
  IF pending # 0 THEN call[pending].msg = {m}
  ELSE active # 0 /\ round[active].run # NoRun /\ call[active].msg = {m}

\* abortActiveRun()
Aborted(r) ==
  IF r.run = NoRun THEN r
  ELSE [r EXCEPT !.aborted = @ \cup {r.run}, !.dispose = TRUE]

\* enqueueBuyerCatchUpDispatch() for m, call c.  The gateway hears of an
\* abort at any later time, or never: it may end any run.
BuyerMessage(c, m) ==
  /\ Fresh(c) /\ ~Duplicate(m)
  /\ IF pending # 0
     THEN /\ round' = [round EXCEPT ![pending] = Destroyed(@), ![c] = NewRound(Placeholder(c))]
          /\ UNCHANGED superseded
     ELSE IF active # 0
     THEN /\ round' = [round EXCEPT ![active] = Aborted(@), ![c] = NewRound(Placeholder(c))]
          /\ superseded' = superseded \cup
               {d \in Calls : round[active].run \in {Placeholder(d), Run(d)}}
     ELSE /\ round' = [round EXCEPT ![c] = NewRound(Placeholder(c))]
          /\ UNCHANGED superseded
  /\ call' = [d \in Calls |->
                IF d = c THEN [kind |-> "buyer", msg |-> {m}, at |-> "quiet", rnd |-> c]
                ELSE IF d = pending THEN [call[d] EXCEPT !.at = "done"]
                ELSE call[d]]
  /\ pending' = c /\ active' = c
  /\ overtaken' = overtaken \cup {d \in Calls : call[d].at # "unused"}
  /\ UNCHANGED <<owner, deliveries, bailed, shared>>

\* The quiet window is over: flushPendingBuyerDispatch().
QuietWindowEnds ==
  /\ pending # 0
  /\ call' = [call EXCEPT ![pending].at = "preparing"]
  /\ pending' = 0
  /\ UNCHANGED <<active, round, owner, deliveries, historyVars>>

\* Is call c still the one the session waits for?
Claims(c) == active = call[c].rnd /\ round[call[c].rnd].run = Placeholder(c)

\* ensureBackendSession(), the conversation's delta and its image: each is
\* followed by the same check.
Prepared(c) ==
  /\ call[c].at = "preparing"
  /\ IF Claims(c)
     THEN call' = [call EXCEPT ![c].at = "asked"] /\ UNCHANGED bailed
     ELSE call' = [call EXCEPT ![c].at = "done"] /\ bailed' = bailed \cup {c}
  /\ UNCHANGED <<pending, active, round, owner, deliveries,
                 superseded, overtaken, shared>>

\* The backend refuses the session.
Unprepared(c) ==
  /\ call[c].at = "preparing"
  /\ call' = [call EXCEPT ![c].at = "done"]
  /\ round' = [round EXCEPT ![call[c].rnd] =
                 IF active = call[c].rnd THEN Cleared(@, c) ELSE @]
  /\ UNCHANGED <<pending, active, owner, deliveries, historyVars>>
-----------------------------------------------------------------------------
(***************************************************************************)
(* dispatch(): admission, setup and the request for a run.                 *)
(***************************************************************************)

\* An operator's start, or an escalation: no placeholder, no round yet.
OperatorCall(c) ==
  /\ Fresh(c)
  /\ call' = [call EXCEPT ![c] = [kind |-> "operator", msg |-> {}, at |-> "asked", rnd |-> 0]]
  /\ UNCHANGED <<pending, active, round, owner, deliveries, historyVars>>

\* The answer, without a placeholder: assumeRunDispatched() on the active
\* round, or on one of its own.
OperatorReply(c) ==
  /\ call[c].at = "asked" /\ call[c].kind = "operator"
  /\ LET R == IF active # 0 THEN active ELSE c
     IN  /\ active' = R
         /\ round' = [round EXCEPT ![R].run = Run(c), ![R].tracked = @ \cup {c}]
         /\ owner' = [owner EXCEPT ![c] = R]
         /\ call' = [call EXCEPT ![c].at = "registered", ![c].rnd = R]
         /\ shared' = (shared \/ round[R].run # NoRun)
  /\ UNCHANGED <<pending, deliveries, superseded, overtaken, bailed>>

\* The runs that a call may be answered with: a new one, or that of an
\* earlier call with its idempotency key (catchUpIdempotencyKey()).
Answers(c) ==
  {c} \cup {d \in 1..(c - 1) : /\ call[c].kind = "buyer" /\ call[d].kind = "buyer"
                             /\ call[d].msg = call[c].msg
                             /\ call[d].at \in {"registered", "done"}}

\* The answer, with a placeholder: markDispatchResolved() and
\* attachRunToRound().  A run that was superseded before answers again.
Reply(c, d) ==
  /\ call[c].at = "asked" /\ call[c].kind # "operator"
  /\ d \in Answers(c)
  /\ LET R == call[c].rnd
     IN  /\ active' = IF active = 0 THEN R ELSE active
         /\ round' = [round EXCEPT ![R] = Resolved(@, c, d, active' = R)]
         /\ owner' = [owner EXCEPT ![d] = R]
         /\ call' = [e \in Calls |->
                       IF e = d THEN [call[e] EXCEPT !.at = "registered", !.rnd = R]
                       ELSE IF e = c THEN [call[e] EXCEPT !.at = "done"]
                       ELSE call[e]]
  /\ superseded' = IF c \in superseded THEN superseded \cup {d} ELSE superseded \ {d}
  /\ UNCHANGED <<pending, deliveries, overtaken, bailed, shared>>

\* The answer names no run.  A call without a round leaves a new one with a
\* placeholder that nothing replaces; a recovery that was to be is over.
AnswersNoRun(c) ==
  /\ call[c].at = "asked"
  /\ call' = [call EXCEPT ![c].at = "done"]
  /\ LET R == IF call[c].kind = "operator" THEN c ELSE call[c].rnd
         now == IF active = 0 THEN R ELSE active
     IN  \/ /\ call[c].kind = "operator"
            /\ active' = now
            /\ round' = [round EXCEPT ![R] = IF active = 0 THEN NewRound(Placeholder(c)) ELSE @]
            /\ UNCHANGED <<owner, shared>>
         \/ /\ call[c].kind = "buyer"
            /\ active' = now
            /\ round' = [round EXCEPT ![R] = IF now = R THEN Cleared(@, c) ELSE @]
            /\ UNCHANGED <<owner, shared>>
         \/ /\ call[c].kind = "recovery"
            /\ Settle(R, Terminal(Cleared(round[R], c)), owner, now)
  /\ UNCHANGED <<pending, deliveries, superseded, overtaken, bailed>>

\* What the callers of dispatch() do about an exception.
FailureNoticed(c) ==
  LET R == call[c].rnd
  IN  IF call[c].kind = "recovery" \/ (call[c].kind = "buyer" /\ active = R)
      THEN LET r == Terminal(Cleared(round[R], c))
           IN  Settle(R, IF call[c].kind = "recovery" /\ r.attempts > 0
                         THEN [r EXCEPT !.attempts = @ - 1] ELSE r, owner, active)
      ELSE UNCHANGED <<active, round, owner, shared>>

\* Admission is cancelled, setup or request fails, or the answer is late.
DispatchFails(c) ==
  /\ call[c].at = "asked"
  /\ call' = [call EXCEPT ![c].at = "done"]
  /\ FailureNoticed(c)
  /\ UNCHANGED <<pending, deliveries, superseded, overtaken, bailed>>
-----------------------------------------------------------------------------
(***************************************************************************)
(* Runs.                                                                   *)
(***************************************************************************)

\* Mutation: the text of an aborted run is forwarded.
SpeaksAlways(c) == owner[c] # 0

\* Does flushTurnText() forward the text of run c?
Speaks(c) == owner[c] # 0 /\ ~IsRunAborted(c)

\* A turn of run c ends with text: flushTurnText().
Turn(c) ==
  /\ call[c].at = "registered" /\ c \notin deliveries
  /\ Speaks(c)
  /\ deliveries' = deliveries \cup {c}
  /\ UNCHANGED <<sessionVars, historyVars>>

\* The backend takes the text.
Delivered(c) ==
  /\ c \in deliveries
  /\ deliveries' = deliveries \ {c}
  /\ IF owner[c] # 0 THEN Settle(owner[c], Delivery(round[owner[c]]), owner, active)
     ELSE UNCHANGED <<active, round, owner, shared>>
  /\ UNCHANGED <<pending, call, superseded, overtaken, bailed>>

\* It does not, for good: handleRunDeliveryFailure().
Undelivered(c) ==
  /\ c \in deliveries
  /\ deliveries' = deliveries \ {c}
  /\ IF owner[c] # 0 /\ ~IsRunAborted(c)
     THEN Settle(owner[c], Terminal(round[owner[c]]), owner, active)
     ELSE UNCHANGED <<active, round, owner, shared>>
  /\ UNCHANGED <<pending, call, superseded, overtaken, bailed>>

\* dispatchSensitiveContentRecovery(): the round that a recovery of run c
\* joins is its own, else the active one, else 0, for a new one.
RecoveryRound(c) == IF owner[c] # 0 THEN owner[c] ELSE active

\* planSensitiveRecovery(): run c is no recovery that round R knows of, and R
\* made no attempt yet.
MayRecover(c, R) ==
  /\ ~(call[c].kind = "recovery" /\ call[c].rnd = R /\ c \in round[R].tracked)
  /\ round[R].attempts = 0

\* The marketplace rejects the text and the agent is asked for another, as
\* call n: beginFollowUpDispatch().
Recovers(c, n) ==
  /\ c \in deliveries /\ ~IsRunAborted(c) /\ Fresh(n)
  /\ RecoveryRound(c) # 0 => MayRecover(c, RecoveryRound(c))
  /\ deliveries' = deliveries \ {c}
  /\ LET R == IF RecoveryRound(c) = 0 THEN n ELSE RecoveryRound(c)
     IN  /\ round' = [round EXCEPT ![R].run = Placeholder(n), ![R].attempts = @ + 1]
         /\ owner' = [owner EXCEPT ![c] = R]
         /\ active' = IF active = 0 /\ R = n THEN n ELSE active
         /\ call' = [call EXCEPT ![n] =
               [kind |-> "recovery", msg |-> {}, at |-> "asked", rnd |-> R]]
         /\ shared' = (shared \/ round[R].run # NoRun)
  /\ UNCHANGED <<pending, superseded, overtaken, bailed>>

\* It rejects the text and there has been a recovery already.
Rejected(c) ==
  /\ c \in deliveries /\ ~IsRunAborted(c)
  /\ RecoveryRound(c) # 0 /\ ~MayRecover(c, RecoveryRound(c))
  /\ deliveries' = deliveries \ {c}
  /\ Settle(RecoveryRound(c), Terminal(round[RecoveryRound(c)]),
            [owner EXCEPT ![c] = RecoveryRound(c)], active)
  /\ UNCHANGED <<pending, call, superseded, overtaken, bailed>>

\* Run c has ended and its terminal event, or a probe, is taken note of:
\* completePendingRun(), CSRound.completeRun().
Completes(c) ==
  /\ call[c].at = "registered"
  /\ call' = [call EXCEPT ![c].at = "done"]
  /\ IF owner[c] = 0
     THEN UNCHANGED <<active, round, owner, shared>>
     ELSE LET r == round[owner[c]]
          IN  Settle(owner[c], [r EXCEPT !.aborted = @ \ {Run(c)},
                                         !.run = IF @ = Run(c) THEN NoRun ELSE @],
                     owner, active)
  /\ UNCHANGED <<pending, deliveries, superseded, overtaken, bailed>>
-----------------------------------------------------------------------------
Next ==
  \/ QuietWindowEnds
  \/ \E c \in Calls :
       \/ \E m \in Msgs : BuyerMessage(c, m)
       \/ Prepared(c) \/ Unprepared(c) \/ OperatorCall(c)
       \/ OperatorReply(c) \/ (\E d \in Calls : Reply(c, d))
       \/ AnswersNoRun(c) \/ DispatchFails(c)
       \/ Turn(c) \/ Delivered(c) \/ Undelivered(c)
       \/ \E n \in Calls : Recovers(c, n)
       \/ Rejected(c) \/ Completes(c)

Spec == Init /\ [][Next]_vars
-----------------------------------------------------------------------------
\* Types; no round makes more than one attempt at a recovery.
TypeOK ==
  /\ pending \in {0} \cup Calls
  /\ active \in {0} \cup Calls
  /\ round \in [Calls -> [run : RunIds, aborted : SUBSET RunIds, tracked : SUBSET Calls,
                          dispose : BOOLEAN, attempts : 0..1]]
  /\ owner \in [Calls -> {0} \cup Calls]
  /\ call \in [Calls -> [kind : Kinds, msg : SUBSET Msgs, at : Places, rnd : {0} \cup Calls]]
  /\ deliveries \subseteq Calls

\* A run that a buyer message aborted says nothing any more, in whatever
\* phase of its dispatch the message came, unless a later call is answered
\* with it.  The exception is a session one of whose rounds lost its
\* unfinished run: to an operator's run or a recovery, as a round remembers
\* only one active run, so that it may go while the other is unfinished, and
\* the marker of that one goes with it; or to the disposal of an older round
\* that had the run first, which takes the run's entry (disposeRound()).
SupersededStaysSilent ==
  [][~shared' => \A c \in deliveries' \ deliveries : c \notin superseded]_vars

\* The calls whose run speaks to the buyer or will do so.
Voices ==
  {c \in Calls :
     \/ call[c].at \in {"quiet", "preparing", "asked"} /\ call[c].rnd # 0
          /\ Claims(c) /\ Placeholder(c) \notin round[call[c].rnd].aborted
     \/ call[c].at = "registered" /\ Speaks(c)}

\* The buyer is answered by one run at a time: of two dispatches whose text
\* would be forwarded one has been superseded; with the same exception, because
\* a newer message silences only the run that the round remembers.
OneVoice == ~shared => \A c, d \in Voices : c = d

\* The dispatch of a buyer message gives way to a newer buyer message only,
\* never because of an older round that ends late; with the same exception.
OnlyNewerUnlessShared == ~shared => bailed \subseteq overtaken

\* What the test of the bail-out says of it, without the exception: "earlier
\* message bails when newer message took over".  An operator's run or a
\* recovery that takes the pending message's round makes it bail as well.
OnlyNewer == bailed \subseteq overtaken
=============================================================================
