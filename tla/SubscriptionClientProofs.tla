----------------------- MODULE SubscriptionClientProofs -----------------------
(***************************************************************************)
(* Proofs about SubscriptionClient.  The inductive invariant joins what a  *)
(* handler leaves behind in the client (ClientInv) to what the client was  *)
(* told of the session (ToldInv).  The lemmas about the transport state    *)
(* what each operator on it returns; every handler is built from them.     *)
(***************************************************************************)
EXTENDS SubscriptionClient, TLAPS

\* Only an open or closing socket is acknowledged, and one whose restart was
\* requested is closing.
Sound(t) ==
  /\ t \in Transport
  /\ t.connected => t.sock \in {"open", "closing"}
  /\ t.connected /\ t.restarted => t.sock = "closing"

Up(t) == t.sock = "open" /\ t.connected

Watched(t, f) ==
  ~t.connected /\ t.sock # "none" /\ Engaged(f) \cap Lasting # {} => t.stall

OpsOK(f) == f \in [Operations -> OpStates] /\ \A o \in Operations : f[o] # "stale"

\* Every registered operation has an attempt, a timer or a refusal.
AllRun(f) == \A o \in Registered(f) : f[o] \in {"current", "retry_wait", "blocked"}

ClientInv ==
  /\ authState \in {"disabled", "active", "suspended"}
  /\ authToken \in Tokens \cup {NoToken}
  /\ Sound(transport)
  /\ OpsOK(op)
  /\ authState # "active" => Engaged(op) = {}
  /\ authState = "active" => authToken # NoToken
  /\ authState = "active" /\ authToken = token /\ Up(transport) /\ Holding(op) # {} =>
       Identity(transport.carries) = Identity(token)
  /\ Watched(transport, op)

SessionInv ==
  /\ token \in Tokens \cup {NoToken}
  /\ issued \in 0..MaxTokens
  /\ refresh \in {"none", "asked", "stored", "cleared"}
  /\ superseded \in BOOLEAN
  /\ changed \in BOOLEAN
  /\ lifecycle \in BOOLEAN
  /\ recovery \in {"none", "asked", "done", "failed"}
  /\ token # NoToken => token[2] <= issued
  /\ authToken # NoToken => authToken[2] <= issued

\* Once the listeners have heard of the last change, the client has its token.
ToldInv ==
  ~changed /\ refresh \in {"none", "asked"} /\ authState = "active" =>
    authToken = token

IInv == SessionInv /\ ClientInv /\ ToldInv /\ RunsOnThisGeneration

\* What a step issues on a socket that is up, it issues under the token.
SubscribesWell ==
  Up(transport') =>
    \/ transport'.carries = token'
    \/ /\ Up(transport)
       /\ \A o \in Operations : op'[o] = "current" => op[o] = "current"
-----------------------------------------------------------------------------
(* What the operators on the transport return. *)

LEMMA ArmedFields ==
  ASSUME NEW t \in Transport, NEW f
  PROVE  /\ Armed(t, f) \in Transport
         /\ Armed(t, f).sock = t.sock /\ Armed(t, f).connected = t.connected
         /\ Armed(t, f).opening = t.opening /\ Armed(t, f).carries = t.carries
         /\ Armed(t, f).restarted = t.restarted /\ Armed(t, f).stage = t.stage
         /\ Armed(t, f).stall = (~t.connected /\ Engaged(f) # {})
<1>1. /\ Armed(t, f).sock = t.sock /\ Armed(t, f).connected = t.connected
      /\ Armed(t, f).opening = t.opening /\ Armed(t, f).carries = t.carries
      /\ Armed(t, f).restarted = t.restarted /\ Armed(t, f).stage = t.stage
      /\ Armed(t, f).stall = (~t.connected /\ Engaged(f) # {})
  BY DEF Armed, Transport
<1>2. Armed(t, f) \in Transport
  BY DEF Armed, Transport
<1> QED BY <1>1, <1>2

LEMMA ArmedIsWatched ==
  ASSUME NEW t \in Transport, NEW f
  PROVE  Watched(Armed(t, f), f)
BY ArmedFields DEF Watched

LEMMA ClosedFields ==
  ASSUME NEW t \in Transport, NEW f
  PROVE  /\ Closed(t, f) \in Transport
         /\ Closed(t, f).sock = "none" /\ Closed(t, f).connected = FALSE
<1> DEFINE u == [t EXCEPT !.sock = "none", !.connected = FALSE, !.carries = NoToken]
<1>1. u \in Transport /\ u.sock = "none" /\ u.connected = FALSE
  BY DEF Transport
<1> HIDE DEF u
<1>2. Closed(t, f) = Armed(u, f)
  BY DEF Closed, u
<1> QED BY <1>1, <1>2, ArmedFields

LEMMA RestartedFields ==
  ASSUME NEW t, Sound(t), NEW f
  PROVE  /\ Sound(Restarted(t, f))
         /\ Restarted(t, f).sock \in {"none", "closing"}
         /\ Restarted(t, f).sock = "none" => ~Restarted(t, f).connected
         /\ Restarted(t, f).sock = "closing" =>
              /\ t.sock = "open"
              /\ Restarted(t, f).connected = t.connected
              /\ Restarted(t, f).stall = t.stall
<1> DEFINE asked == [t EXCEPT !.restarted = @ \/ t.connected]
<1>1. /\ asked \in Transport /\ asked.sock = t.sock /\ asked.connected = t.connected
      /\ asked.stall = t.stall
  BY DEF Sound, Transport
<1>2. CASE t.sock = "open"
  <2>1. Restarted(t, f) = [asked EXCEPT !.sock = "closing"]
    BY <1>2 DEF Restarted
  <2>2. /\ Restarted(t, f) \in Transport /\ Restarted(t, f).sock = "closing"
        /\ Restarted(t, f).connected = t.connected /\ Restarted(t, f).stall = t.stall
    BY <1>1, <2>1 DEF Transport
  <2> QED BY <1>2, <2>2 DEF Sound
<1>3. CASE t.sock # "open"
  <2>1. Restarted(t, f) = Terminated(asked, f)
    BY <1>3 DEF Restarted
  <2>2. CASE t.sock = "none" /\ Holding(f) = {}
    <3>1. Restarted(t, f) = asked
      BY <1>1, <2>1, <2>2 DEF Terminated
    <3> QED BY <1>1, <2>2, <3>1 DEF Sound
  <2>3. CASE ~(t.sock = "none" /\ Holding(f) = {})
    <3>1. Restarted(t, f) = Closed(asked, f)
      BY <1>1, <2>1, <2>3 DEF Terminated
    <3>2. Closed(asked, f) \in Transport /\ Closed(asked, f).sock = "none"
          /\ Closed(asked, f).connected = FALSE
      BY <1>1, ClosedFields
    <3> QED BY <3>1, <3>2 DEF Sound
  <2> QED BY <2>2, <2>3
<1> QED BY <1>2, <1>3

LEMMA TerminatedFields ==
  ASSUME NEW t, Sound(t), NEW f
  PROVE  /\ Sound(Terminated(t, f))
         /\ ~Terminated(t, f).connected /\ Terminated(t, f).sock = "none"
BY ClosedFields DEF Terminated, Sound

LEMMA CredentialsCurrentFields ==
  ASSUME NEW t, Sound(t), NEW f
  PROVE  /\ Sound(CredentialsCurrent(t, f))
         /\ Up(CredentialsCurrent(t, f)) => CredentialsCurrent(t, f) = t /\ t.carries = token
         /\ ~CredentialsCurrent(t, f).connected /\ CredentialsCurrent(t, f).sock # "none" =>
              CredentialsCurrent(t, f) = t
<1>1. CASE t.connected /\ t.carries # token /\ ~t.restarted
  <2>1. CredentialsCurrent(t, f) = Restarted(t, f)
    BY <1>1 DEF CredentialsCurrent
  <2> QED BY <1>1, <2>1, RestartedFields DEF Up
<1>2. CASE ~(t.connected /\ t.carries # token /\ ~t.restarted)
  <2>1. CredentialsCurrent(t, f) = t
    BY <1>2 DEF CredentialsCurrent
  <2> QED BY <1>2, <2>1 DEF Up, Sound
<1> QED BY <1>1, <1>2

\* A socket that stays open, or is not acknowledged, is the one it was given.
LEMMA BecomesFields ==
  ASSUME NEW t, Sound(t), NEW f, Becomes(t, f)
  PROVE  /\ op' = f
         /\ Sound(transport')
         /\ Up(transport') => transport' = t
         /\ ~transport'.connected => transport' = t
<1>1. CASE t.sock = "open" /\ t.connected /\ Holding(f) = {}
  <2>1. transport' = [t EXCEPT !.sock = "closing"]
    BY <1>1 DEF Becomes
  <2>2. /\ transport' \in Transport /\ transport'.sock = "closing"
        /\ transport'.connected = t.connected
    BY <2>1 DEF Sound, Transport
  <2> QED BY <1>1, <2>2 DEF Becomes, Sound, Up
<1>2. CASE ~(t.sock = "open" /\ t.connected /\ Holding(f) = {})
  BY <1>2 DEF Becomes
<1> QED BY <1>1, <1>2
-----------------------------------------------------------------------------
(* What the handlers of the client leave behind. *)

LEMMA PausedFacts ==
  ASSUME OpsOK(op)
  PROVE  OpsOK(Paused) /\ Engaged(Paused) = {} /\ Holding(Paused) = {}
BY DEF OpsOK, OpStates, Paused, Engaged, Holding

\* Disable and Suspend leave nothing engaged.
LEMMA RestartPausedKeeps ==
  ASSUME ClientInv, authState' \in {"disabled", "suspended"},
         authToken' \in Tokens \cup {NoToken},
         Becomes(Restarted(transport, Paused), Paused)
  PROVE  ClientInv' /\ SubscribesWell
<1>1. Sound(Restarted(transport, Paused))
  BY RestartedFields DEF ClientInv
<1>2. op' = Paused /\ Sound(transport')
  BY <1>1, BecomesFields
<1>3. OpsOK(Paused) /\ Engaged(Paused) = {} /\ Holding(Paused) = {}
  BY PausedFacts DEF ClientInv
<1>4. Sound(transport)' /\ OpsOK(op)' /\ Engaged(op)' = {} /\ Holding(op)' = {}
  BY <1>2, <1>3 DEF Sound, OpsOK, Engaged, Holding
<1>5. Watched(transport, op)'
  BY <1>4 DEF Watched, Engaged, Holding
<1>6. SubscribesWell
  <2>1. Up(transport') => transport' = Restarted(transport, Paused)
    BY <1>1, BecomesFields
  <2> QED BY <2>1, RestartedFields DEF SubscribesWell, Up, ClientInv
<1> QED BY <1>4, <1>5, <1>6 DEF ClientInv

LEMMA DisableKeeps ==
  ASSUME ClientInv, Disable, UNCHANGED token
  PROVE  ClientInv' /\ SubscribesWell /\ authState' # "active" /\ authToken' = NoToken
<1>1. CASE authState = "disabled" /\ authToken = NoToken
  BY <1>1 DEF Disable, SubscribesWell, ClientInv, Sound, OpsOK, Engaged, Holding, Watched, Up, Tokens, OpStates, Transport
<1>2. CASE ~(authState = "disabled" /\ authToken = NoToken)
  BY <1>2, RestartPausedKeeps DEF Disable
<1> QED BY <1>1, <1>2

LEMMA SuspendKeeps ==
  ASSUME ClientInv, Suspend, UNCHANGED token
  PROVE  ClientInv' /\ SubscribesWell /\ authState' # "active" /\ authToken' = authToken
<1>1. CASE authState # "active"
  BY <1>1 DEF Suspend, SubscribesWell, ClientInv, Sound, OpsOK, Engaged, Holding, Watched, Up, Tokens, OpStates, Transport
<1>2. CASE authState = "active"
  <2>1. authState' = "suspended" /\ Becomes(Restarted(transport, Paused), Paused) /\ authToken' = authToken
    BY <1>2 DEF Suspend
  <2> QED BY <2>1, RestartPausedKeeps DEF ClientInv
<1> QED BY <1>1, <1>2

LEMMA ApplyKeeps ==
  ASSUME ClientInv, token \in Tokens, token # NoToken, UNCHANGED token,
         NEW a, NEW b, Apply(a, b)
  PROVE  /\ ClientInv' /\ SubscribesWell
         /\ authToken' \in {authToken, token}
         /\ authState' = "active" => authToken' = token /\ AllRun(op')
<1>1. CASE authState = "disabled" /\ ~a /\ UNCHANGED <<auth, transport, op>>
  BY <1>1 DEF auth, SubscribesWell, ClientInv, Sound, OpsOK, Engaged, Holding, Watched, Up, Tokens, OpStates, Transport
<1>2. CASE ~(authState = "disabled" /\ ~a /\ UNCHANGED <<auth, transport, op>>)
  <2> DEFINE t == IF authState = "suspended" \/ authToken # token \/ b
                  THEN Restarted(transport, op) ELSE transport
             f == [o \in Operations |-> IF o \in OutOfLine(op) THEN "current" ELSE op[o]]
             u == IF f # op THEN CredentialsCurrent(t, op) ELSE t
             w == IF u.connected THEN u ELSE Armed(u, f)
  <2>1. authState' = "active" /\ authToken' = token /\ Becomes(w, f)
    BY <1>2 DEF Apply
  <2>2. Sound(t) /\ (Up(t) => t = transport /\ authState # "suspended" /\ authToken = token)
    BY RestartedFields DEF ClientInv, Up
  <2>3. /\ OpsOK(f)
        /\ \A o \in Operations : f[o] \in {"unregistered", "current"}
    BY DEF ClientInv, OpsOK, OutOfLine, Registered, OpStates
  <2> HIDE DEF t, f
  <2>4. Sound(u) /\ (Up(u) => u = t /\ (f = op \/ t.carries = token))
    BY <2>2, CredentialsCurrentFields DEF u
  <2> HIDE DEF u
  <2>5. /\ Sound(w)
        /\ w.connected => w = u
        /\ ~w.connected => Watched(w, f)
    BY <2>4, ArmedFields, ArmedIsWatched DEF Sound
  <2> HIDE DEF w
  <2>6. /\ op' = f /\ Sound(transport')
        /\ Up(transport') => transport' = w
        /\ ~transport'.connected => transport' = w
    BY <2>1, <2>5, BecomesFields
  <2>7. Watched(transport, op)'
    <3>1. CASE transport'.connected
      BY <3>1 DEF Watched
    <3>2. CASE ~transport'.connected
      BY <2>5, <2>6, <3>2 DEF Watched, Engaged, Holding
    <3> QED BY <3>1, <3>2
  <2>8. ASSUME Up(transport'), Holding(f) # {}
        PROVE  Identity(transport'.carries) = Identity(token)
    <3>1. transport' = t /\ Up(t) /\ (f = op \/ t.carries = token)
      BY <2>4, <2>5, <2>6, <2>8 DEF Up
    <3>2. CASE t.carries = token
      BY <3>1, <3>2
    <3>3. CASE f = op
      <4>1. t = transport /\ authToken = token /\ Holding(op) # {} /\ authState = "active"
        BY <2>2, <2>8, <3>1, <3>3 DEF ClientInv, Engaged
      <4> QED BY <3>1, <4>1 DEF ClientInv
    <3> QED BY <3>1, <3>2, <3>3
  <2>9. Sound(transport)' /\ OpsOK(op)' /\ AllRun(op')
    BY <2>3, <2>6 DEF Sound, OpsOK, AllRun, Registered
  <2>10. authState' = "active" /\ authToken' = authToken' /\ Up(transport)' /\ Holding(op)' # {} =>
         Identity(transport.carries)' = Identity(token)'
    BY <2>6, <2>8 DEF Up, Holding, Identity
  <2>11. SubscribesWell
    BY <2>2, <2>4, <2>5, <2>6 DEF SubscribesWell, Up
  <2> QED BY <2>1, <2>7, <2>9, <2>10, <2>11 DEF ClientInv
<1> QED BY <1>1, <1>2

LEMMA CredentialsChangedKeeps ==
  ASSUME SessionInv, ClientInv, UNCHANGED token, NEW r, CredentialsChanged(r)
  PROVE  /\ ClientInv' /\ SubscribesWell
         /\ authToken' \in {authToken, token, NoToken}
         /\ authState' = "active" =>
              /\ authToken' = token
              /\ AllRun(op') \/ (authState = "active" /\ UNCHANGED <<transport, op>>)
<1>1. CASE token = NoToken
  BY <1>1, DisableKeeps DEF CredentialsChanged
<1>2. CASE token # NoToken /\ CanKeepTransport(r)
  <2>1. authToken' = token /\ UNCHANGED <<authState, transport, op>> /\ authState = "active"
    BY <1>2 DEF CredentialsChanged, CanKeepTransport
  <2>2. Identity(transport.carries) = Identity(token)
    BY <1>2 DEF CanKeepTransport
  <2>3. ClientInv'
    BY <1>2, <2>1, <2>2
       DEF SessionInv, ClientInv, Sound, OpsOK, Engaged, Holding, Watched, Up, Tokens, OpStates, Transport, Identity
  <2> QED BY <2>1, <2>3 DEF SubscribesWell
<1>3. CASE token # NoToken /\ ~CanKeepTransport(r)
  BY <1>3, ApplyKeeps DEF CredentialsChanged, SessionInv
<1> QED BY <1>1, <1>2, <1>3

\* Retry, Register and Resubscribe.
LEMMA StartKeeps ==
  ASSUME ClientInv, UNCHANGED <<token, auth>>, NEW o \in Operations,
         op[o] = "retry_wait" \/ o \notin Lasting,
         Start({o}, transport, op, authState)
  PROVE  /\ ClientInv' /\ SubscribesWell
         /\ Up(transport') => Up(transport)
         /\ authState = "active" => op'[o] = "current"
         /\ \A p \in Operations \ {o} : op'[p] = op[p]
<1> DEFINE f == [p \in Operations |-> IF p \in {o} THEN "current" ELSE op[p]]
           g == [p \in Operations |-> IF p \in {o} THEN "idle" ELSE op[p]]
           t == CredentialsCurrent(transport, op)
<1>1. CASE authState = "active"
  <2>1. Becomes(t, f)
    BY <1>1 DEF Start
  <2>2. /\ OpsOK(f) /\ f[o] = "current" /\ \A p \in Operations \ {o} : f[p] = op[p]
        /\ Engaged(f) \cap Lasting = Engaged(op) \cap Lasting
    BY DEF ClientInv, OpsOK, OpStates, Engaged, Holding
  <2>3. /\ Sound(t)
        /\ Up(t) => t = transport /\ transport.carries = token
        /\ ~t.connected /\ t.sock # "none" => t = transport
    BY CredentialsCurrentFields DEF ClientInv
  <2> HIDE DEF t, f
  <2>4. /\ op' = f /\ Sound(transport')
        /\ Up(transport') => transport' = t
        /\ ~transport'.connected => transport' = t
    BY <2>1, <2>3, BecomesFields
  <2>5. Watched(transport, op)'
    BY <2>2, <2>3, <2>4 DEF ClientInv, Watched, Engaged, Holding
  <2> QED BY <1>1, <2>2, <2>3, <2>4, <2>5
          DEF auth, ClientInv, SubscribesWell, Sound, OpsOK, Up, Holding, Identity
<1>2. CASE authState # "active"
  <2>1. Becomes(transport, g)
    BY <1>2 DEF Start
  <2>2. /\ OpsOK(g) /\ Engaged(g) = {} /\ Holding(g) = {}
        /\ \A p \in Operations \ {o} : g[p] = op[p]
        /\ \A p \in Operations : g[p] = "current" => op[p] = "current"
    BY <1>2 DEF ClientInv, OpsOK, OpStates, Engaged, Holding
  <2> HIDE DEF g
  <2>3. /\ op' = g /\ Sound(transport')
        /\ Up(transport') => transport' = transport
        /\ ~transport'.connected => transport' = transport
    BY <2>1, BecomesFields DEF ClientInv
  <2>4. Watched(transport, op)'
    BY <2>2, <2>3 DEF Watched, Engaged, Holding
  <2> QED BY <1>2, <2>2, <2>3, <2>4
          DEF auth, ClientInv, SubscribesWell, Sound, OpsOK, Up, Engaged, Holding
<1> QED BY <1>1, <1>2

\* An operation leaves its socket.
LEMMA LeavesKeeps ==
  ASSUME ClientInv, UNCHANGED <<token, auth>>, NEW o \in Operations,
         NEW s \in {"idle", "retry_wait", "blocked", "unregistered"},
         s # "retry_wait" \/ (Up(transport) /\ authState = "active"),
         Becomes(transport, [op EXCEPT ![o] = s])
  PROVE  /\ ClientInv' /\ SubscribesWell
         /\ Up(transport') => Up(transport)
         /\ op' = [op EXCEPT ![o] = s]
<1> DEFINE f == [op EXCEPT ![o] = s]
<1>1. /\ OpsOK(f)
      /\ s # "retry_wait" => Engaged(f) \subseteq Engaged(op)
      /\ Holding(f) \subseteq Holding(op)
      /\ \A p \in Operations : f[p] = "current" => op[p] = "current"
  BY DEF ClientInv, OpsOK, OpStates, Engaged, Holding
<1>2. Becomes(transport, f)
  OBVIOUS
<1> HIDE DEF f
<1>3. /\ op' = f /\ Sound(transport')
      /\ Up(transport') => transport' = transport
      /\ ~transport'.connected => transport' = transport
  BY <1>2, BecomesFields DEF ClientInv
<1>4. Watched(transport, op)'
  BY <1>1, <1>3 DEF ClientInv, Watched, Engaged, Holding, Up
<1>5. authState' # "active" => Engaged(op)' = {}
  BY <1>1, <1>3 DEF auth, ClientInv, Engaged, Holding
<1>6. authState' = "active" /\ authToken' = token' /\ Up(transport)' /\ Holding(op)' # {} =>
        Identity(transport.carries)' = Identity(token)'
  <2>1. Holding(op)' = Holding(f)
    BY <1>3 DEF Holding
  <2> QED BY <1>1, <1>3, <2>1 DEF auth, ClientInv, Identity, Up
<1>7. ClientInv'
  BY <1>1, <1>3, <1>4, <1>5, <1>6 DEF auth, ClientInv, Sound, OpsOK
<1> QED BY <1>1, <1>3, <1>7 DEF SubscribesWell, f

LEMMA RecoverFacts ==
  ASSUME SessionInv, Recover
  PROVE  /\ recovery' \in {"none", "asked", "done", "failed"}
         /\ refresh' \in {"none", "asked", "stored", "cleared"}
         /\ superseded' \in BOOLEAN
         /\ recovery # "none" \/ authState = "active" => recovery' # "none"
         /\ refresh' \in {"none", "asked"} => refresh \in {"none", "asked"}
BY DEF SessionInv, Recover
-----------------------------------------------------------------------------
(* Each step keeps the invariant and subscribes under the token. *)

LEMMA InitInv == Init => IInv
<1> SUFFICES ASSUME Init PROVE IInv
  OBVIOUS
<1>1. SessionInv
  <2>1. issued \in 0..MaxTokens
    BY MaxTokensAssumption DEF Init
  <2> QED BY <2>1 DEF Init, SessionInv
<1>2. transport \in Transport /\ transport.sock = "none" /\ ~transport.connected
  BY DEF Init, Transport
<1>3. OpsOK(op) /\ Engaged(op) = {}
  BY DEF Init, OpsOK, OpStates, Engaged, Holding
<1> QED BY <1>1, <1>2, <1>3
        DEF Init, IInv, ClientInv, ToldInv, RunsOnThisGeneration, Sound, Watched, Up, Holding

\* A new token is a fresh one, which the listeners are to be told of.
TokenStep ==
  /\ token' \in Tokens \cup {NoToken}
  /\ issued' \in issued..MaxTokens
  /\ token' # NoToken => token'[2] <= issued'
  /\ token' # token => token' = NoToken \/ token'[2] = issued + 1
  /\ token' # token => changed' \/ refresh' \notin {"none", "asked"}
  /\ changed => changed'
  /\ refresh \notin {"none", "asked"} => refresh' = refresh
  /\ recovery # "none" => recovery' # "none"

\* Steps of the session: the client hears of them later.
LEMMA SessionKeeps ==
  ASSUME IInv,
         \/ \E i \in Identities : SignIn(i)
         \/ SignOut \/ RefreshBegins \/ RefreshAnswered
  PROVE  IInv' /\ SubscribesWell
<1>1. UNCHANGED <<auth, transport, op>>
  BY DEF SignIn, SignOut, RefreshBegins, RefreshAnswered, auth
<1>2. TokenStep
  <2>1. ASSUME NEW i \in Identities, SignIn(i) PROVE TokenStep
    <3>1. issued' = issued + 1 /\ issued' \in issued..MaxTokens /\ issued' \in 1..MaxTokens
      BY <2>1, MaxTokensAssumption DEF SignIn, IInv, SessionInv
    <3>2. token' = <<i, issued'>> /\ token' \in Tokens /\ token'[2] = issued'
      BY <2>1, <3>1 DEF SignIn, Tokens
    <3>3. changed' = TRUE /\ UNCHANGED <<refresh, recovery>>
      BY <2>1 DEF SignIn
    <3> QED BY <3>1, <3>2, <3>3 DEF TokenStep
  <2>2. CASE SignOut
    BY <2>2, MaxTokensAssumption DEF SignOut, TokenStep, IInv, SessionInv
  <2>3. CASE RefreshBegins
    BY <2>3, MaxTokensAssumption DEF RefreshBegins, TokenStep, IInv, SessionInv
  <2>4. CASE RefreshAnswered
    <3>1. refresh = "asked" /\ UNCHANGED changed
      BY <2>4 DEF RefreshAnswered
    <3>2. recovery # "none" => recovery' # "none"
      BY <2>4 DEF RefreshAnswered, Resolved
    <3>3. \/ /\ issued' = issued + 1 /\ issued < MaxTokens /\ refresh' = "stored"
             /\ \E i \in Identities : token' = <<i, issued'>>
          \/ token' = NoToken /\ refresh' = "cleared" /\ issued' = issued
          \/ token' = token /\ issued' = issued
      BY <2>4 DEF RefreshAnswered
    <3>4. issued \in Nat /\ MaxTokens \in Nat /\ issued <= MaxTokens
      BY MaxTokensAssumption DEF IInv, SessionInv
    <3> QED BY <3>1, <3>2, <3>3, <3>4 DEF TokenStep, IInv, SessionInv, Tokens
  <2> QED BY <2>1, <2>2, <2>3, <2>4
<1>8. SessionInv'
  <2>1. /\ refresh' \in {"none", "asked", "stored", "cleared"}
        /\ recovery' \in {"none", "asked", "done", "failed"}
    BY DEF SignIn, SignOut, RefreshBegins, RefreshAnswered, Resolved, IInv, SessionInv
  <2>2. superseded' \in BOOLEAN /\ changed' \in BOOLEAN /\ lifecycle' \in BOOLEAN
    BY DEF SignIn, SignOut, RefreshBegins, RefreshAnswered, IInv, SessionInv
  <2>3. authToken' # NoToken => authToken'[2] <= issued'
    BY <1>1, <1>2, MaxTokensAssumption DEF auth, TokenStep, IInv, SessionInv, ClientInv, Tokens
  <2>4. issued' \in 0..MaxTokens
    BY <1>2, MaxTokensAssumption DEF TokenStep, IInv, SessionInv
  <2> QED BY <1>2, <2>1, <2>2, <2>3, <2>4 DEF TokenStep, SessionInv
<1>3. token' # token /\ authState = "active" => authToken # token'
  BY <1>2 DEF TokenStep, IInv, SessionInv, ClientInv, Tokens
<1>4. ClientInv'
  <2>1. authState' = "active" /\ authToken' = token' => token' = token
    BY <1>1, <1>3 DEF auth
  <2>2. Sound(transport)' /\ OpsOK(op)' /\ Watched(transport, op)' /\ Up(transport)' = Up(transport)
        /\ Engaged(op)' = Engaged(op) /\ Holding(op)' = Holding(op)
    BY <1>1 DEF IInv, ClientInv, Sound, OpsOK, Watched, Up, Engaged, Holding
  <2> QED BY <1>1, <2>1, <2>2 DEF auth, IInv, ClientInv, Identity
<1>5. ToldInv'
  BY <1>1, <1>2 DEF TokenStep, auth, IInv, ToldInv
<1>6. RunsOnThisGeneration'
  BY <1>1, <1>2 DEF TokenStep, auth, IInv, RunsOnThisGeneration, Registered
<1>7. SubscribesWell
  BY <1>1 DEF SubscribesWell
<1> QED BY <1>4, <1>5, <1>6, <1>7, <1>8 DEF IInv

\* Nothing to do with the session's refresh: the token stays.
LEMMA HeardKeeps ==
  ASSUME IInv, RefreshHeard \/ ChangeHeard
  PROVE  IInv' /\ SubscribesWell
<1>1. PICK r : CredentialsChanged(r)
  BY DEF RefreshHeard, ChangeHeard
<1>2. UNCHANGED token
  BY DEF RefreshHeard, ChangeHeard
<1>3. /\ ClientInv' /\ SubscribesWell
      /\ authToken' \in {authToken, token, NoToken}
      /\ authState' = "active" =>
           /\ authToken' = token
           /\ AllRun(op') \/ (authState = "active" /\ UNCHANGED <<transport, op>>)
  BY <1>1, <1>2, CredentialsChangedKeeps DEF IInv
<1>4. SessionInv' /\ (recovery # "none" => recovery' # "none")
  BY <1>2, <1>3 DEF IInv, SessionInv, RefreshHeard, ChangeHeard, Resolved
<1>5. ToldInv'
  BY <1>2, <1>3 DEF ToldInv
<1>6. RunsOnThisGeneration'
  BY <1>3, <1>4 DEF IInv, RunsOnThisGeneration, AllRun, Registered
<1> QED BY <1>3, <1>4, <1>5, <1>6 DEF IInv

LEMMA LifecycleKeeps ==
  ASSUME IInv, Lifecycle \/ RecoveryDone \/ RecoveryFailed
  PROVE  IInv' /\ SubscribesWell
<1>1. UNCHANGED <<token, issued, refresh, superseded, changed>>
  BY DEF Lifecycle, RecoveryDone, RecoveryFailed, session
<1>2. \/ Disable
      \/ Suspend
      \/ token # NoToken /\ \E a, b \in BOOLEAN : Apply(a, b)
  BY DEF Lifecycle, RecoveryDone, RecoveryFailed, Enable, RefreshSubscriptions,
         IInv, ClientInv, Sound, Transport
<1>3. /\ ClientInv' /\ SubscribesWell
      /\ authToken' \in {authToken, token, NoToken}
      /\ authState' = "active" => authToken' = token /\ AllRun(op')
  BY <1>1, <1>2, DisableKeeps, SuspendKeeps, ApplyKeeps DEF IInv, SessionInv
<1>4. SessionInv'
  BY <1>1, <1>3 DEF IInv, SessionInv, Lifecycle, RecoveryDone, RecoveryFailed, session
<1>5. ToldInv' /\ RunsOnThisGeneration'
  BY <1>1, <1>3 DEF ToldInv, RunsOnThisGeneration, AllRun, Registered
<1> QED BY <1>3, <1>4, <1>5 DEF IInv

\* Steps of the transport that leave it down, or as it was.
LEMMA DownKeeps ==
  ASSUME IInv, UNCHANGED <<token, authState, authToken>>, SessionInv', ToldInv',
         Sound(transport'), Watched(transport', op'), ~Up(transport'), OpsOK(op'),
         authState # "active" => Engaged(op') = {}
  PROVE  IInv' /\ SubscribesWell
<1>1. /\ Sound(transport)' /\ Watched(transport, op)' /\ OpsOK(op)'
      /\ ~Up(transport)' /\ (authState' # "active" => Engaged(op)' = {})
  BY DEF Sound, Watched, OpsOK, Up, Engaged, Holding
<1>2. ClientInv'
  BY <1>1 DEF IInv, ClientInv
<1>3. RunsOnThisGeneration' /\ SubscribesWell
  BY DEF RunsOnThisGeneration, SubscribesWell, Up
<1> QED BY <1>2, <1>3 DEF IInv

LEMMA SessionStays ==
  ASSUME IInv, UNCHANGED <<session, auth, recovery>>
  PROVE  SessionInv' /\ ToldInv' /\ UNCHANGED <<token, authState, authToken>>
BY DEF IInv, SessionInv, ToldInv, session, auth

LEMMA DialKeeps ==
  ASSUME IInv, NEW s \in {"connecting", "stuck"}, Dial(s)
  PROVE  IInv' /\ SubscribesWell
<1> DEFINE t == [transport EXCEPT !.sock = s]
<1>1. t \in Transport /\ t.sock = s /\ ~t.connected
  BY DEF Dial, IInv, ClientInv, Sound, Transport
<1>2. transport' = Armed(t, op) /\ op' = op /\ UNCHANGED <<session, auth, recovery>>
  BY DEF Dial
<1> HIDE DEF t
<1>3. Sound(transport') /\ Watched(transport', op') /\ ~Up(transport')
  BY <1>1, <1>2, ArmedFields, ArmedIsWatched DEF Sound, Up
<1> QED BY <1>2, <1>3, DownKeeps, SessionStays DEF IInv, ClientInv

LEMMA OpenedKeeps ==
  ASSUME IInv, Opened
  PROVE  IInv' /\ SubscribesWell
<1>1. /\ transport' \in Transport /\ ~transport'.connected
      /\ transport'.sock = "open" /\ transport'.stall = transport.stall
      /\ ~transport.connected /\ transport.sock = "connecting"
  BY DEF Opened, IInv, ClientInv, Sound, Transport, SessionInv
<1>2. op' = op /\ UNCHANGED <<session, auth, recovery>>
  BY DEF Opened
<1>3. Sound(transport') /\ Watched(transport', op') /\ ~Up(transport')
  BY <1>1, <1>2 DEF IInv, ClientInv, Sound, Watched, Up
<1> QED BY <1>2, <1>3, DownKeeps, SessionStays DEF IInv, ClientInv

LEMMA SocketClosesKeeps ==
  ASSUME IInv, SocketCloses
  PROVE  IInv' /\ SubscribesWell
<1>1. Sound(Closed(transport, op)) /\ Closed(transport, op).sock = "none"
  BY ClosedFields DEF IInv, ClientInv, Sound
<1>2. op' = op /\ Sound(transport') /\ ~Up(transport') /\ Watched(transport', op')
  BY <1>1, ClosedFields, BecomesFields
     DEF SocketCloses, IInv, ClientInv, Sound, Up, Watched
<1>3. UNCHANGED <<session, auth, recovery>>
  BY DEF SocketCloses
<1> QED BY <1>2, <1>3, DownKeeps, SessionStays DEF IInv, ClientInv

LEMMA SocketRejectedKeeps ==
  ASSUME IInv, SocketRejected
  PROVE  IInv' /\ SubscribesWell
<1> DEFINE f == [o \in Operations |-> IF o \in Holding(op) THEN "retry_wait" ELSE op[o]]
<1>1. Becomes(Closed(transport, f), f) /\ UNCHANGED <<token, issued, changed, lifecycle, auth>>
  BY DEF SocketRejected
<1>2. OpsOK(f) /\ (authState # "active" => Engaged(f) = {})
  BY DEF IInv, ClientInv, OpsOK, OpStates, Engaged, Holding
<1> HIDE DEF f
<1>3. Sound(Closed(transport, f)) /\ Closed(transport, f).sock = "none"
  BY ClosedFields DEF IInv, ClientInv, Sound
<1>4. op' = f /\ Sound(transport') /\ ~Up(transport') /\ Watched(transport', op')
  BY <1>1, <1>3, ClosedFields, BecomesFields DEF IInv, ClientInv, Sound, Up, Watched
<1>5. \/ Recover
      \/ UNCHANGED <<recovery, refresh, superseded>>
  BY DEF SocketRejected
<1>6. SessionInv' /\ ToldInv'
  BY <1>1, <1>5, RecoverFacts DEF auth, IInv, SessionInv, ToldInv
<1> QED BY <1>1, <1>2, <1>4, <1>6, DownKeeps DEF auth

LEMMA StallKeeps ==
  ASSUME IInv, Stall
  PROVE  IInv' /\ SubscribesWell
<1>1. UNCHANGED <<session, auth, recovery>>
  BY DEF Stall
<1>2. CASE Engaged(op) = {}
  <2> DEFINE t == [transport EXCEPT !.stall = FALSE]
  <2>1. Sound(t) /\ Up(t) = Up(transport) /\ t.carries = transport.carries
    BY DEF IInv, ClientInv, Sound, Transport, Up
  <2>2. Becomes(t, op)
    BY <1>2 DEF Stall
  <2> HIDE DEF t
  <2>3. op' = op /\ Sound(transport') /\ (Up(transport') => transport' = t)
    BY <2>1, <2>2, BecomesFields
  <2>4. Watched(transport, op)' /\ Holding(op)' = {} /\ Engaged(op)' = {}
    BY <1>2, <2>3 DEF Watched, Engaged, Holding
  <2>5. ClientInv'
    BY <1>1, <2>3, <2>4 DEF auth, IInv, ClientInv, Sound, OpsOK
  <2>6. RunsOnThisGeneration'
    BY <1>1, <2>1, <2>3 DEF auth, IInv, RunsOnThisGeneration, Registered, Up
  <2>7. SubscribesWell
    BY <2>1, <2>3 DEF SubscribesWell
  <2> QED BY <1>1, <2>5, <2>6, <2>7, SessionStays DEF IInv
<1>3. CASE Engaged(op) # {} /\ transport.stage = 0
  <2> DEFINE t == Terminated([transport EXCEPT !.stage = 1], op)
  <2>1. Sound([transport EXCEPT !.stage = 1])
    BY DEF IInv, ClientInv, Sound, Transport
  <2>2. Sound(t) /\ ~t.connected /\ t.sock = "none"
    BY <2>1, TerminatedFields
  <2>3. Becomes(Armed(t, op), op)
    BY <1>3 DEF Stall
  <2> HIDE DEF t
  <2>4. Sound(Armed(t, op)) /\ Armed(t, op).sock = "none" /\ ~Armed(t, op).connected
    BY <2>2, ArmedFields DEF Sound
  <2>5. op' = op /\ Sound(transport') /\ ~Up(transport') /\ Watched(transport', op')
    BY <2>3, <2>4, BecomesFields DEF Becomes, Sound, Up, Watched
  <2> QED BY <1>1, <2>5, DownKeeps, SessionStays DEF IInv, ClientInv
<1>4. CASE Engaged(op) # {} /\ transport.stage # 0
  <2> DEFINE t == [transport EXCEPT !.stage = 2]
             f == [o \in Operations |-> IF o \in Holding(op) THEN "retry_wait"
                                        ELSE IF o \in Registered(op) THEN "current" ELSE op[o]]
  <2>1. t \in Transport /\ Becomes(Closed(t, f), f)
    BY <1>4 DEF Stall, IInv, ClientInv, Sound, Transport
  <2>2. OpsOK(f) /\ authState = "active"
    BY <1>4 DEF IInv, ClientInv, OpsOK, OpStates, Holding, Registered
  <2> HIDE DEF t, f
  <2>3. Sound(Closed(t, f)) /\ Closed(t, f).sock = "none" /\ ~Closed(t, f).connected
    BY <2>1, ClosedFields DEF Sound
  <2>4. op' = f /\ Sound(transport') /\ ~Up(transport') /\ Watched(transport', op')
    BY <2>1, <2>3, BecomesFields DEF Becomes, Sound, Up, Watched
  <2> QED BY <1>1, <2>2, <2>4, DownKeeps, SessionStays
<1> QED BY <1>2, <1>3, <1>4

LEMMA AcknowledgedKeeps ==
  ASSUME IInv, Acknowledged
  PROVE  IInv' /\ SubscribesWell
<1> DEFINE t == [transport EXCEPT !.connected = TRUE, !.carries = transport.opening,
                                  !.restarted = FALSE, !.stall = FALSE, !.stage = 0]
           f == [o \in Operations |-> IF op[o] = "current" THEN "stale" ELSE op[o]]
           S == IF authState = "active" THEN OutOfLine(f) ELSE {}
           g == [o \in Operations |-> IF o \in S THEN "current" ELSE f[o]]
           h == [o \in Operations |-> IF o \in S THEN "idle" ELSE f[o]]
           c == CredentialsCurrent(t, f)
<1>1. UNCHANGED <<session, auth, recovery>> /\ Start(S, t, f, authState)
  <2>1. UNCHANGED <<session, auth, recovery>>
    BY DEF Acknowledged
  <2>2. Reconcile(t, f, authState)
    BY DEF Acknowledged
  <2> HIDE DEF t, f
  <2>3. S = IF authState = "active" THEN OutOfLine(f) ELSE {}
    OBVIOUS
  <2> HIDE DEF S
  <2>4. Start(S, t, f, authState)
    BY <2>2, <2>3 DEF Reconcile
  <2> QED BY <2>1, <2>4
<1>2. Sound(t) /\ t.connected
  <2>1. transport \in Transport /\ transport.sock \in {"open", "closing"}
    BY DEF Acknowledged, IInv, ClientInv, Sound
  <2>2. t \in Transport /\ t.connected /\ t.restarted = FALSE /\ t.sock = transport.sock
    <3> DEFINE u == [transport EXCEPT !.connected = TRUE, !.carries = transport.opening]
               v == [u EXCEPT !.restarted = FALSE]
               w == [v EXCEPT !.stall = FALSE]
    <3>1. u \in Transport /\ u.connected = TRUE /\ u.sock = transport.sock
      BY <2>1 DEF Transport
    <3>2. t = [w EXCEPT !.stage = 0]
      OBVIOUS
    <3> HIDE DEF t, u
    <3>3. v \in Transport /\ v.connected = TRUE /\ v.restarted = FALSE /\ v.sock = u.sock
      BY <3>1 DEF Transport
    <3> HIDE DEF v
    <3>4. w \in Transport /\ w.connected = TRUE /\ w.restarted = FALSE /\ w.sock = v.sock
      BY <3>3 DEF Transport
    <3> HIDE DEF w
    <3>5. t \in Transport /\ t.connected = TRUE /\ t.restarted = FALSE /\ t.sock = w.sock
      BY <3>2, <3>4 DEF Transport
    <3> QED BY <3>1, <3>3, <3>4, <3>5
  <2> QED BY <2>1, <2>2 DEF Sound
<1>3. CASE authState = "active" /\ S # {}
  <2>1. Becomes(c, g)
    BY <1>1, <1>3 DEF Start
  <2>2. OpsOK(g) /\ \A o \in Operations : g[o] \in {"unregistered", "current"}
    BY <1>3 DEF IInv, ClientInv, OpsOK, OpStates, OutOfLine, Registered
  <2>3. Sound(c) /\ (Up(c) => c.carries = token)
        /\ (~c.connected => c.sock = "none")
    BY <1>2, CredentialsCurrentFields DEF Sound
  <2> HIDE DEF c, g
  <2>4. /\ op' = g /\ Sound(transport')
        /\ Up(transport') => transport' = c
        /\ ~transport'.connected => transport' = c
    BY <2>1, <2>3, BecomesFields
  <2>5. Watched(transport, op)'
    BY <2>3, <2>4 DEF Watched
  <2>6. ClientInv'
    BY <1>1, <1>3, <2>2, <2>3, <2>4, <2>5
       DEF auth, session, IInv, ClientInv, Sound, OpsOK, Up, Identity
  <2>7. RunsOnThisGeneration' /\ SubscribesWell
    BY <1>1, <2>2, <2>3, <2>4 DEF session, RunsOnThisGeneration, Registered, SubscribesWell
  <2> QED BY <1>1, <2>6, <2>7, SessionStays DEF IInv
<1>4. CASE ~(authState = "active" /\ S # {})
  <2>1. Becomes(t, h)
    BY <1>1, <1>4 DEF Start
  <2>2. S = {}
    BY <1>4
  <2>3. OpsOK(h) /\ Engaged(h) = {} /\ Holding(h) = {}
    <3>1. CASE authState = "active"
      <4>1. \A o \in Operations : f[o] = "unregistered" \/ f[o] = "current"
        BY <2>2, <3>1 DEF OutOfLine, Registered
      <4>2. \A o \in Operations : h[o] = "unregistered"
        BY <2>2, <4>1 DEF IInv, ClientInv, OpsOK, OpStates
      <4> QED BY <4>2 DEF OpsOK, OpStates, Engaged, Holding
    <3>2. CASE authState # "active"
      <4>1. \A o \in Operations : op[o] \notin {"current", "stale", "retry_wait"}
        BY <3>2 DEF IInv, ClientInv, Engaged, Holding
      <4> QED BY <2>2, <4>1 DEF IInv, ClientInv, OpsOK, OpStates, Engaged, Holding
    <3> QED BY <3>1, <3>2
  <2>4. authState = "active" => \A o \in Operations : h[o] = "unregistered"
    BY <2>2 DEF OutOfLine, Registered, IInv, ClientInv, OpsOK, OpStates
  <2>5. \A o \in Operations : h[o] # "current"
    BY <2>3 DEF Holding
  <2> HIDE DEF t, h
  <2>6. op' = h /\ Sound(transport') /\ (~transport'.connected => transport' = t)
    BY <1>2, <2>1, BecomesFields
  <2>7. Watched(transport, op)' /\ Engaged(op)' = {} /\ Holding(op)' = {}
    BY <2>3, <2>6 DEF Watched, Engaged, Holding
  <2>8. ClientInv'
    BY <1>1, <2>3, <2>6, <2>7 DEF auth, IInv, ClientInv, Sound, OpsOK
  <2>9. RunsOnThisGeneration'
    BY <1>1, <2>4, <2>6 DEF auth, RunsOnThisGeneration, Registered
  <2>10. SubscribesWell
    <3>1. Up(transport') => FALSE
      BY <1>2, <2>1, <2>3 DEF Becomes, Up, Sound, Transport
    <3> QED BY <3>1 DEF SubscribesWell
  <2> QED BY <1>1, <2>8, <2>9, <2>10, SessionStays DEF IInv
<1> QED BY <1>3, <1>4

LEMMA ServedIsActive ==
  ASSUME IInv, NEW o \in Operations, Served(o)
  PROVE  authState = "active" /\ Up(transport) /\ op[o] = "current"
BY DEF IInv, ClientInv, Served, Up, Engaged, Holding

LEMMA LosesKeeps ==
  ASSUME IInv, NEW o \in Operations,
         OperationUnauthenticated(o) \/ OperationEnds(o) \/ Unregister(o)
  PROVE  IInv' /\ SubscribesWell
<1>1. PICK s \in {"idle", "retry_wait", "blocked", "unregistered"} :
        /\ Becomes(transport, [op EXCEPT ![o] = s])
        /\ s = "idle" => Recover /\ Served(o)
        /\ s = "retry_wait" => Served(o)
  BY DEF OperationUnauthenticated, OperationEnds, Unregister
<1>2. UNCHANGED <<token, auth>>
  BY DEF OperationUnauthenticated, OperationEnds, Unregister, session
<1>3. /\ ClientInv' /\ SubscribesWell
      /\ Up(transport') => Up(transport)
      /\ op' = [op EXCEPT ![o] = s]
  <2>1. s # "retry_wait" \/ (Up(transport) /\ authState = "active")
    <3>1. s = "retry_wait" => Served(o)
      BY <1>1
    <3>2. Served(o) => Up(transport) /\ authState = "active"
      BY ServedIsActive
    <3> QED BY <3>1, <3>2
  <2>2. ClientInv
    BY DEF IInv
  <2> QED BY <1>1, <1>2, <2>1, <2>2, LeavesKeeps
<1>4. /\ SessionInv' /\ ToldInv'
      /\ recovery # "none" \/ s = "idle" => recovery' # "none"
  <2>1. CASE OperationUnauthenticated(o)
    <3>1. Recover /\ Served(o) /\ UNCHANGED <<token, issued, changed, lifecycle, auth>>
      BY <2>1 DEF OperationUnauthenticated
    <3> QED BY <3>1, RecoverFacts, ServedIsActive DEF auth, IInv, SessionInv, ToldInv
  <2>2. CASE OperationEnds(o) \/ Unregister(o)
    <3>1. UNCHANGED <<session, auth, recovery>>
      BY <2>2 DEF OperationEnds, Unregister
    <3>2. s = "idle" => recovery' # "none"
      BY <1>1, RecoverFacts, ServedIsActive DEF IInv
    <3> QED BY <3>1, <3>2, SessionStays
  <2> QED BY <2>1, <2>2
<1>5. RunsOnThisGeneration'
  BY <1>2, <1>3, <1>4 DEF auth, IInv, ClientInv, OpsOK, RunsOnThisGeneration, Registered, Up
<1> QED BY <1>3, <1>4, <1>5 DEF IInv

LEMMA ResultKeeps ==
  ASSUME IInv, NEW o \in Operations, ResultUnauthenticated(o)
  PROVE  IInv' /\ SubscribesWell
<1>1. Recover /\ UNCHANGED <<token, issued, changed, lifecycle, auth, transport, op>>
  BY DEF ResultUnauthenticated
<1>2. SessionInv' /\ ToldInv' /\ (recovery # "none" => recovery' # "none")
  BY <1>1, RecoverFacts DEF auth, IInv, SessionInv, ToldInv
<1>3. ClientInv' /\ SubscribesWell
  BY <1>1 DEF auth, IInv, ClientInv, Sound, OpsOK, Engaged, Holding, Watched, Up, Identity, SubscribesWell
<1>4. RunsOnThisGeneration'
  BY <1>1, <1>2 DEF auth, IInv, RunsOnThisGeneration, Registered
<1> QED BY <1>2, <1>3, <1>4 DEF IInv

LEMMA StartsKeeps ==
  ASSUME IInv, NEW o \in Operations, Retry(o) \/ Register(o) \/ Resubscribe(o)
  PROVE  IInv' /\ SubscribesWell
<1>1. /\ Start({o}, transport, op, authState)
      /\ op[o] = "retry_wait" \/ o \notin Lasting
      /\ UNCHANGED <<session, auth, recovery>>
  BY DEF Retry, Register, Resubscribe
<1>2. /\ ClientInv' /\ SubscribesWell
      /\ Up(transport') => Up(transport)
      /\ authState = "active" => op'[o] = "current"
      /\ \A p \in Operations \ {o} : op'[p] = op[p]
  BY <1>1, StartKeeps DEF session, IInv
<1>3. RunsOnThisGeneration'
  BY <1>1, <1>2 DEF auth, IInv, RunsOnThisGeneration, Registered, Up
<1> QED BY <1>1, <1>2, <1>3, SessionStays DEF IInv

LEMMA StepKeeps ==
  ASSUME IInv, [Next]_vars
  PROVE  IInv' /\ SubscribesWell
<1>1. CASE (\E i \in Identities : SignIn(i)) \/ SignOut \/ RefreshBegins \/ RefreshAnswered
  BY <1>1, SessionKeeps
<1>2. CASE RefreshHeard \/ ChangeHeard
  BY <1>2, HeardKeeps
<1>3. CASE Lifecycle \/ RecoveryDone \/ RecoveryFailed
  BY <1>3, LifecycleKeeps
<1>4. CASE \E s \in {"connecting", "stuck"} : Dial(s)
  BY <1>4, DialKeeps
<1>5. CASE Opened \/ Acknowledged \/ SocketCloses \/ SocketRejected \/ Stall
  BY <1>5, OpenedKeeps, AcknowledgedKeeps, SocketClosesKeeps, SocketRejectedKeeps, StallKeeps
<1>6. ASSUME NEW o \in Operations,
             \/ OperationUnauthenticated(o) \/ OperationEnds(o) \/ ResultUnauthenticated(o)
             \/ Retry(o) \/ Register(o) \/ Unregister(o) \/ Resubscribe(o)
      PROVE  IInv' /\ SubscribesWell
  BY <1>6, LosesKeeps, ResultKeeps, StartsKeeps
<1>7. CASE UNCHANGED vars
  BY <1>7 DEF vars, session, auth, IInv, SessionInv, ClientInv, ToldInv, RunsOnThisGeneration,
              Sound, OpsOK, Engaged, Holding, Registered, Watched, Up, Identity, SubscribesWell
<1> QED BY <1>1, <1>2, <1>3, <1>4, <1>5, <1>6, <1>7 DEF Next
-----------------------------------------------------------------------------
(* The theorems. *)

\* The invariant holds throughout.
THEOREM ClientInvariant == Spec => []IInv
<1>1. IInv /\ [Next]_vars => IInv'
  BY StepKeeps
<1> QED BY <1>1, InitInv, PTL DEF Spec

\* The variables keep their types: backend-subscription-client.ts:1545-1593.
THEOREM ClientTypeCorrect == Spec => []TypeOK
<1>1. IInv => TypeOK
  BY DEF IInv, SessionInv, ClientInv, Sound, OpsOK, TypeOK
<1> QED BY <1>1, ClientInvariant, PTL

\* On a socket that is up every operation has an attempt of this generation, a
\* timer or a refusal, or a recovery will restart it (reconcile()).
THEOREM ClientRunsOnThisGeneration == Spec => []RunsOnThisGeneration
<1>1. IInv => RunsOnThisGeneration
  BY DEF IInv
<1> QED BY <1>1, ClientInvariant, PTL

\* Nobody is served under an earlier account once the listeners have heard of
\* the change (canKeepTransportAcrossRefresh()).
THEOREM ClientServesTheCaller == Spec => []ServedAsTheCaller
<1>1. IInv => ServedAsTheCaller
  <2> SUFFICES ASSUME IInv, NEW o \in Operations, Served(o),
                      ~changed, refresh \in {"none", "asked"}
               PROVE  token # NoToken /\ Identity(transport.carries) = Identity(token)
    BY DEF ServedAsTheCaller
  <2>1. authState = "active" /\ Up(transport) /\ Holding(op) # {}
    BY ServedIsActive DEF Holding
  <2>2. authToken = token
    BY <2>1 DEF IInv, ToldInv
  <2> QED BY <2>1, <2>2 DEF IInv, ClientInv
<1> QED BY <1>1, ClientInvariant, PTL

\* A lasting operation that waits for a socket has the watchdog set
\* (armTransportStallWatchdog()).
THEOREM ClientStallIsWatched == Spec => []StallIsWatched
<1>1. IInv => StallIsWatched
  BY DEF IInv, ClientInv, Watched, StallIsWatched
<1> QED BY <1>1, ClientInvariant, PTL

\* A new subscribe goes out on a socket of the present token only
\* (ensureTransportCredentialsCurrent()).
THEOREM ClientSubscribesWell == Spec => SubscribesWithTheCurrentToken
<1>1. IInv /\ [Next]_vars =>
        [\A o \in Operations : Served(o)' /\ ~Served(o) => transport'.carries = token']_vars
  <2> SUFFICES ASSUME IInv, [Next]_vars, NEW o \in Operations, Served(o)', ~Served(o)
               PROVE  transport'.carries = token'
    OBVIOUS
  <2>1. SubscribesWell
    BY StepKeeps
  <2> QED BY <2>1 DEF SubscribesWell, Served, Up
<1> QED BY <1>1, ClientInvariant, PTL DEF Spec, SubscribesWithTheCurrentToken
=============================================================================
