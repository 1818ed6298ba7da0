-------------------------- MODULE SubscriptionClient --------------------------
(***************************************************************************)
(* The desktop's long-lived GraphQL subscriptions on one shared WebSocket, *)
(* class BackendSubscriptionClient of apps/desktop/src/cloud/              *)
(* backend-subscription-client.ts, between the account session, whose      *)
(* tokens rotate and change hands, and a backend that closes, rejects,     *)
(* stays silent and deploys.                                               *)
(*                                                                         *)
(* External: the graphql-ws client.  It dials while an operation holds an  *)
(* attempt, sends the frames of attempts that were not disposed once the   *)
(* connection is acknowledged, keeps what is subscribed on a socket that   *)
(* closes for the next one, and closes a socket nobody needs.              *)
(*                                                                         *)
(* A handler runs to its end in one step.  Those that restart the socket   *)
(* and then start operations are written as operators on the transport t   *)
(* and the operations f that the handler has made so far.                  *)
(***************************************************************************)
EXTENDS Naturals

CONSTANTS
  Operations,    \* the keys of the subscriptions
  Lasting,       \* those registered once, when the app starts; the others come
                 \* and go with the customer-service bridge
  Identities,    \* who a token names: its user and account
  NoToken,
  MaxTokens      \* bound on the tokens the backend issues

ASSUME LastingAssumption == Lasting \in SUBSET Operations
ASSUME MaxTokensAssumption == MaxTokens \in Nat \ {0}
ASSUME NoTokenAssumption == NoToken \notin Identities \X (1..MaxTokens)

VARIABLES
  token,         \* getToken(): the session's access token
  issued,        \* how many tokens were issued
  refresh,       \* the session's refresh: none, asked for, or with its tokens
                 \* stored or cleared and the listeners still to be told
  superseded,    \* has the session changed since it was asked for?
  changed,       \* is the event of a sign-in or sign-out still to be heard?
  lifecycle,     \* is the app's auth lifecycle still to react to it?
  authState,     \* authenticatedSubscriptionState
  authToken,     \* authenticatedSubscriptionToken
  recovery,      \* authRecoveryPromise: waits for the refresh, or goes on after it
  transport,     \* the graphql-ws client and what is known of its socket
  op             \* the state of each operation

session == <<token, issued, refresh, superseded, changed, lifecycle>>
auth == <<authState, authToken>>
vars == <<session, auth, recovery, transport, op>>

Tokens == Identities \X (1..MaxTokens)
Identity(t) == t[1]

\* sock: none (waiting for the next dial if an operation holds an attempt),
\* connecting, connecting for ever, open, closing; connected and carries are
\* transportConnected and transportToken, opening is connectingToken, restarted
\* says that restartRequestedGeneration is the current one, and stall and stage
\* are the watchdog.
Transport == [sock : {"none", "connecting", "stuck", "open", "closing"},
              connected : BOOLEAN,
              opening : Tokens \cup {NoToken},
              carries : Tokens \cup {NoToken},
              restarted : BOOLEAN,
              stall : BOOLEAN,
              stage : 0..2]

\* An active operation's attempt was issued on the current generation of the
\* transport or on an earlier one.
OpStates == {"unregistered", "idle", "current", "stale", "retry_wait", "blocked"}

Init ==
  /\ token = NoToken
  /\ issued = 0
  /\ refresh = "none"
  /\ superseded = FALSE
  /\ changed = FALSE
  /\ lifecycle = FALSE
  /\ authState = "disabled"
  /\ authToken = NoToken
  /\ recovery = "none"
  /\ transport = [sock |-> "none", connected |-> FALSE, opening |-> NoToken,
                  carries |-> NoToken, restarted |-> FALSE, stall |-> FALSE, stage |-> 0]
  /\ op = [o \in Operations |-> IF o \in Lasting THEN "idle" ELSE "unregistered"]
-----------------------------------------------------------------------------
Registered(f) == {o \in Operations : f[o] # "unregistered"}

\* The operations that hold an attempt, hence a lock of the graphql-ws client.
Holding(f) == {o \in Operations : f[o] \in {"current", "stale"}}

\* engaged: active or waiting for a retry.
Engaged(f) == Holding(f) \cup {o \in Operations : f[o] = "retry_wait"}

\* Mutation: nothing arms the watchdog.
ArmedNever(t, f) == t

\* armTransportStallWatchdog().
Armed(t, f) == [t EXCEPT !.stall = ~t.connected /\ Engaged(f) # {}]

\* The `closed` event.
Closed(t, f) ==
  Armed([t EXCEPT !.sock = "none", !.connected = FALSE, !.carries = NoToken], f)

\* terminate() of the graphql-ws client.
Terminated(t, f) ==
  IF t.sock = "none" /\ Holding(f) = {} THEN t ELSE Closed(t, f)

\* restartTransport(): an open socket is closed, anything else is terminated.
Restarted(t, f) ==
  LET asked == [t EXCEPT !.restarted = @ \/ t.connected]
  IN  IF t.sock = "open" THEN [asked EXCEPT !.sock = "closing"] ELSE Terminated(asked, f)

\* Mutation: a kept socket takes new subscribes.
SameSocket(t, f) == t

\* ensureTransportCredentialsCurrent(), before a subscribe.
CredentialsCurrent(t, f) ==
  IF t.connected /\ t.carries # token /\ ~t.restarted THEN Restarted(t, f) ELSE t

\* At the end of a step, a socket that no operation needs is closed.
Becomes(t, f) ==
  /\ op' = f
  /\ transport' = IF t.sock = "open" /\ t.connected /\ Holding(f) = {}
                  THEN [t EXCEPT !.sock = "closing"] ELSE t

\* start() of the operations S.
Start(S, t, f, state) ==
  IF state = "active" /\ S # {}
  THEN Becomes(CredentialsCurrent(t, f), [o \in Operations |-> IF o \in S THEN "current" ELSE f[o]])
  ELSE Becomes(t, [o \in Operations |-> IF o \in S THEN "idle" ELSE f[o]])

\* Mutation: an operation that is active is left alone, on whatever socket.
OutOfLineUnlessActive(f) == Registered(f) \ Holding(f)

\* What reconcile() starts: operations without an attempt on the current
\* generation, as far as they may run.
OutOfLine(f) == {o \in Registered(f) : f[o] # "current"}

\* reconcileSubscriptions().
Reconcile(t, f, state) ==
  Start(IF state = "active" THEN OutOfLine(f) ELSE {}, t, f, state)

Paused == [o \in Operations |-> IF op[o] = "unregistered" THEN op[o] ELSE "idle"]
-----------------------------------------------------------------------------
\* disableAuthenticatedSubscriptions().
Disable ==
  /\ authState' = "disabled"
  /\ authToken' = NoToken
  /\ IF authState = "disabled" /\ authToken = NoToken
     THEN UNCHANGED <<transport, op>>
     ELSE Becomes(Restarted(transport, Paused), Paused)

\* suspendAuthenticatedSubscriptions().
Suspend ==
  /\ UNCHANGED authToken
  /\ IF authState # "active"
     THEN UNCHANGED <<authState, transport, op>>
     ELSE /\ authState' = "suspended"
          /\ Becomes(Restarted(transport, Paused), Paused)

\* applyAuthenticatedCredentials().  The socket that is down is watched.
Apply(allowEnableFromDisabled, forceReconnect) ==
  \/ /\ authState = "disabled" /\ ~allowEnableFromDisabled
     /\ UNCHANGED <<auth, transport, op>>
  \/ /\ authState # "disabled" \/ allowEnableFromDisabled
     /\ authState' = "active"
     /\ authToken' = token
     /\ LET t == IF authState = "suspended" \/ authToken # token \/ forceReconnect
                 THEN Restarted(transport, op) ELSE transport
            f == [o \in Operations |-> IF o \in OutOfLine(op) THEN "current" ELSE op[o]]
            u == IF f # op THEN CredentialsCurrent(t, op) ELSE t
        IN  Becomes(IF u.connected THEN u ELSE Armed(u, f), f)

\* enableAuthenticatedSubscriptions(), as the auth lifecycle calls it.
Enable == IF token = NoToken THEN Disable ELSE Apply(TRUE, TRUE)

\* refreshAuthenticatedSubscriptions().
RefreshSubscriptions ==
  IF token = NoToken THEN Disable
  ELSE Apply(FALSE, transport.connected /\ transport.carries # token)

\* Mutation: every refresh keeps the socket.
KeptWhoeverItNames(reason) ==
  /\ reason = "refresh"
  /\ authState = "active"
  /\ transport.connected
  /\ transport.carries # NoToken

\* canKeepTransportAcrossRefresh().
CanKeepTransport(reason) ==
  /\ reason = "refresh"
  /\ authState = "active"
  /\ transport.connected
  /\ transport.carries # NoToken
  /\ Identity(transport.carries) = Identity(token)

\* handleCredentialsChanged().
CredentialsChanged(reason) ==
  IF token = NoToken THEN Disable
  ELSE IF CanKeepTransport(reason)
       THEN authToken' = token /\ UNCHANGED <<authState, transport, op>>
       ELSE Apply(FALSE, FALSE)

\* recoverAuthenticatedSubscriptions(): joins or begins the session's refresh,
\* which fails at once without a session.
Recover ==
  IF authState # "active" \/ recovery # "none"
  THEN UNCHANGED <<recovery, refresh, superseded>>
  ELSE /\ recovery' = IF token = NoToken /\ refresh = "none" THEN "failed" ELSE "asked"
       /\ refresh' = IF refresh = "none" /\ token # NoToken THEN "asked" ELSE refresh
       /\ superseded' = (superseded /\ refresh # "none")
-----------------------------------------------------------------------------
\* The session.  A sign-in or a switch of accounts.
SignIn(i) ==
  /\ issued < MaxTokens
  /\ issued' = issued + 1
  /\ token' = <<i, issued'>>
  /\ superseded' = (refresh # "none")
  /\ changed' = TRUE
  /\ lifecycle' = TRUE
  /\ UNCHANGED <<refresh, auth, recovery, transport, op>>

SignOut ==
  /\ token # NoToken
  /\ token' = NoToken
  /\ superseded' = (refresh # "none")
  /\ changed' = TRUE
  /\ lifecycle' = TRUE
  /\ UNCHANGED <<issued, refresh, auth, recovery, transport, op>>

\* Another request finds that the access token has expired.
RefreshBegins ==
  /\ token # NoToken
  /\ refresh = "none"
  /\ refresh' = "asked"
  /\ superseded' = FALSE
  /\ UNCHANGED <<token, issued, changed, lifecycle, auth, recovery, transport, op>>

\* Who waits for the refresh goes on.
Resolved(outcome) == recovery' = IF recovery = "asked" THEN outcome ELSE recovery

\* The backend renews the tokens of the session, whose account may have become
\* another one, rejects them, or cannot be asked; the answer for a session that
\* is over is thrown away.
RefreshAnswered ==
  /\ refresh = "asked"
  /\ \/ /\ ~superseded
        /\ issued < MaxTokens
        /\ issued' = issued + 1
        /\ \E i \in Identities : token' = <<i, issued'>>
        /\ refresh' = "stored"
        /\ UNCHANGED recovery
     \/ /\ ~superseded
        /\ token' = NoToken
        /\ refresh' = "cleared"
        /\ UNCHANGED <<issued, recovery>>
     \/ /\ refresh' = "none"
        /\ Resolved("failed")
        /\ UNCHANGED <<token, issued>>
  /\ UNCHANGED <<superseded, changed, lifecycle, auth, transport, op>>

\* The listeners hear of the refresh, after the keychain, and it returns.
RefreshHeard ==
  /\ refresh \in {"stored", "cleared"}
  /\ CredentialsChanged(IF refresh = "stored" THEN "refresh" ELSE "refresh_rejected")
  /\ refresh' = "none"
  /\ Resolved(IF refresh = "stored" THEN "done" ELSE "failed")
  /\ UNCHANGED <<token, issued, superseded, changed, lifecycle>>

\* The listeners hear of a sign-in or a sign-out.
ChangeHeard ==
  /\ changed
  /\ changed' = FALSE
  /\ CredentialsChanged("sign_in")
  /\ UNCHANGED <<token, issued, refresh, superseded, lifecycle, recovery>>

\* applyAuthLifecycleSideEffects().
Lifecycle ==
  /\ lifecycle
  /\ lifecycle' = FALSE
  /\ Enable
  /\ UNCHANGED <<token, issued, refresh, superseded, changed, recovery>>

\* The recovery goes on after its refresh.
RecoveryDone ==
  /\ recovery = "done"
  /\ recovery' = "none"
  /\ RefreshSubscriptions
  /\ UNCHANGED session

RecoveryFailed ==
  /\ recovery = "failed"
  /\ recovery' = "none"
  /\ IF token = NoToken THEN Disable ELSE Suspend
  /\ UNCHANGED session
-----------------------------------------------------------------------------
\* The socket.  Each dial may hang for ever.
Dial(sock) ==
  /\ transport.sock = "none"
  /\ Holding(op) # {}
  /\ transport' = Armed([transport EXCEPT !.sock = sock], op)
  /\ UNCHANGED <<session, auth, recovery, op>>

\* `opened`: connection_init is sent.
Opened ==
  /\ transport.sock = "connecting"
  /\ transport' = [transport EXCEPT !.sock = "open", !.opening = token]
  /\ UNCHANGED <<session, auth, recovery, op>>

\* `connected`, which a socket that is being closed may still hear: the
\* generation grows and every operation is issued anew.
Acknowledged ==
  /\ transport.sock \in {"open", "closing"}
  /\ ~transport.connected
  /\ Reconcile([transport EXCEPT !.connected = TRUE, !.carries = transport.opening,
                                 !.restarted = FALSE, !.stall = FALSE, !.stage = 0],
               [o \in Operations |-> IF op[o] = "current" THEN "stale" ELSE op[o]],
               authState)
  /\ UNCHANGED <<session, auth, recovery>>

\* The socket closes, or its pong is missed, and graphql-ws will dial again.
SocketCloses ==
  /\ transport.sock \in {"connecting", "open", "closing"}
  /\ Becomes(Closed(transport, op), op)
  /\ UNCHANGED <<session, auth, recovery>>

\* The backend closes with a code that is not retried: every operation that
\* holds an attempt hears the close as an error of unknown kind.  After 4401
\* and 4403 the credentials are refreshed.
SocketRejected ==
  /\ transport.sock = "open"
  /\ LET f == [o \in Operations |-> IF o \in Holding(op) THEN "retry_wait" ELSE op[o]]
     IN  Becomes(Closed(transport, f), f)
  /\ Recover \/ UNCHANGED <<recovery, refresh, superseded>>
  /\ UNCHANGED <<token, issued, changed, lifecycle, auth>>

\* Mutation: the watchdog's second stage waits for the first one's effect.
StallTerminatesOnce ==
  /\ transport.stall
  /\ transport.sock # "none" \/ Holding(op) = {}
  /\ IF transport.stage > 0
     THEN Becomes([transport EXCEPT !.stall = FALSE], op)
     ELSE Becomes(Armed(Terminated([transport EXCEPT !.stage = 1], op), op), op)
  /\ UNCHANGED <<session, auth, recovery>>

\* handleTransportStall(): terminate(), and from the second time on a new
\* client, where the operations without an attempt start, while those on the
\* old client hear it complete.  The delay is longer than any wait for a dial.
Stall ==
  /\ transport.stall
  /\ transport.sock # "none" \/ Holding(op) = {}
  /\ IF Engaged(op) = {}
     THEN Becomes([transport EXCEPT !.stall = FALSE], op)
     ELSE IF transport.stage = 0
     THEN Becomes(Armed(Terminated([transport EXCEPT !.stage = 1], op), op), op)
     ELSE LET f == [o \in Operations |-> IF o \in Holding(op) THEN "retry_wait"
                                         ELSE IF o \in Registered(op) THEN "current" ELSE op[o]]
          IN  Becomes(Closed([transport EXCEPT !.stage = 2], f), f)
  /\ UNCHANGED <<session, auth, recovery>>
-----------------------------------------------------------------------------
\* The operations.  The backend serves o on the current socket.
Served(o) == transport.sock = "open" /\ transport.connected /\ op[o] = "current"

\* handleError() with an authentication error.
OperationUnauthenticated(o) ==
  /\ Served(o)
  /\ Becomes(transport, [op EXCEPT ![o] = "idle"])
  /\ Recover
  /\ UNCHANGED <<token, issued, changed, lifecycle, auth>>

\* handleError() otherwise, or handleComplete().
OperationEnds(o) ==
  /\ Served(o)
  /\ \E s \in {"retry_wait", "blocked"} : Becomes(transport, [op EXCEPT ![o] = s])
  /\ UNCHANGED <<session, auth, recovery>>

\* An authentication error inside a result leaves the operation as it is.
ResultUnauthenticated(o) ==
  /\ Served(o)
  /\ Recover
  /\ UNCHANGED <<token, issued, changed, lifecycle, auth, transport, op>>

\* The recovery timer of o.
Retry(o) ==
  /\ op[o] = "retry_wait"
  /\ Start({o}, transport, op, authState)
  /\ UNCHANGED <<session, auth, recovery>>

\* registerSubscription() and the function it returns, by the bridge.
Register(o) ==
  /\ o \notin Lasting
  /\ op[o] = "unregistered"
  /\ Start({o}, transport, op, authState)
  /\ UNCHANGED <<session, auth, recovery>>

Unregister(o) ==
  /\ o \notin Lasting
  /\ op[o] # "unregistered"
  /\ Becomes(transport, [op EXCEPT ![o] = "unregistered"])
  /\ UNCHANGED <<session, auth, recovery>>

\* refreshCsConversationSignals(), when the shops of the device change.
Resubscribe(o) ==
  /\ o \notin Lasting
  /\ op[o] # "unregistered"
  /\ Start({o}, transport, op, authState)
  /\ UNCHANGED <<session, auth, recovery>>
-----------------------------------------------------------------------------
Next ==
  \/ \E i \in Identities : SignIn(i)
  \/ SignOut \/ RefreshBegins \/ RefreshAnswered \/ RefreshHeard
  \/ ChangeHeard \/ Lifecycle \/ RecoveryDone \/ RecoveryFailed
  \/ \E s \in {"connecting", "stuck"} : Dial(s)
  \/ Opened \/ Acknowledged \/ SocketCloses \/ SocketRejected \/ Stall
  \/ \E o \in Operations :
       \/ OperationUnauthenticated(o) \/ OperationEnds(o) \/ ResultUnauthenticated(o)
       \/ Retry(o) \/ Register(o) \/ Unregister(o) \/ Resubscribe(o)

Spec == Init /\ [][Next]_vars

\* Timers fire, requests are answered and listeners are told; sockets that are
\* closed end, and not every dial hangs or fails before it is acknowledged.
FairSpec ==
  /\ Spec
  /\ WF_vars(RefreshAnswered) /\ WF_vars(RefreshHeard)
  /\ WF_vars(ChangeHeard) /\ WF_vars(Lifecycle)
  /\ WF_vars(RecoveryDone) /\ WF_vars(RecoveryFailed)
  /\ WF_vars(\E s \in {"connecting", "stuck"} : Dial(s)) /\ SF_vars(Dial("connecting"))
  /\ SF_vars(Opened) /\ SF_vars(Acknowledged)
  /\ WF_vars(transport.sock = "closing" /\ SocketCloses)
  /\ WF_vars(Stall)
  /\ \A o \in Operations : WF_vars(Retry(o))
-----------------------------------------------------------------------------
TypeOK ==
  /\ token \in Tokens \cup {NoToken}
  /\ issued \in 0..MaxTokens
  /\ refresh \in {"none", "asked", "stored", "cleared"}
  /\ superseded \in BOOLEAN
  /\ changed \in BOOLEAN
  /\ lifecycle \in BOOLEAN
  /\ authState \in {"disabled", "active", "suspended"}
  /\ authToken \in Tokens \cup {NoToken}
  /\ recovery \in {"none", "asked", "done", "failed"}
  /\ transport \in Transport
  /\ op \in [Operations -> OpStates]

\* On a socket that is up, every operation that should be running holds an
\* attempt of this generation ("the single invariant" of reconcile()), or has a
\* timer, or was refused; none is left idle but for a recovery under way.
RunsOnThisGeneration ==
  transport.connected /\ transport.sock = "open" /\ authState = "active" =>
    \A o \in Registered(op) :
      op[o] \in {"current", "retry_wait", "blocked"} \/ (op[o] = "idle" /\ recovery # "none")

\* Nobody is served under the name of an earlier user or account, nor after a
\* sign-out, once the session's listeners have heard of the change: not after
\* switches of account during a refresh, a dial or a restart.
ServedAsTheCaller ==
  (\E o \in Operations : Served(o)) /\ ~changed /\ refresh \in {"none", "asked"} =>
    token # NoToken /\ Identity(transport.carries) = Identity(token)

\* A subscribe goes out only on a socket that authenticated with the token of
\* that moment ("A kept socket never takes a NEW subscribe").
SubscribesWithTheCurrentToken ==
  [][\A o \in Operations : Served(o)' /\ ~Served(o) => transport'.carries = token']_vars

\* While an operation that is never unregistered waits for a socket that is not
\* acknowledged, the watchdog is set ("guarantees recovery progress even if the
\* pending connect attempt is wedged").
StallIsWatched ==
  ~transport.connected /\ transport.sock # "none" /\ Engaged(op) \cap Lasting # {} =>
    transport.stall

\* An operation that is not refused is served again and again while the
\* credentials are good, whatever hangs, closes and rotates.
SubscriptionsComeBack ==
  \A o \in Lasting :
    <>[](authState = "active" /\ op[o] # "blocked") => []<>Served(o)

\* The subscriptions of a session are suspended only because its own refresh
\* failed, not another session's.
SuspendedByItsOwnRefresh ==
  [][authState = "active" /\ authState' = "suspended" => ~superseded]_vars
=============================================================================
