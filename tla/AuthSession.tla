----------------------------- MODULE AuthSession -----------------------------
(***************************************************************************)
(* The desktop's account session, class AuthSessionManager of              *)
(* apps/desktop/src/auth/session.ts: the tokens in memory and in the       *)
(* keychain, the cached user, the single-flight refresh that rotates the   *)
(* tokens, sign-in, sign-out, and the temporary login as a member from     *)
(* which the owner returns.                                                *)
(*                                                                         *)
(* Each action is one synchronous stretch between two awaits.  The         *)
(* keychain serves its calls in the order they are made: a call has its    *)
(* effect in the step that makes it and is awaited until the next one.     *)
(***************************************************************************)
EXTENDS Naturals

CONSTANTS
  Owners,         \* sessions begun by a sign-in
  Members,        \* sessions begun by a login as a member
  None,
  MaxRotations    \* bound on the rotations of a session's tokens

ASSUME SessionsAssumption == Owners \cap Members = {} /\ None \notin Owners \cup Members
ASSUME RotationsAssumption == MaxRotations \in Nat

Sessions == Owners \cup Members

\* A token of session s after v rotations.  Access and refresh tokens of a pair
\* are issued together.
Tokens == [s : Sessions, v : 0..MaxRotations]
OwnerTokens == [s : Owners, v : 0..MaxRotations]

\* What loginAsMember() keeps of the owner, in ownerSession.
OwnerSessions ==
  [access : Tokens \cup {None}, refresh : Tokens \cup {None}, user : Owners]

ASSUME NoneAssumption == None \notin Tokens \cup OwnerSessions

VARIABLES
  access, refresh,      \* this.accessToken, this.refreshToken
  user,                 \* the session whose user is cachedUser
  owner,                \* ownerSession
  kcAccess, kcRefresh,  \* the keychain
  refreshAt,            \* where the refresh in flight, refreshPromise, is
  refreshTok,           \* the token it sent, got or read
  me,                   \* the session a validation asks about
  signIn,               \* where each sign-in is
  signOut,              \* where the sign-out is
  switch,               \* where the member switch is; idle: not pending
  held,                 \* what the member switch remembers across its awaits
  begun, revoked,       \* the sessions the backend has begun, and revoked
  rotated,              \* how often the backend has rotated their tokens
  abandoned,            \* history: the sessions left by a sign-in or sign-out, or with a
                        \* rotation whose answer or write was lost
  signedOut             \* history: did this process sign out without an error, and nobody
                        \* sign in since?

memory == <<access, refresh, user, owner>>
keychain == <<kcAccess, kcRefresh>>
refreshVars == <<refreshAt, refreshTok>>
switchVars == <<switch, held>>
backend == <<begun, revoked, rotated>>
vars == <<memory, keychain, refreshVars, me, signIn, signOut, switchVars, backend,
          abandoned, signedOut>>

\* Of a refresh.  asked, stale: the backend was asked, and the session has
\* changed since.  access, emit: the new pair is being saved, listeners are
\* told.  The others clean up after a rejected token.
RefreshPlaces == {"idle", "asked", "stale", "access", "emit", "adopt", "adopted", "drop",
                  "unread", "forget", "delete", "dropped"}

\* Of loginAsMember(): waiting, asked, failing, joining, joined; of
\* returnToOwner(): returning, returned, revoking.
SwitchPlaces == {"idle", "waiting", "asked", "failing", "joining", "joined",
                 "returning", "returned", "revoking"}

Init ==
  /\ access = None /\ refresh = None /\ user = None /\ owner = None
  /\ kcAccess = None /\ kcRefresh = None
  /\ refreshAt = "idle" /\ refreshTok = None
  /\ me = None
  /\ signIn = [s \in Owners |-> "new"]
  /\ signOut = "idle"
  /\ switch = "idle" /\ held = None
  /\ begun = {} /\ revoked = {}
  /\ rotated = [s \in Sessions |-> 0]
  /\ abandoned = {}
  /\ signedOut = FALSE

\* A member switch that awaits the refresh goes on, before anything else, when
\* it is over.
Due == refreshAt = "idle" /\ switch \in {"waiting", "joining", "returning"}

Fresh(s) == [s |-> s, v |-> 0]
-----------------------------------------------------------------------------
(***************************************************************************)
(* Refresh.                                                                *)
(***************************************************************************)

\* sessionGeneration += 1: the answers of requests in flight are discarded.
Outdate ==
  /\ refreshAt' = IF refreshAt = "asked" THEN "stale" ELSE refreshAt
  /\ me' = None

\* The switch whose request is in flight, after Outdate.
Outdated == IF switch = "asked" THEN "failing" ELSE switch

\* refreshPromise is rejected, which a login as a member that awaits it passes on.
RefreshFails ==
  /\ refreshAt' = "idle"
  /\ refreshTok' = None
  /\ IF switch \in {"waiting", "joining"}
     THEN switch' = "idle" /\ held' = None
     ELSE UNCHANGED switchVars

\* The memory's tokens are forgotten.
ClearMemory == access' = None /\ refresh' = None

\* doRefresh() up to the request.
Refresh ==
  /\ ~Due
  /\ refreshAt = "idle"
  /\ refresh # None
  /\ refreshAt' = "asked"
  /\ refreshTok' = refresh
  /\ UNCHANGED <<memory, keychain, me, signIn, signOut, switchVars, backend, abandoned,
                 signedOut>>

\* The backend rotates the token that was sent.
BackendRotates ==
  /\ refreshTok.s \notin revoked
  /\ refreshTok.v = rotated[refreshTok.s]
  /\ refreshTok.v < MaxRotations
  /\ rotated' = [rotated EXCEPT ![refreshTok.s] = @ + 1]
  /\ UNCHANGED <<begun, revoked>>

\* No answer, or another error than a rejection; or the answer is discarded,
\* the session it belongs to being over.
RefreshLost ==
  /\ refreshAt \in {"asked", "stale"}
  /\ \/ UNCHANGED <<backend, abandoned>>
     \/ /\ BackendRotates
        /\ abandoned' = IF refreshAt = "asked" THEN abandoned \cup {refreshTok.s} ELSE abandoned
  /\ RefreshFails
  /\ UNCHANGED <<memory, keychain, me, signIn, signOut, signedOut>>

\* Mutation: storeTokens() saves a member's tokens like its owner's.
StoreRotatedAlways(new) ==
  /\ access' = new /\ refresh' = new
  /\ kcRefresh' = new
  /\ refreshAt' = "access"
  /\ UNCHANGED <<kcAccess, abandoned>>

\* Mutation: storeTokens() saves the access token first.
StoreRotatedAccessFirst(new) ==
  /\ access' = new /\ refresh' = new
  /\ kcAccess' = IF owner = None THEN new ELSE kcAccess
  /\ refreshAt' = IF owner = None THEN "access" ELSE "emit"
  /\ UNCHANGED <<kcRefresh, abandoned>>

\* storeTokens() of the refresh up to its first await.  A member's tokens are
\* not saved; that the owner's cannot be is survived.
StoreRotated(new) ==
  /\ access' = new /\ refresh' = new
  /\ UNCHANGED kcAccess
  /\ \/ owner # None /\ refreshAt' = "emit" /\ UNCHANGED <<kcRefresh, abandoned>>
     \/ owner = None /\ refreshAt' = "access" /\ kcRefresh' = new /\ UNCHANGED abandoned
     \/ /\ owner = None
        /\ refreshAt' = "emit"
        /\ abandoned' = abandoned \cup {new.s}
        /\ UNCHANGED kcRefresh

RefreshAnswered ==
  /\ refreshAt = "asked"
  /\ BackendRotates
  /\ refreshTok' = [refreshTok EXCEPT !.v = @ + 1]
  /\ StoreRotated(refreshTok')
  /\ UNCHANGED <<user, owner, me, signIn, signOut, switchVars, signedOut>>

\* The rotated access token is saved, or cannot be.
RefreshAccess ==
  /\ refreshAt = "access"
  /\ kcAccess' \in {kcAccess, refreshTok}
  /\ refreshAt' = "emit"
  /\ UNCHANGED <<memory, kcRefresh, refreshTok, me, signIn, signOut, switchVars, backend,
                 abandoned, signedOut>>

\* The listeners were told: setUser(), and the promise resolves.
RefreshTold ==
  /\ refreshAt = "emit"
  /\ user' = refreshTok.s
  /\ refreshAt' = "idle"
  /\ refreshTok' = None
  /\ UNCHANGED <<access, refresh, owner, keychain, me, signIn, signOut, switchVars, backend,
                 abandoned, signedOut>>
-----------------------------------------------------------------------------
(***************************************************************************)
(* invalidateRejectedRefreshToken().                                       *)
(***************************************************************************)

\* The backend rejects the token.  When it is no longer the memory's, nothing is
\* done.  A member's tokens are forgotten and its owner kept; otherwise the
\* keychain is read.
RefreshRejected ==
  /\ refreshAt = "asked"
  /\ refreshTok.s \in revoked \/ refreshTok.v # rotated[refreshTok.s]
  /\ \/ /\ refresh # refreshTok
        /\ RefreshFails
        /\ UNCHANGED <<access, refresh, me>>
     \/ /\ refresh = refreshTok
        /\ owner # None
        /\ ClearMemory
        /\ refreshAt' = "dropped"
        /\ me' = None
        /\ UNCHANGED <<refreshTok, switchVars>>
     \/ /\ refresh = refreshTok
        /\ owner = None
        /\ \/ refreshAt' = "unread" /\ UNCHANGED refreshTok
           \/ kcRefresh \in {None, refreshTok} /\ refreshAt' = "drop" /\ UNCHANGED refreshTok
           \/ kcRefresh \notin {None, refreshTok} /\ refreshAt' = "adopt" /\ refreshTok' = kcRefresh
        /\ UNCHANGED <<access, refresh, me, switchVars>>
  /\ UNCHANGED <<user, owner, keychain, signIn, signOut, backend, abandoned, signedOut>>

\* Another token was read: it becomes the memory's, and its access token is read.
Adopt ==
  /\ refreshAt = "adopt"
  /\ refresh' = refreshTok
  /\ \/ refreshAt' = "adopted" /\ refreshTok' = kcAccess /\ UNCHANGED access
     \/ refreshAt' = "unread" /\ UNCHANGED <<refreshTok, access>>
  /\ UNCHANGED <<user, owner, keychain, me, signIn, signOut, switchVars, backend, abandoned,
                 signedOut>>

\* The access token was read, and the refresh is rejected.
Adopted ==
  /\ refreshAt = "adopted"
  /\ access' = refreshTok
  /\ RefreshFails
  /\ UNCHANGED <<refresh, user, owner, keychain, me, signIn, signOut, backend, abandoned,
                 signedOut>>

\* The memory's tokens are forgotten, whichever they are by now, and the
\* listeners, if there are any to forget, are told: "forget".
Drop ==
  /\ refreshAt = "drop"
  /\ ClearMemory
  /\ refreshAt' = IF access = None /\ refresh = None THEN "delete" ELSE "forget"
  /\ IF access = None /\ refresh = None
     THEN user' = None /\ kcAccess' = None
     ELSE UNCHANGED <<user, kcAccess>>
  /\ UNCHANGED <<owner, kcRefresh, refreshTok, me, signIn, signOut, switchVars, backend,
                 abandoned, signedOut>>

Forget ==
  /\ refreshAt = "forget"
  /\ user' = None
  /\ \/ kcAccess' = None /\ refreshAt' = "delete"
     \/ refreshAt' = "unread" /\ UNCHANGED kcAccess
  /\ UNCHANGED <<access, refresh, owner, kcRefresh, refreshTok, me, signIn, signOut,
                 switchVars, backend, abandoned, signedOut>>

\* The access token was deleted, and the refresh token is.
Delete ==
  /\ refreshAt = "delete"
  /\ \/ kcRefresh' = None /\ RefreshFails
     \/ refreshAt' = "unread" /\ UNCHANGED <<kcRefresh, refreshTok, switchVars>>
  /\ UNCHANGED <<memory, kcAccess, me, signIn, signOut, backend, abandoned, signedOut>>

\* The keychain could not be used: the memory's tokens are forgotten.
Unread ==
  /\ refreshAt = "unread"
  /\ ClearMemory
  /\ refreshAt' = "dropped"
  /\ UNCHANGED <<user, owner, keychain, refreshTok, me, signIn, signOut, switchVars, backend,
                 abandoned, signedOut>>

\* The listeners were told, and the user is forgotten.
Dropped ==
  /\ refreshAt = "dropped"
  /\ user' = None
  /\ RefreshFails
  /\ UNCHANGED <<access, refresh, owner, keychain, me, signIn, signOut, backend, abandoned,
                 signedOut>>
-----------------------------------------------------------------------------
(***************************************************************************)
(* Sign-in and sign-out.                                                   *)
(***************************************************************************)

\* The backend has begun session s: storeTokens() up to its first await, with
\* the refresh token saved or, the keychain failing, lost to the next process.
SignIn(s) ==
  /\ ~Due
  /\ signIn[s] = "new"
  /\ begun' = begun \cup {s}
  /\ access' = Fresh(s) /\ refresh' = Fresh(s)
  /\ owner' = None
  /\ Outdate
  /\ switch' = Outdated
  /\ signedOut' = FALSE
  /\ abandoned' = abandoned \cup begun
  /\ \/ kcRefresh' = Fresh(s) /\ signIn' = [signIn EXCEPT ![s] = "access"]
     \/ signIn' = [signIn EXCEPT ![s] = "done"] /\ UNCHANGED kcRefresh
  /\ UNCHANGED <<user, kcAccess, refreshTok, signOut, held, revoked, rotated>>

\* The access token is saved, or the sign-in fails for it.
SignInAccess(s) ==
  /\ ~Due
  /\ signIn[s] = "access"
  /\ \/ kcAccess' = Fresh(s) /\ signIn' = [signIn EXCEPT ![s] = "emit"]
     \/ signIn' = [signIn EXCEPT ![s] = "done"] /\ UNCHANGED kcAccess
  /\ UNCHANGED <<memory, kcRefresh, refreshVars, me, signOut, switchVars, backend, abandoned,
                 signedOut>>

\* The listeners were told: setUser().
SignInTold(s) ==
  /\ ~Due
  /\ signIn[s] = "emit"
  /\ user' = s
  /\ signIn' = [signIn EXCEPT ![s] = "done"]
  /\ UNCHANGED <<access, refresh, owner, keychain, refreshVars, me, signOut, switchVars,
                 backend, abandoned, signedOut>>

\* clearTokens() up to its first await: without tokens the listeners are not
\* told, and the access token is deleted at once.
SignOut ==
  /\ ~Due
  /\ signOut = "idle"
  /\ owner' = None
  /\ Outdate
  /\ switch' = Outdated
  /\ ClearMemory
  /\ signedOut' = TRUE
  /\ abandoned' = abandoned \cup begun
  /\ \/ /\ access # None \/ refresh # None
        /\ signOut' = "emit"
        /\ UNCHANGED <<user, kcAccess>>
     \/ /\ access = None /\ refresh = None
        /\ user' = None
        /\ kcAccess' = None
        /\ signOut' = "delete"
  /\ UNCHANGED <<kcRefresh, refreshTok, signIn, held, backend>>

\* The listeners were told: the user is forgotten and the access token deleted,
\* or cannot be.
SignOutTold ==
  /\ ~Due
  /\ signOut = "emit"
  /\ user' = None
  /\ \/ kcAccess' = None /\ signOut' = "delete" /\ UNCHANGED signedOut
     \/ signOut' = "idle" /\ signedOut' = FALSE /\ UNCHANGED kcAccess
  /\ UNCHANGED <<access, refresh, owner, kcRefresh, refreshVars, me, signIn, switchVars,
                 backend, abandoned>>

SignOutDelete ==
  /\ ~Due
  /\ signOut = "delete"
  /\ \/ kcRefresh' = None /\ UNCHANGED signedOut
     \/ signedOut' = FALSE /\ UNCHANGED kcRefresh
  /\ signOut' = "idle"
  /\ UNCHANGED <<memory, kcAccess, refreshVars, me, signIn, switchVars, backend, abandoned>>

\* The backend revokes a session: for a logout() or returnToOwner() that asks
\* for it after the fact, or of its own.
Revoke(s) ==
  /\ ~Due
  /\ s \in begun \ revoked
  /\ revoked' = revoked \cup {s}
  /\ UNCHANGED <<memory, keychain, refreshVars, me, signIn, signOut, switchVars, begun,
                 rotated, abandoned, signedOut>>

\* validate(): the backend is asked whose session it is.
Validate ==
  /\ ~Due
  /\ me = None
  /\ access # None
  /\ me' = access.s
  /\ UNCHANGED <<memory, keychain, refreshVars, signIn, signOut, switchVars, backend, abandoned,
                 signedOut>>

Validated ==
  /\ ~Due
  /\ me # None
  /\ user' \in {me, user}   \* answered, or failed
  /\ me' = None
  /\ UNCHANGED <<access, refresh, owner, keychain, refreshVars, signIn, signOut, switchVars,
                 backend, abandoned, signedOut>>
-----------------------------------------------------------------------------
(***************************************************************************)
(* The login as a member, and the return.                                  *)
(***************************************************************************)

\* The request is made in the name of the session in memory.
AskToJoin ==
  /\ switch' = "asked"
  /\ held' = IF access = None THEN None ELSE access.s

SwitchIdle == switch' = "idle" /\ held' = None

\* loginAsMember() up to its first await.
LoginAsMember ==
  /\ switch = "idle"
  /\ owner = None
  /\ user \in Owners
  /\ access # None /\ refresh # None
  /\ IF refreshAt = "idle" THEN AskToJoin ELSE switch' = "waiting" /\ UNCHANGED held
  /\ UNCHANGED <<memory, keychain, refreshVars, me, signIn, signOut, backend, abandoned,
                 signedOut>>

\* The refresh that was in flight is over.
AskAfterRefresh ==
  /\ switch = "waiting"
  /\ refreshAt = "idle"
  /\ AskToJoin
  /\ UNCHANGED <<memory, keychain, refreshVars, me, signIn, signOut, backend, abandoned,
                 signedOut>>

\* Member m of owner o is joined, cachedUser being that owner.
Join(o, m) ==
  /\ user = o
  /\ owner' = [access |-> access, refresh |-> refresh, user |-> user]
  /\ access' = Fresh(m) /\ refresh' = Fresh(m)
  /\ me' = None
  /\ switch' = "joined"
  /\ held' = m

\* The member's tokens are in use or, cachedUser being another, thrown away.
JoinOrNot(o, m) ==
  /\ \/ Join(o, m)
     \/ user # o /\ SwitchIdle /\ UNCHANGED <<access, refresh, owner, me>>
  /\ UNCHANGED user

\* Mutation: the member is joined without awaiting the refresh of its owner.
JoinAnsweredAtOnce(m) ==
  /\ ~Due
  /\ switch = "asked"
  /\ held \in Owners
  /\ m \notin begun
  /\ begun' = begun \cup {m}
  /\ refreshAt' = IF refreshAt = "asked" THEN "stale" ELSE refreshAt
  /\ JoinOrNot(held, m)
  /\ UNCHANGED <<keychain, refreshTok, signIn, signOut, revoked, rotated, abandoned, signedOut>>

\* The backend has begun the session of a member of the owner that asked.
JoinAnswered(m) ==
  /\ ~Due
  /\ switch = "asked"
  /\ held \in Owners
  /\ m \notin begun
  /\ begun' = begun \cup {m}
  /\ IF refreshAt = "idle"
     THEN JoinOrNot(held, m)
     ELSE switch' = "joining" /\ held' = [of |-> held, as |-> m] /\ UNCHANGED <<memory, me>>
  /\ UNCHANGED <<keychain, refreshVars, signIn, signOut, revoked, rotated, abandoned, signedOut>>

\* The refresh that was in flight is over.
JoinAfterRefresh ==
  /\ switch = "joining"
  /\ refreshAt = "idle"
  /\ JoinOrNot(held.of, held.as)
  /\ UNCHANGED <<keychain, refreshVars, signIn, signOut, backend, abandoned, signedOut>>

\* Mutation: a request discarded for its session leaves memberSwitchPending set.
JoinFailsInSession ==
  /\ ~Due
  /\ switch = "asked"
  /\ SwitchIdle
  /\ UNCHANGED <<memory, keychain, refreshVars, me, signIn, signOut, backend, abandoned,
                 signedOut>>

\* The request failed, or was discarded.
JoinFails ==
  /\ ~Due
  /\ switch \in {"asked", "failing"}
  /\ SwitchIdle
  /\ UNCHANGED <<memory, keychain, refreshVars, me, signIn, signOut, backend, abandoned,
                 signedOut>>

\* The listeners were told: setUser().
Joined ==
  /\ switch = "joined"
  /\ user' = held
  /\ SwitchIdle
  /\ UNCHANGED <<access, refresh, owner, keychain, refreshVars, me, signIn, signOut, backend,
                 abandoned, signedOut>>

\* The owner's tokens are in use again, as they were when it was left.
Restore(o) ==
  /\ access' = o.access /\ refresh' = o.refresh
  /\ owner' = None
  /\ me' = None
  /\ switch' = "returned"
  /\ held' = o
  /\ UNCHANGED <<user, keychain, refreshVars, signIn, signOut, backend, abandoned, signedOut>>

\* returnToOwner() up to its first await.
ReturnToOwner ==
  /\ switch = "idle"
  /\ owner # None
  /\ IF refreshAt = "idle"
     THEN Restore(owner)
     ELSE /\ switch' = "returning"
          /\ held' = owner
          /\ UNCHANGED <<memory, keychain, refreshVars, me, signIn, signOut, backend, abandoned,
                         signedOut>>

\* The refresh that was in flight has settled.
ReturnAfterRefresh ==
  /\ switch = "returning"
  /\ refreshAt = "idle"
  /\ Restore(held)

\* The listeners were told: setUser(), and the revocation is asked for.
Returned ==
  /\ switch = "returned"
  /\ user' = held.user
  /\ switch' = "revoking"
  /\ held' = None
  /\ UNCHANGED <<access, refresh, owner, keychain, refreshVars, me, signIn, signOut, backend,
                 abandoned, signedOut>>

\* The revocation is answered, or has failed.
ReturnEnds ==
  /\ ~Due
  /\ switch = "revoking"
  /\ SwitchIdle
  /\ UNCHANGED <<memory, keychain, refreshVars, me, signIn, signOut, backend, abandoned,
                 signedOut>>
-----------------------------------------------------------------------------
\* The process stops at any point, and the next one loads the keychain.
Restart ==
  /\ access' = kcAccess /\ refresh' = kcRefresh
  /\ user' = None
  /\ owner' = None
  /\ refreshAt' = "idle" /\ refreshTok' = None
  /\ me' = None
  /\ signIn' = [s \in Owners |-> IF signIn[s] = "new" THEN "new" ELSE "done"]
  /\ signOut' = "idle"
  /\ SwitchIdle
  /\ signedOut' = FALSE
  /\ \/ UNCHANGED <<backend, abandoned>>
     \/ /\ refreshAt \in {"asked", "stale"}
        /\ BackendRotates
        /\ abandoned' = abandoned \cup {refreshTok.s}
  /\ UNCHANGED keychain

RefreshNext ==
  \/ Refresh \/ RefreshLost \/ RefreshAnswered \/ RefreshAccess \/ RefreshTold
  \/ RefreshRejected \/ Adopt \/ Adopted \/ Drop \/ Forget \/ Delete \/ Unread \/ Dropped

SwitchNext ==
  \/ LoginAsMember \/ AskAfterRefresh \/ (\E m \in Members : JoinAnswered(m))
  \/ JoinAfterRefresh \/ JoinFails \/ Joined
  \/ ReturnToOwner \/ ReturnAfterRefresh \/ Returned \/ ReturnEnds

Next ==
  \/ RefreshNext
  \/ \E s \in Owners : SignIn(s) \/ SignInAccess(s) \/ SignInTold(s)
  \/ SignOut \/ SignOutTold \/ SignOutDelete
  \/ \E s \in Sessions : Revoke(s)
  \/ Validate \/ Validated
  \/ SwitchNext
  \/ Restart

Spec == Init /\ [][Next]_vars

\* A request is answered or times out, the keychain and the listeners return.
\* What a user or the backend may do is not fair.
FairSpec ==
  /\ Spec
  /\ WF_vars(RefreshNext /\ refreshAt # "idle")
  /\ WF_vars(SwitchNext /\ switch # "idle")
-----------------------------------------------------------------------------
\* The fields, the keychain and the flows' own variables keep their types: in
\* particular the owner that is kept has a user, whose name
\* getAccountSwitchState() reads.
AuthTypeOK ==
  /\ access \in Tokens \cup {None} /\ refresh \in Tokens \cup {None}
  /\ user \in Sessions \cup {None}
  /\ owner \in OwnerSessions \cup {None}
  /\ kcAccess \in Tokens \cup {None} /\ kcRefresh \in Tokens \cup {None}
  /\ refreshAt \in RefreshPlaces
  /\ refreshTok \in Tokens \cup {None}
  /\ me \in Sessions \cup {None}
  /\ signIn \in [Owners -> {"new", "access", "emit", "done"}]
  /\ signOut \in {"idle", "emit", "delete"}
  /\ switch \in SwitchPlaces
  /\ held \in Sessions \cup OwnerSessions \cup [of : Owners, as : Members] \cup {None}
  /\ begun \subseteq Sessions /\ revoked \subseteq begun
  /\ rotated \in [Sessions -> 0..MaxRotations]
  /\ abandoned \subseteq Sessions /\ signedOut \in BOOLEAN

\* storeTokens(): "A delegated member must never replace the owner's saved
\* Keychain session", whatever was in flight when the member was joined or left.
MemberNeverSaved ==
  kcAccess \in OwnerTokens \cup {None} /\ kcRefresh \in OwnerTokens \cup {None}

\* The owner that loginAsMember() keeps can still refresh when it is returned
\* to: no rotation of its tokens overtook the copy, whenever it was asked for.
OwnerCanReturn ==
  owner # None /\ owner.refresh # None /\ owner.refresh.s \notin abandoned
    => owner.refresh.v = rotated[owner.refresh.s]

\* storeTokens(): a failure or crash between its writes "cannot strand the next
\* process with a server-revoked refresh token".
RestartFindsTheSession ==
  refresh # None /\ kcRefresh # None /\ refresh.s = kcRefresh.s /\ refresh.s \notin abandoned
    => kcRefresh.v = rotated[kcRefresh.s]

\* memberSwitchPending does not stay set: neither the refresh a switch awaits
\* nor a change of the session under its request leaves it pending for ever.
SwitchEnds == [](switch # "idle" => <>(switch = "idle"))

\* After a sign-out that is over, and until the next sign-in, no step of what was
\* in flight gives the process tokens again.
SignedOutStaysOut ==
  [][signedOut /\ signedOut' /\ signOut = "idle" /\ access = None /\ refresh = None
       => access' = None /\ refresh' = None]_vars
=============================================================================
