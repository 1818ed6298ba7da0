-------------------------- MODULE AuthSessionProofs --------------------------
(***************************************************************************)
(* For any number of accounts, members and rotations: the member's tokens  *)
(* stay out of the keychain, and every refresh token that is kept, be it   *)
(* in memory, in the keychain or with the owner to return to, is the last  *)
(* one of its session.                                                     *)
(***************************************************************************)
EXTENDS AuthSession, TLAPS

Saved == OwnerTokens \cup {None}

\* Without an owner to return to, the tokens in use are an owner's.
OwnerInUse == owner = None => access \in Saved /\ refresh \in Saved

\* The tokens kept to return to are an owner's, wherever they are kept.
OwnerKept ==
  /\ owner # None => owner.access \in Saved /\ owner.refresh \in Saved
  /\ switch = "returning" => held.access \in Saved /\ held.refresh \in Saved

\* A login as a member that is on its way starts from an owner's session.
JoinFromOwner ==
  /\ switch \in {"waiting", "asked", "failing", "joining"} => owner = None
  /\ switch = "joining" => held.of \in Owners

\* A refresh that may save what it holds holds an owner's token.
RefreshOfOwner ==
  /\ refreshAt = "asked" /\ owner = None => refreshTok \in OwnerTokens
  /\ refreshAt \in {"access", "adopt"} => refreshTok \in OwnerTokens
  /\ refreshAt = "adopted" => refreshTok \in Saved

SavedInv ==
  /\ MemberNeverSaved
  /\ OwnerInUse
  /\ OwnerKept
  /\ JoinFromOwner
  /\ RefreshOfOwner
-----------------------------------------------------------------------------
\* A refreshed token is of the same owner.
LEMMA FreshOfOwner == \A s \in Owners : Fresh(s) \in OwnerTokens
BY RotationsAssumption DEF Fresh, OwnerTokens

\* "No token" is told apart from every token.
LEMMA NoneIsNoToken == OwnerTokens \subseteq Tokens /\ None \notin OwnerTokens
BY NoneAssumption DEF OwnerTokens, Tokens, Sessions

\* The rotated token belongs to the session of the one that was sent.
LEMMA RotatedOfOwner ==
  ASSUME refreshTok \in OwnerTokens, BackendRotates,
         refreshTok' = [refreshTok EXCEPT !.v = @ + 1]
  PROVE  refreshTok' \in OwnerTokens
<1>1. refreshTok.s \in Owners /\ refreshTok.v \in 0..MaxRotations /\ refreshTok.v < MaxRotations
  BY DEF OwnerTokens, BackendRotates
<1>2. refreshTok.v + 1 \in 0..MaxRotations
  BY <1>1, RotationsAssumption
<1> QED BY <1>1, <1>2 DEF OwnerTokens

\* The invariant holds when the application starts.
LEMMA InitSavedInv == Init => SavedInv
BY DEF Init, SavedInv, MemberNeverSaved, OwnerInUse, OwnerKept, JoinFromOwner,
       RefreshOfOwner, Saved
-----------------------------------------------------------------------------
\* An answered refresh keeps it.
LEMMA RefreshKeepsSavedInv ==
  ASSUME SavedInv, RefreshNext
  PROVE  SavedInv'
<1> USE DEF SavedInv, MemberNeverSaved, OwnerInUse, OwnerKept, JoinFromOwner,
            RefreshOfOwner, Saved, memory, keychain, refreshVars, switchVars
<1>1. CASE Refresh
  BY <1>1, NoneIsNoToken DEF Refresh
<1>2. CASE RefreshLost
  BY <1>2 DEF RefreshLost, RefreshFails
<1>3. CASE RefreshAnswered
  <2>1. CASE owner = None
    <3>1. refreshTok' \in OwnerTokens
      BY <1>3, <2>1, RotatedOfOwner DEF RefreshAnswered
    <3> QED BY <1>3, <2>1, <3>1 DEF RefreshAnswered, StoreRotated
  <2>2. CASE owner # None
    BY <1>3, <2>2 DEF RefreshAnswered, StoreRotated
  <2> QED BY <2>1, <2>2
<1>4. CASE RefreshAccess
  BY <1>4 DEF RefreshAccess
<1>5. CASE RefreshTold
  BY <1>5 DEF RefreshTold
<1>6. CASE RefreshRejected
  BY <1>6 DEF RefreshRejected, RefreshFails, ClearMemory
<1>7. CASE Adopt
  BY <1>7 DEF Adopt
<1>8. CASE Adopted
  BY <1>8 DEF Adopted, RefreshFails
<1>9. CASE Drop
  BY <1>9 DEF Drop, ClearMemory
<1>10. CASE Forget
  BY <1>10 DEF Forget
<1>11. CASE Delete
  BY <1>11 DEF Delete, RefreshFails
<1>12. CASE Unread
  BY <1>12 DEF Unread, ClearMemory
<1>13. CASE Dropped
  BY <1>13 DEF Dropped, RefreshFails
<1> QED
  BY <1>1, <1>2, <1>3, <1>4, <1>5, <1>6, <1>7, <1>8, <1>9, <1>10, <1>11, <1>12, <1>13
     DEF RefreshNext

\* Signing in or out keeps it.
LEMMA SignInOrOutKeepsSavedInv ==
  ASSUME SavedInv,
         \/ \E s \in Owners : SignIn(s) \/ SignInAccess(s) \/ SignInTold(s)
         \/ SignOut \/ SignOutTold \/ SignOutDelete
  PROVE  SavedInv'
<1> USE DEF SavedInv, MemberNeverSaved, OwnerInUse, OwnerKept, JoinFromOwner,
            RefreshOfOwner, Saved, memory, keychain, refreshVars, switchVars
<1>1. ASSUME NEW s \in Owners, SignIn(s) PROVE SavedInv'
  BY <1>1, FreshOfOwner DEF SignIn, Outdate, Outdated
<1>2. ASSUME NEW s \in Owners, SignInAccess(s) PROVE SavedInv'
  BY <1>2, FreshOfOwner DEF SignInAccess
<1>3. ASSUME NEW s \in Owners, SignInTold(s) PROVE SavedInv'
  BY <1>3 DEF SignInTold
<1>4. CASE SignOut
  BY <1>4 DEF SignOut, Outdate, Outdated, ClearMemory
<1>5. CASE SignOutTold
  BY <1>5 DEF SignOutTold
<1>6. CASE SignOutDelete
  BY <1>6 DEF SignOutDelete
<1> QED BY <1>1, <1>2, <1>3, <1>4, <1>5, <1>6

\* The owner whose member is joined is kept, with its own tokens.
LEMMA JoinKeepsSavedInv ==
  ASSUME SavedInv, NEW o \in Owners, NEW m, refreshAt = "idle", owner = None,
         JoinOrNot(o, m), UNCHANGED <<keychain, refreshVars>>
  PROVE  SavedInv'
<1> USE DEF SavedInv, MemberNeverSaved, OwnerInUse, OwnerKept, JoinFromOwner,
            RefreshOfOwner, keychain, refreshVars
<1>1. CASE Join(o, m)
  <2>1. access \in Tokens \cup {None} /\ refresh \in Tokens \cup {None}
    BY NoneIsNoToken DEF Saved
  <2>2. owner' \in OwnerSessions
    BY <1>1, <2>1 DEF Join, OwnerSessions
  <2>3. owner' # None
    BY <2>2, NoneAssumption
  <2> QED BY <1>1, <2>3 DEF Join
<1>2. CASE SwitchIdle /\ UNCHANGED <<access, refresh, owner, me>>
  BY <1>2 DEF SwitchIdle
<1> QED BY <1>1, <1>2 DEF JoinOrNot

\* A switch of account keeps it.
LEMMA SwitchKeepsSavedInv ==
  ASSUME SavedInv, SwitchNext
  PROVE  SavedInv'
<1> USE DEF SavedInv, MemberNeverSaved, OwnerInUse, OwnerKept, JoinFromOwner,
            RefreshOfOwner, memory, keychain, refreshVars
<1>1. CASE LoginAsMember
  BY <1>1 DEF LoginAsMember, AskToJoin
<1>2. CASE AskAfterRefresh
  BY <1>2 DEF AskAfterRefresh, AskToJoin
<1>3. ASSUME NEW m \in Members, JoinAnswered(m) PROVE SavedInv'
  <2>1. CASE refreshAt = "idle"
    BY <1>3, <2>1, JoinKeepsSavedInv DEF JoinAnswered
  <2>2. CASE refreshAt # "idle"
    BY <1>3, <2>2 DEF JoinAnswered
  <2> QED BY <2>1, <2>2
<1>4. CASE JoinAfterRefresh
  BY <1>4, JoinKeepsSavedInv DEF JoinAfterRefresh
<1>5. CASE JoinFails
  BY <1>5 DEF JoinFails, SwitchIdle
<1>6. CASE Joined
  BY <1>6 DEF Joined, SwitchIdle
<1>7. CASE ReturnToOwner
  BY <1>7 DEF ReturnToOwner, Restore
<1>8. CASE ReturnAfterRefresh
  BY <1>8 DEF ReturnAfterRefresh, Restore
<1>9. CASE Returned
  BY <1>9 DEF Returned
<1>10. CASE ReturnEnds
  BY <1>10 DEF ReturnEnds, SwitchIdle
<1> QED
  BY <1>1, <1>2, <1>3, <1>4, <1>5, <1>6, <1>7, <1>8, <1>9, <1>10 DEF SwitchNext

\* Each step keeps it.
LEMMA StepKeepsSavedInv == SavedInv /\ [Next]_vars => SavedInv'
<1> SUFFICES ASSUME SavedInv, [Next]_vars PROVE SavedInv'
  OBVIOUS
<1> USE DEF SavedInv, MemberNeverSaved, OwnerInUse, OwnerKept, JoinFromOwner,
            RefreshOfOwner, memory, keychain, refreshVars, switchVars
<1>1. CASE (\E s \in Sessions : Revoke(s)) \/ Validate \/ Validated
  BY <1>1 DEF Revoke, Validate, Validated
<1>2. CASE Restart
  BY <1>2 DEF Restart, SwitchIdle, Saved
<1>3. CASE UNCHANGED vars
  BY <1>3 DEF vars
<1> QED
  BY <1>1, <1>2, <1>3, RefreshKeepsSavedInv, SignInOrOutKeepsSavedInv, SwitchKeepsSavedInv
     DEF Next

\* storeTokens(): "A delegated member must never replace the owner's saved
\* Keychain session": the keychain never holds a member's token.
THEOREM SessionMemberNeverSaved == Spec => []MemberNeverSaved
<1>1. SavedInv => MemberNeverSaved
  BY DEF SavedInv
<1> QED BY <1>1, InitSavedInv, StepKeepsSavedInv, PTL DEF Spec
-----------------------------------------------------------------------------
(***************************************************************************)
(* Types.                                                                  *)
(***************************************************************************)

\* What a refresh and a switch remember, by where they are.
PlacesInv ==
  /\ refreshAt \in {"asked", "stale", "access", "emit", "adopt"} => refreshTok \in Tokens
  /\ switch = "joining" => held \in [of : Owners, as : Members]
  /\ switch = "joined" => held \in Members
  /\ switch \in {"returning", "returned"} => held \in OwnerSessions

TypeInv == AuthTypeOK /\ PlacesInv

\* The token that a sign-in or a login as a member begins with.
LEMMA FreshTyped == \A s \in Sessions : /\ Fresh(s) \in Tokens /\ Fresh(s).s = s
                                        /\ Fresh(s).v = 0
BY RotationsAssumption DEF Fresh, Tokens

\* A token is a session's.
LEMMA TokensTyped == /\ \A t \in Tokens : t.s \in Sessions /\ t # None
                     /\ \A o \in OwnerSessions :
                          /\ o.access \in Tokens \cup {None} /\ o.refresh \in Tokens \cup {None}
                          /\ o.user \in Sessions /\ o # None
                     /\ Owners \subseteq Sessions /\ Members \subseteq Sessions
BY NoneAssumption DEF Tokens, OwnerSessions, Sessions

\* What the backend's rotation makes of the token and of its count.
LEMMA Rotates ==
  ASSUME TypeInv, refreshTok \in Tokens, BackendRotates
  PROVE  /\ rotated' \in [Sessions -> 0..MaxRotations]
         /\ begun' = begun /\ revoked' = revoked
         /\ rotated'[refreshTok.s] = rotated[refreshTok.s] + 1
         /\ refreshTok.v = rotated[refreshTok.s]
         /\ \A s \in Sessions : s # refreshTok.s => rotated'[s] = rotated[s]
         /\ [refreshTok EXCEPT !.v = @ + 1] \in Tokens
         /\ [refreshTok EXCEPT !.v = @ + 1].s = refreshTok.s
         /\ [refreshTok EXCEPT !.v = @ + 1].v = refreshTok.v + 1
<1>1. /\ refreshTok.s \in Sessions /\ refreshTok.v \in 0..MaxRotations
      /\ refreshTok.v < MaxRotations /\ refreshTok.v = rotated[refreshTok.s]
      /\ rotated \in [Sessions -> 0..MaxRotations]
      /\ rotated' = [rotated EXCEPT ![refreshTok.s] = @ + 1]
      /\ begun' = begun /\ revoked' = revoked
  BY DEF BackendRotates, TypeInv, AuthTypeOK, Tokens
<1>2. refreshTok.v + 1 \in 0..MaxRotations
  BY <1>1, RotationsAssumption
<1>3. /\ [refreshTok EXCEPT !.v = @ + 1] \in Tokens
      /\ [refreshTok EXCEPT !.v = @ + 1].s = refreshTok.s
      /\ [refreshTok EXCEPT !.v = @ + 1].v = refreshTok.v + 1
  BY <1>1, <1>2 DEF Tokens
<1> QED
  BY <1>1, <1>2, <1>3

LEMMA TypeInit == Init => TypeInv
<1> SUFFICES ASSUME Init PROVE TypeInv
  OBVIOUS
<1>1. 0 \in 0..MaxRotations
  BY RotationsAssumption
<1>2. /\ rotated \in [Sessions -> 0..MaxRotations]
      /\ signIn \in [Owners -> {"new", "access", "emit", "done"}]
  BY <1>1 DEF Init
<1>3. signedOut \in BOOLEAN
  BY DEF Init
<1> QED
  BY <1>2, <1>3 DEF Init, TypeInv, AuthTypeOK, PlacesInv, RefreshPlaces, SwitchPlaces

\* A step of the refresh keeps the types.
LEMMA RefreshKeepsTypes ==
  ASSUME TypeInv, RefreshNext
  PROVE  TypeInv'
<1> USE TokensTyped
<1> USE DEF TypeInv, AuthTypeOK, PlacesInv, RefreshPlaces, SwitchPlaces, memory, keychain,
            refreshVars, switchVars, backend
<1>1. CASE Refresh
  BY <1>1 DEF Refresh
<1>2. CASE RefreshLost
  <2>1. CASE UNCHANGED <<backend, abandoned>>
    BY <1>2, <2>1 DEF RefreshLost, RefreshFails
  <2>2. CASE BackendRotates
    <3>1. /\ rotated' \in [Sessions -> 0..MaxRotations]
          /\ begun' = begun /\ revoked' = revoked
      BY <1>2, <2>2, Rotates DEF RefreshLost
    <3> QED
      BY <1>2, <3>1 DEF RefreshLost, RefreshFails
  <2> QED
    BY <1>2, <2>1, <2>2 DEF RefreshLost
<1>3. CASE RefreshAnswered
  <2>1. /\ rotated' \in [Sessions -> 0..MaxRotations]
        /\ begun' = begun /\ revoked' = revoked
        /\ refreshTok' \in Tokens
    BY <1>3, Rotates DEF RefreshAnswered
  <2> QED
    BY <1>3, <2>1 DEF RefreshAnswered, StoreRotated
<1>4. CASE RefreshAccess
  BY <1>4 DEF RefreshAccess
<1>5. CASE RefreshTold
  BY <1>5 DEF RefreshTold
<1>6. CASE RefreshRejected
  BY <1>6 DEF RefreshRejected, RefreshFails, ClearMemory
<1>7. CASE Adopt
  BY <1>7 DEF Adopt
<1>8. CASE Adopted
  BY <1>8 DEF Adopted, RefreshFails
<1>9. CASE Drop
  BY <1>9 DEF Drop, ClearMemory
<1>10. CASE Forget
  BY <1>10 DEF Forget
<1>11. CASE Delete
  BY <1>11 DEF Delete, RefreshFails
<1>12. CASE Unread
  BY <1>12 DEF Unread, ClearMemory
<1>13. CASE Dropped
  BY <1>13 DEF Dropped, RefreshFails
<1> QED
  BY <1>1, <1>2, <1>3, <1>4, <1>5, <1>6, <1>7, <1>8, <1>9, <1>10, <1>11, <1>12, <1>13
     DEF RefreshNext

\* A sign-in, a sign-out, a validation or a revocation keeps the types.
LEMMA SignInOrOutKeepsTypes ==
  ASSUME TypeInv,
         \/ \E s \in Owners : SignIn(s) \/ SignInAccess(s) \/ SignInTold(s)
         \/ SignOut \/ SignOutTold \/ SignOutDelete
         \/ \E s \in Sessions : Revoke(s)
         \/ Validate \/ Validated
  PROVE  TypeInv'
<1> USE TokensTyped, FreshTyped
<1> USE DEF TypeInv, AuthTypeOK, PlacesInv, RefreshPlaces, SwitchPlaces, memory, keychain,
            refreshVars, switchVars, backend
<1>1. ASSUME NEW s \in Owners, SignIn(s) PROVE TypeInv'
  <2>1. signedOut' \in BOOLEAN
    BY <1>1 DEF SignIn
  <2>2. signIn' \in [Owners -> {"new", "access", "emit", "done"}] /\ Fresh(s) \in Tokens
        /\ s \in Sessions
    BY <1>1 DEF SignIn
  <2>3. refreshAt' \in RefreshPlaces /\ switch' \in SwitchPlaces /\ PlacesInv'
        /\ me' = None
    BY <1>1 DEF SignIn, Outdate, Outdated
  <2> QED
    BY <1>1, <2>1, <2>2, <2>3 DEF SignIn
<1>2. ASSUME NEW s \in Owners, SignInAccess(s) PROVE TypeInv'
  BY <1>2 DEF SignInAccess
<1>3. ASSUME NEW s \in Owners, SignInTold(s) PROVE TypeInv'
  BY <1>3 DEF SignInTold
<1>4. CASE SignOut
  <2>1. signedOut' \in BOOLEAN
    BY <1>4 DEF SignOut
  <2>2. refreshAt' \in RefreshPlaces /\ switch' \in SwitchPlaces /\ PlacesInv'
        /\ me' = None
    BY <1>4 DEF SignOut, Outdate, Outdated
  <2> QED
    BY <1>4, <2>1, <2>2 DEF SignOut, ClearMemory
<1>5. CASE SignOutTold
  <2>1. signedOut' \in BOOLEAN
    BY <1>5 DEF SignOutTold
  <2> QED
    BY <1>5, <2>1 DEF SignOutTold
<1>6. CASE SignOutDelete
  <2>1. signedOut' \in BOOLEAN
    BY <1>6 DEF SignOutDelete
  <2> QED
    BY <1>6, <2>1 DEF SignOutDelete
<1>7. ASSUME NEW s \in Sessions, Revoke(s) PROVE TypeInv'
  BY <1>7 DEF Revoke
<1>8. CASE Validate
  BY <1>8 DEF Validate
<1>9. CASE Validated
  BY <1>9 DEF Validated
<1> QED
  BY <1>1, <1>2, <1>3, <1>4, <1>5, <1>6, <1>7, <1>8, <1>9

\* A switch of account keeps the types.
LEMMA SwitchKeepsTypes ==
  ASSUME TypeInv, SwitchNext
  PROVE  TypeInv'
<1> USE TokensTyped, FreshTyped
<1> USE DEF TypeInv, AuthTypeOK, PlacesInv, RefreshPlaces, SwitchPlaces, memory, keychain,
            refreshVars, switchVars, backend
<1>1. CASE LoginAsMember
  BY <1>1 DEF LoginAsMember, AskToJoin
<1>2. CASE AskAfterRefresh
  BY <1>2 DEF AskAfterRefresh, AskToJoin
<1>3. ASSUME NEW o \in Owners, NEW m \in Members, Join(o, m)
      PROVE  /\ owner' \in OwnerSessions /\ access' \in Tokens /\ refresh' \in Tokens
             /\ held' \in Members /\ switch' = "joined" /\ me' = None
  BY <1>3 DEF Join, OwnerSessions
<1>4. ASSUME NEW m \in Members, JoinAnswered(m) PROVE TypeInv'
  <2>1. CASE refreshAt = "idle" /\ Join(held, m)
    BY <1>3, <1>4, <2>1 DEF JoinAnswered, JoinOrNot
  <2>2. CASE refreshAt = "idle" /\ SwitchIdle /\ UNCHANGED <<access, refresh, owner, me>>
    BY <1>4, <2>2 DEF JoinAnswered, JoinOrNot, SwitchIdle
  <2>3. CASE refreshAt # "idle"
    BY <1>4, <2>3 DEF JoinAnswered
  <2> QED
    BY <1>4, <2>1, <2>2, <2>3 DEF JoinAnswered, JoinOrNot
<1>5. CASE JoinAfterRefresh
  <2>1. held.of \in Owners /\ held.as \in Members
    BY <1>5 DEF JoinAfterRefresh
  <2>2. CASE Join(held.of, held.as)
    BY <1>3, <1>5, <2>1, <2>2 DEF JoinAfterRefresh, JoinOrNot
  <2>3. CASE SwitchIdle /\ UNCHANGED <<access, refresh, owner, me>>
    BY <1>5, <2>3 DEF JoinAfterRefresh, JoinOrNot, SwitchIdle
  <2> QED
    BY <1>5, <2>2, <2>3 DEF JoinAfterRefresh, JoinOrNot
<1>6. CASE JoinFails
  BY <1>6 DEF JoinFails, SwitchIdle
<1>7. CASE Joined
  BY <1>7 DEF Joined, SwitchIdle
<1>8. CASE ReturnToOwner
  BY <1>8 DEF ReturnToOwner, Restore
<1>9. CASE ReturnAfterRefresh
  BY <1>9 DEF ReturnAfterRefresh, Restore
<1>10. CASE Returned
  BY <1>10 DEF Returned
<1>11. CASE ReturnEnds
  BY <1>11 DEF ReturnEnds, SwitchIdle
<1> QED
  BY <1>1, <1>2, <1>4, <1>5, <1>6, <1>7, <1>8, <1>9, <1>10, <1>11 DEF SwitchNext

\* Each step keeps the types.
LEMMA StepKeepsTypes == TypeInv /\ [Next]_vars => TypeInv'
<1> SUFFICES ASSUME TypeInv, [Next]_vars PROVE TypeInv'
  OBVIOUS
<1> USE DEF AuthTypeOK, PlacesInv, RefreshPlaces, SwitchPlaces, memory, keychain,
            refreshVars, switchVars, backend
<1>1. CASE Restart
  <2>1. CASE UNCHANGED <<backend, abandoned>>
    BY <1>1, <2>1 DEF Restart, SwitchIdle, TypeInv
  <2>2. CASE refreshAt \in {"asked", "stale"} /\ BackendRotates
                 /\ abandoned' = abandoned \cup {refreshTok.s}
    <3>1. /\ rotated' \in [Sessions -> 0..MaxRotations]
          /\ begun' = begun /\ revoked' = revoked /\ refreshTok.s \in Sessions
      BY <2>2, Rotates, TokensTyped DEF TypeInv
    <3> QED
      BY <1>1, <2>2, <3>1 DEF Restart, SwitchIdle, TypeInv
  <2> QED
    BY <1>1, <2>1, <2>2 DEF Restart
<1>2. CASE UNCHANGED vars
  BY <1>2 DEF vars, TypeInv
<1> HIDE DEF AuthTypeOK, PlacesInv
<1> QED
  BY <1>1, <1>2, RefreshKeepsTypes, SignInOrOutKeepsTypes, SwitchKeepsTypes DEF Next

\* The session's fields and flows keep their types: in particular the owner
\* that is kept has a user, whose name getAccountSwitchState() reads.
THEOREM SessionTypeCorrect == Spec => []AuthTypeOK
<1>1. TypeInv => AuthTypeOK
  BY DEF TypeInv
<1> QED BY <1>1, TypeInit, StepKeepsTypes, PTL DEF Spec
-----------------------------------------------------------------------------
(***************************************************************************)
(* The refresh tokens that are kept are the last ones.                     *)
(***************************************************************************)

\* The token is the last one of its session, unless that is left.
Current(t) == t # None /\ t.s \notin abandoned => t.v = rotated[t.s]

\* A refresh is one of the memory's tokens; while there is an owner to return
\* to, the memory's tokens are a member's.
InUseInv ==
  /\ refreshAt = "asked" => refreshTok = refresh
  /\ refreshAt = "adopt" => owner = None
  /\ owner # None /\ refresh # None => refresh.s \in Members

\* The tokens are of sessions that the backend has begun.
BegunInv ==
  /\ refresh # None => refresh.s \in begun
  /\ kcRefresh # None => kcRefresh.s \in begun
  /\ refreshAt \in {"asked", "stale", "adopt"} => refreshTok.s \in begun
  /\ owner # None /\ owner.refresh # None => owner.refresh.s \in begun
  /\ switch = "returning" /\ held.refresh # None => held.refresh.s \in begun
  /\ switch = "joining" => held.as \in begun
  /\ \A s \in Owners : signIn[s] = "new" => s \notin begun
  /\ \A s \in Sessions : s \notin begun => rotated[s] = 0

\* Wherever a refresh token is kept, no rotation has overtaken it.
CurrentInv ==
  /\ Current(refresh) /\ Current(kcRefresh)
  /\ owner # None => Current(owner.refresh)
  /\ refreshAt = "stale" => refreshTok.s \in abandoned
  /\ refreshAt = "adopt" => Current(refreshTok)
  /\ switch = "returning" =>
       held = owner \/ held.refresh = None \/ held.refresh.s \in abandoned
  /\ switch = "joining" => rotated[held.as] = 0 \/ held.as \in abandoned

TokensInv == TypeInv /\ SavedInv /\ InUseInv /\ BegunInv /\ CurrentInv

LEMMA TokensInit == Init => TokensInv
<1> SUFFICES ASSUME Init PROVE TokensInv
  OBVIOUS
<1>1. TypeInv /\ SavedInv
  BY TypeInit, InitSavedInv
<1>2. InUseInv /\ BegunInv /\ CurrentInv
  BY DEF Init, InUseInv, BegunInv, CurrentInv, Current
<1> QED
  BY <1>1, <1>2 DEF TokensInv

\* Steps that keep or forget tokens, and leave the backend alone.
LEMMA TokensFramed ==
  ASSUME TokensInv, UNCHANGED <<owner, begun, rotated, abandoned>>,
         refresh' \in {refresh, None}, kcRefresh' \in {kcRefresh, None},
         refreshAt' \in {"asked", "stale", "adopt"} =>
           refreshAt' = refreshAt /\ refreshTok' = refreshTok /\ refresh' = refresh,
         switch' \in {"joining", "returning"} => switch' = switch /\ held' = held,
         \A s \in Owners : signIn'[s] = "new" => signIn[s] = "new"
  PROVE  InUseInv' /\ BegunInv' /\ CurrentInv'
<1>1. InUseInv'
  BY DEF TokensInv, InUseInv
<1>2. BegunInv'
  BY DEF TokensInv, BegunInv
<1>3. CurrentInv'
  BY DEF TokensInv, CurrentInv, Current
<1> QED
  BY <1>1, <1>2, <1>3

\* A token is overtaken by a rotation of its own session only.
LEMMA CurrentStays ==
  ASSUME NEW t \in Tokens \cup {None}, t # None,
         rotated'[t.s] = rotated[t.s], abandoned \subseteq abandoned', Current(t)
  PROVE  t.s \notin abandoned' => t.v = rotated'[t.s]
BY DEF Current

\* The rotation that the refresh asked for, and nobody hears of.
LEMMA RotationLost ==
  ASSUME TokensInv, refreshAt \in {"asked", "stale"}, BackendRotates,
         refreshTok.s \in abandoned', abandoned \subseteq abandoned'
  PROVE  /\ refreshTok.s \in begun /\ begun' = begun
         /\ \A t \in Tokens \cup {None} : Current(t) =>
              (t # None /\ t.s \notin abandoned' => t.v = rotated'[t.s])
         /\ \A s \in Sessions : s \notin begun' => rotated'[s] = 0
         /\ \A s \in Sessions : rotated[s] = 0 \/ s \in abandoned
              => rotated'[s] = 0 \/ s \in abandoned'
<1>1. TypeInv /\ refreshTok \in Tokens /\ refreshTok.s \in begun
  BY DEF TokensInv, TypeInv, PlacesInv, BegunInv
<1>2. /\ begun' = begun /\ \A s \in Sessions : s # refreshTok.s => rotated'[s] = rotated[s]
  BY <1>1, Rotates
<1>3. \A t \in Tokens : t.s \in Sessions
  BY TokensTyped
<1>4. \A t \in Tokens \cup {None} : Current(t) =>
        (t # None /\ t.s \notin abandoned' => t.v = rotated'[t.s])
  BY <1>2, <1>3 DEF Current
<1>5. \A s \in Sessions : s \notin begun => rotated[s] = 0
  BY DEF TokensInv, BegunInv
<1> QED
  BY <1>1, <1>2, <1>4, <1>5

LEMMA TokensTypes ==
  ASSUME TokensInv
  PROVE  /\ refresh \in Tokens \cup {None} /\ kcRefresh \in Tokens \cup {None}
         /\ owner \in OwnerSessions \cup {None}
         /\ owner # None => owner.refresh \in Tokens \cup {None}
         /\ switch = "returning" => held \in OwnerSessions /\ held.refresh \in Tokens \cup {None}
         /\ switch = "joining" => held.as \in Members /\ held.of \in Owners
         /\ refreshAt \in {"asked", "stale", "adopt"} => refreshTok \in Tokens
BY TokensTyped DEF TokensInv, TypeInv, AuthTypeOK, PlacesInv

\* A refresh whose answer is lost.
LEMMA RefreshLostKeepsTokens ==
  ASSUME TokensInv, RefreshLost
  PROVE  InUseInv' /\ BegunInv' /\ CurrentInv'
<1> USE DEF memory, keychain, refreshVars, switchVars, backend
<1>1. CASE UNCHANGED <<backend, abandoned>>
  BY <1>1, TokensFramed DEF RefreshLost, RefreshFails
<1>2. CASE /\ BackendRotates
           /\ abandoned' = IF refreshAt = "asked" THEN abandoned \cup {refreshTok.s}
                           ELSE abandoned
  <2>1. /\ refreshTok.s \in abandoned' /\ abandoned \subseteq abandoned'
        /\ refreshAt \in {"asked", "stale"}
    BY <1>2 DEF RefreshLost, TokensInv, CurrentInv, BackendRotates
  <2>2. /\ UNCHANGED <<refresh, kcRefresh, owner, signIn>> /\ refreshAt' = "idle"
        /\ switch' \in {"joining", "returning"} => switch' = switch /\ held' = held
    BY DEF RefreshLost, RefreshFails
  <2>3. InUseInv'
    BY <2>2 DEF TokensInv, InUseInv
  <2>4. BegunInv'
    BY <1>2, <2>1, <2>2, RotationLost DEF TokensInv, BegunInv
  <2>5. CurrentInv'
    <3>1. /\ \A t \in Tokens \cup {None} : Current(t) =>
               (t # None /\ t.s \notin abandoned' => t.v = rotated'[t.s])
          /\ \A s \in Sessions : rotated[s] = 0 \/ s \in abandoned
               => rotated'[s] = 0 \/ s \in abandoned'
      BY <1>2, <2>1, RotationLost
    <3>2. /\ Current(refresh) /\ Current(kcRefresh)
          /\ owner # None => Current(owner.refresh)
          /\ switch = "returning" =>
               held = owner \/ held.refresh = None \/ held.refresh.s \in abandoned
          /\ switch = "joining" => rotated[held.as] = 0 \/ held.as \in abandoned
      BY DEF TokensInv, CurrentInv
    <3>3. switch = "joining" => held.as \in Sessions
      BY TokensTypes, TokensTyped
    <3> QED
      BY <2>1, <2>2, <3>1, <3>2, <3>3, TokensTypes DEF CurrentInv, Current
  <2> QED
    BY <2>3, <2>4, <2>5
<1> QED
  BY <1>1, <1>2 DEF RefreshLost

\* A refresh that is answered: every copy of the session's token is renewed or
\* its session is left.
LEMMA RefreshAnsweredKeepsTokens ==
  ASSUME TokensInv, RefreshAnswered
  PROVE  InUseInv' /\ BegunInv' /\ CurrentInv'
<1> DEFINE s == refreshTok.s
<1> USE DEF memory, keychain, refreshVars, switchVars, backend
<1>1. /\ refreshTok = refresh /\ refreshTok \in Tokens /\ s \in begun /\ s \in Sessions
      /\ TypeInv /\ refreshAt = "asked"
  BY TokensTypes, TokensTyped DEF RefreshAnswered, TokensInv, InUseInv, BegunInv
<1>2. /\ refreshTok'.s = s /\ refreshTok' \in Tokens /\ refreshTok'.v = rotated'[s]
      /\ begun' = begun
      /\ \A d \in Sessions : d # s => rotated'[d] = rotated[d]
  BY <1>1, Rotates DEF RefreshAnswered
<1>3. /\ refresh' = refreshTok' /\ owner' = owner /\ signIn' = signIn
      /\ switch' = switch /\ held' = held
      /\ refreshAt' \in {"access", "emit"}
      /\ abandoned' = abandoned \/ abandoned' = abandoned \cup {s}
      /\ \/ owner # None /\ kcRefresh' = kcRefresh
         \/ owner = None /\ kcRefresh' = refreshTok'
         \/ kcRefresh' = kcRefresh /\ s \in abandoned'
  BY <1>2 DEF RefreshAnswered, StoreRotated
<1> HIDE DEF s
<1>4. /\ \A d \in Owners : d \notin Members
      /\ \A t \in Saved : t # None => t.s \in Owners
  BY SessionsAssumption DEF Saved, OwnerTokens
<1>5. /\ owner # None => s \in Members
      /\ owner = None => s \in Owners
  BY <1>1, <1>4, TokensTyped DEF s, TokensInv, InUseInv, SavedInv, OwnerInUse
<1>6. InUseInv'
  BY <1>1, <1>2, <1>3, <1>5 DEF TokensInv, InUseInv
<1>7. BegunInv'
  <2>1. \A d \in Sessions : d \notin begun' => rotated'[d] = 0
    BY <1>1, <1>2 DEF TokensInv, BegunInv
  <2> QED
    BY <1>1, <1>2, <1>3, <2>1 DEF TokensInv, BegunInv
<1>8. CurrentInv'
  <2>1. ASSUME NEW t \in Tokens \cup {None}, Current(t), t # None, t.s # s
        PROVE  t.s \notin abandoned' => t.v = rotated'[t.s]
    BY <1>2, <1>3, <2>1, TokensTyped DEF Current
  <2>2. refresh'.v = rotated'[refresh'.s]
    BY <1>2, <1>3
  <2>3. kcRefresh' # None /\ kcRefresh'.s \notin abandoned'
          => kcRefresh'.v = rotated'[kcRefresh'.s]
    <3>1. CASE kcRefresh' = refreshTok'
      BY <1>2, <3>1
    <3>2. CASE kcRefresh' = kcRefresh /\ s \in abandoned'
      <4>1. Current(kcRefresh)
        BY DEF TokensInv, CurrentInv
      <4> QED
        BY <2>1, <3>2, <4>1, TokensTypes
    <3>3. CASE kcRefresh' = kcRefresh /\ owner # None
      <4>1. Current(kcRefresh) /\ (kcRefresh # None => kcRefresh.s # s)
        BY <1>4, <1>5, <3>3 DEF TokensInv, CurrentInv, SavedInv, MemberNeverSaved, Saved
      <4> QED
        BY <2>1, <3>3, <4>1, TokensTypes
    <3> QED
      BY <1>3, <3>1, <3>2, <3>3
  <2>4. owner' # None => (owner'.refresh # None /\ owner'.refresh.s \notin abandoned'
                            => owner'.refresh.v = rotated'[owner'.refresh.s])
    <3>1. owner # None => Current(owner.refresh) /\ (owner.refresh # None => owner.refresh.s # s)
      BY <1>4, <1>5 DEF TokensInv, CurrentInv, SavedInv, OwnerKept
    <3> QED
      BY <1>3, <2>1, <3>1, TokensTypes
  <2>5. switch' = "joining" => rotated'[held'.as] = 0 \/ held'.as \in abandoned'
    <3>1. switch = "joining" => /\ held.as \in Members /\ held.as \in Sessions /\ owner = None
                                /\ rotated[held.as] = 0 \/ held.as \in abandoned
      BY TokensTypes, TokensTyped DEF TokensInv, CurrentInv, SavedInv, JoinFromOwner
    <3> QED
      BY <1>2, <1>3, <1>4, <1>5, <3>1
  <2>6. switch' = "returning" =>
          held' = owner' \/ held'.refresh = None \/ held'.refresh.s \in abandoned'
    BY <1>3 DEF TokensInv, CurrentInv
  <2> QED
    BY <1>3, <2>2, <2>3, <2>4, <2>5, <2>6 DEF CurrentInv, Current
<1> QED
  BY <1>6, <1>7, <1>8

\* The other steps of a refresh.
LEMMA RefreshKeepsTokens ==
  ASSUME TokensInv, RefreshNext
  PROVE  InUseInv' /\ BegunInv' /\ CurrentInv'
<1> USE DEF memory, keychain, refreshVars, switchVars, backend
<1>1. CASE Refresh
  <2>1. /\ UNCHANGED <<refresh, kcRefresh, owner, begun, rotated, abandoned, switch, held, signIn>>
        /\ refreshAt' = "asked" /\ refreshTok' = refresh /\ refresh # None
    BY <1>1 DEF Refresh
  <2> QED
    BY <2>1 DEF TokensInv, InUseInv, BegunInv, CurrentInv, Current
<1>2. CASE RefreshLost
  BY <1>2, RefreshLostKeepsTokens
<1>3. CASE RefreshAnswered
  BY <1>3, RefreshAnsweredKeepsTokens
<1>4. CASE RefreshAccess \/ RefreshTold
  BY <1>4, TokensFramed DEF RefreshAccess, RefreshTold
<1>5. CASE RefreshRejected
  <2>1. CASE refreshAt' = "adopt"
    <3>1. /\ UNCHANGED <<refresh, kcRefresh, owner, begun, rotated, abandoned, switch, held, signIn>>
          /\ refreshTok' = kcRefresh /\ owner = None /\ kcRefresh # None
      BY <1>5, <2>1 DEF RefreshRejected, RefreshFails
    <3> QED
      BY <2>1, <3>1 DEF TokensInv, InUseInv, BegunInv, CurrentInv, Current
  <2>2. CASE refreshAt' # "adopt"
    BY <1>5, <2>2, TokensFramed DEF RefreshRejected, RefreshFails, ClearMemory
  <2> QED
    BY <2>1, <2>2
<1>6. CASE Adopt
  <2>1. /\ UNCHANGED <<kcRefresh, owner, begun, rotated, abandoned, switch, held, signIn>>
        /\ refreshAt = "adopt" /\ refresh' = refreshTok /\ refreshAt' \in {"adopted", "unread"}
    BY <1>6 DEF Adopt
  <2> QED
    BY <2>1 DEF TokensInv, InUseInv, BegunInv, CurrentInv, Current
<1>7. CASE Adopted \/ Drop
  BY <1>7, TokensFramed DEF Adopted, Drop, ClearMemory, RefreshFails
<1>8. CASE Forget \/ Delete
  BY <1>8, TokensFramed DEF Forget, Delete, RefreshFails
<1>9. CASE Unread \/ Dropped
  BY <1>9, TokensFramed DEF Unread, Dropped, ClearMemory, RefreshFails
<1> QED
  BY <1>1, <1>2, <1>3, <1>4, <1>5, <1>6, <1>7, <1>8, <1>9 DEF RefreshNext

\* A sign-in leaves every session begun before; a sign-out too.
LEMMA SignInOrOutKeepsTokens ==
  ASSUME TokensInv,
         \/ \E s \in Owners : SignIn(s) \/ SignInAccess(s) \/ SignInTold(s)
         \/ SignOut \/ SignOutTold \/ SignOutDelete
         \/ \E s \in Sessions : Revoke(s)
         \/ Validate \/ Validated
  PROVE  InUseInv' /\ BegunInv' /\ CurrentInv'
<1> USE DEF memory, keychain, refreshVars, switchVars, backend
<1>1. ASSUME owner' = None, rotated' = rotated, begun \subseteq begun',
             abandoned' = abandoned \cup begun, refreshTok' = refreshTok,
             refreshAt' = (IF refreshAt = "asked" THEN "stale" ELSE refreshAt),
             switch' = Outdated, held' = held,
             refresh' # None => refresh'.s \in begun' /\ rotated[refresh'.s] = refresh'.v,
             kcRefresh' = kcRefresh \/ kcRefresh' = refresh',
             \A s \in Owners : signIn'[s] = "new" => s \notin begun'
      PROVE  InUseInv' /\ BegunInv' /\ CurrentInv'
  <2>1. InUseInv'
    BY <1>1 DEF TokensInv, InUseInv, SavedInv, RefreshOfOwner
  <2>2. switch' \in {"joining", "returning"} => switch' = switch
    BY <1>1 DEF Outdated
  <2>3. refreshAt' \in {"asked", "stale", "adopt"} =>
          refreshAt' # "asked" /\ refreshAt \in {"asked", "stale", "adopt"}
    BY <1>1
  <2>4. BegunInv'
    BY <1>1, <2>2, <2>3 DEF TokensInv, BegunInv
  <2>5. CurrentInv'
    <3>1. /\ Current(kcRefresh) /\ (kcRefresh # None => kcRefresh.s \in begun)
          /\ refreshAt \in {"asked", "stale", "adopt"} => refreshTok.s \in begun
          /\ switch = "returning" => held.refresh = None \/ held.refresh.s \in begun
          /\ switch = "joining" => held.as \in begun
      BY DEF TokensInv, BegunInv, CurrentInv
    <3> QED
      BY <1>1, <2>2, <2>3, <3>1 DEF CurrentInv, Current
  <2> QED
    BY <2>1, <2>4, <2>5
<1>2. ASSUME NEW s \in Owners, SignIn(s) PROVE InUseInv' /\ BegunInv' /\ CurrentInv'
  <2>1. s \notin begun /\ s \in Sessions
    BY <1>2, TokensTyped DEF SignIn, TokensInv, BegunInv
  <2>2. Fresh(s).s = s /\ Fresh(s).v = 0 /\ rotated[s] = 0
    BY <2>1, FreshTyped DEF TokensInv, BegunInv
  <2>3. /\ \A d \in Owners : signIn'[d] = "new" => d # s /\ signIn[d] = "new"
        /\ begun' = begun \cup {s} /\ refresh' = Fresh(s)
        /\ rotated' = rotated
        /\ owner' = None /\ abandoned' = abandoned \cup begun
        /\ refreshTok' = refreshTok /\ switch' = Outdated /\ held' = held
        /\ refreshAt' = IF refreshAt = "asked" THEN "stale" ELSE refreshAt
        /\ kcRefresh' = kcRefresh \/ kcRefresh' = refresh'
    BY <1>2 DEF SignIn, Outdate, TokensInv, TypeInv, AuthTypeOK
  <2>4. \A d \in Owners : signIn'[d] = "new" => d \notin begun'
    BY <2>3 DEF TokensInv, BegunInv
  <2> QED
    BY <1>1, <2>2, <2>3, <2>4
<1>3. ASSUME NEW s \in Owners, SignInAccess(s) \/ SignInTold(s)
      PROVE  InUseInv' /\ BegunInv' /\ CurrentInv'
  <2>1. \A d \in Owners : signIn'[d] = "new" => signIn[d] = "new"
    BY <1>3 DEF SignInAccess, SignInTold, TokensInv, TypeInv, AuthTypeOK
  <2> QED
    BY <1>3, <2>1, TokensFramed DEF SignInAccess, SignInTold
<1>4. CASE SignOut
  <2>1. \A d \in Owners : signIn[d] = "new" => d \notin begun
    BY DEF TokensInv, BegunInv
  <2> QED
    BY <1>1, <1>4, <2>1 DEF SignOut, Outdate, ClearMemory
<1>5. CASE SignOutTold \/ SignOutDelete
  BY <1>5, TokensFramed DEF SignOutTold, SignOutDelete
<1>6. ASSUME NEW s \in Sessions, Revoke(s) PROVE InUseInv' /\ BegunInv' /\ CurrentInv'
  BY <1>6, TokensFramed DEF Revoke
<1>7. CASE Validate \/ Validated
  BY <1>7, TokensFramed DEF Validate, Validated
<1> QED
  BY <1>2, <1>3, <1>4, <1>5, <1>6, <1>7

\* The member is joined with a token that was never rotated, while no refresh
\* is in flight.
LEMMA JoinKeepsTokens ==
  ASSUME TokensInv, NEW o \in Owners, NEW m \in Members,
         refreshAt = "idle", owner = None, Join(o, m),
         UNCHANGED <<keychain, refreshVars, signIn, rotated, abandoned>>,
         begun \subseteq begun', m \in begun', rotated[m] = 0 \/ m \in abandoned,
         \A s \in Owners : s \in begun' => s \in begun
  PROVE  InUseInv' /\ BegunInv' /\ CurrentInv'
<1> USE DEF keychain, refreshVars
<1>1. /\ owner'.refresh = refresh /\ refresh' = Fresh(m) /\ switch' = "joined"
      /\ Fresh(m).s = m /\ Fresh(m).v = 0
      /\ UNCHANGED <<kcRefresh, refreshAt, refreshTok, signIn, rotated, abandoned>>
  BY FreshTyped, TokensTyped DEF Join
<1>2. InUseInv'
  BY <1>1 DEF InUseInv
<1>3. BegunInv'
  BY <1>1 DEF TokensInv, BegunInv
<1>4. CurrentInv'
  BY <1>1 DEF TokensInv, CurrentInv, Current
<1> QED
  BY <1>2, <1>3, <1>4

\* The owner's token is in use again, while no refresh is in flight.
LEMMA RestoreKeepsTokens ==
  ASSUME TokensInv, NEW o \in OwnerSessions, refreshAt = "idle", Restore(o),
         o = owner \/ o.refresh = None \/ (o.refresh.s \in abandoned),
         o.refresh # None => o.refresh.s \in begun
  PROVE  InUseInv' /\ BegunInv' /\ CurrentInv'
<1> USE DEF keychain, refreshVars, backend
<1>1. /\ refresh' = o.refresh /\ owner' = None /\ switch' = "returned"
      /\ UNCHANGED <<kcRefresh, refreshAt, refreshTok, signIn, begun, rotated, abandoned>>
  BY DEF Restore
<1>2. Current(o.refresh)
  BY TokensTyped DEF TokensInv, CurrentInv, Current
<1>3. InUseInv'
  BY <1>1 DEF InUseInv
<1>4. BegunInv'
  BY <1>1 DEF TokensInv, BegunInv
<1>5. CurrentInv'
  BY <1>1, <1>2 DEF TokensInv, CurrentInv, Current
<1> QED
  BY <1>3, <1>4, <1>5

\* A switch of account waits for the refresh in flight, so that no copy of a
\* token is made or used while a rotation is asked for.
LEMMA SwitchKeepsTokens ==
  ASSUME TokensInv, SwitchNext
  PROVE  InUseInv' /\ BegunInv' /\ CurrentInv'
<1> USE DEF memory, keychain, refreshVars, switchVars, backend
<1>1. CASE LoginAsMember \/ AskAfterRefresh
  BY <1>1, TokensFramed DEF LoginAsMember, AskAfterRefresh, AskToJoin
<1>2. ASSUME NEW m \in Members, JoinAnswered(m) PROVE InUseInv' /\ BegunInv' /\ CurrentInv'
  <2>1. /\ m \notin begun /\ begun' = begun \cup {m} /\ rotated[m] = 0 /\ m \notin Owners
        /\ held \in Owners /\ owner = None
        /\ UNCHANGED <<keychain, refreshVars, signIn, rotated, abandoned>>
    BY <1>2, TokensTyped, SessionsAssumption
       DEF JoinAnswered, TokensInv, BegunInv, SavedInv, JoinFromOwner
  <2>2. CASE refreshAt = "idle" /\ Join(held, m)
    BY <2>1, <2>2, JoinKeepsTokens
  <2>3. CASE UNCHANGED <<refresh, owner>> /\ switch' \notin {"joining", "returning"}
    <3>1. InUseInv'
      BY <2>1, <2>3 DEF TokensInv, InUseInv
    <3>2. BegunInv'
      BY <2>1, <2>3 DEF TokensInv, BegunInv
    <3>3. CurrentInv'
      BY <2>1, <2>3 DEF TokensInv, CurrentInv, Current
    <3> QED
      BY <3>1, <3>2, <3>3
  <2>4. CASE UNCHANGED <<refresh, owner>> /\ switch' = "joining" /\ held'.as = m
    <3>1. InUseInv'
      BY <2>1, <2>4 DEF TokensInv, InUseInv
    <3>2. BegunInv'
      BY <2>1, <2>4 DEF TokensInv, BegunInv
    <3>3. CurrentInv'
      BY <2>1, <2>4 DEF TokensInv, CurrentInv, Current
    <3> QED
      BY <3>1, <3>2, <3>3
  <2>5. CASE refreshAt = "idle" /\ ~Join(held, m)
    BY <1>2, <2>3, <2>5 DEF JoinAnswered, JoinOrNot, SwitchIdle
  <2>6. CASE refreshAt # "idle"
    BY <1>2, <2>4, <2>6 DEF JoinAnswered
  <2> QED
    BY <2>2, <2>5, <2>6
<1>3. CASE JoinAfterRefresh
  <2>1. /\ held.of \in Owners /\ held.as \in Members /\ held.as \in begun
        /\ rotated[held.as] = 0 \/ held.as \in abandoned
        /\ owner = None /\ refreshAt = "idle"
        /\ UNCHANGED <<keychain, refreshVars, signIn, begun, rotated, abandoned>>
    BY <1>3, TokensTypes
       DEF JoinAfterRefresh, TokensInv, BegunInv, CurrentInv, SavedInv, JoinFromOwner
  <2>2. CASE Join(held.of, held.as)
    BY <2>1, <2>2, JoinKeepsTokens
  <2>3. CASE ~Join(held.of, held.as)
    BY <1>3, <2>3, TokensFramed DEF JoinAfterRefresh, JoinOrNot, SwitchIdle
  <2> QED
    BY <2>2, <2>3
<1>4. CASE JoinFails \/ Joined
  BY <1>4, TokensFramed DEF JoinFails, Joined, SwitchIdle
<1>5. CASE ReturnToOwner
  <2>1. owner \in OwnerSessions /\ (owner.refresh # None => owner.refresh.s \in begun)
    BY <1>5, TokensTypes DEF ReturnToOwner, TokensInv, BegunInv
  <2>2. CASE refreshAt = "idle"
    BY <1>5, <2>1, <2>2, RestoreKeepsTokens DEF ReturnToOwner
  <2>3. CASE refreshAt # "idle"
    <3>1. /\ UNCHANGED <<refresh, kcRefresh, owner, refreshAt, refreshTok, signIn, begun,
                         rotated, abandoned>>
          /\ switch' = "returning" /\ held' = owner
      BY <1>5, <2>3 DEF ReturnToOwner
    <3> QED
      BY <2>1, <3>1 DEF TokensInv, InUseInv, BegunInv, CurrentInv, Current
  <2> QED
    BY <2>2, <2>3
<1>6. CASE ReturnAfterRefresh
  <2>1. /\ held \in OwnerSessions
        /\ held = owner \/ held.refresh = None \/ held.refresh.s \in abandoned
        /\ held.refresh # None => held.refresh.s \in begun
    BY <1>6, TokensTypes DEF ReturnAfterRefresh, TokensInv, BegunInv, CurrentInv
  <2> QED
    BY <1>6, <2>1, RestoreKeepsTokens DEF ReturnAfterRefresh
<1>7. CASE Returned \/ ReturnEnds
  BY <1>7, TokensFramed DEF Returned, ReturnEnds, SwitchIdle
<1> QED
  BY <1>1, <1>2, <1>3, <1>4, <1>5, <1>6, <1>7 DEF SwitchNext

\* The next process finds the keychain's tokens.
LEMMA RestartKeepsTokens ==
  ASSUME TokensInv, Restart
  PROVE  InUseInv' /\ BegunInv' /\ CurrentInv'
<1> USE DEF keychain, backend
<1>1. /\ refresh' = kcRefresh /\ kcRefresh' = kcRefresh /\ owner' = None
      /\ refreshAt' = "idle" /\ switch' = "idle"
      /\ \A s \in Owners : signIn'[s] = "new" => signIn[s] = "new"
  BY DEF Restart, SwitchIdle
<1>2. /\ begun' = begun /\ \A s \in Sessions : s \notin begun' => rotated'[s] = 0
      /\ \A t \in Tokens \cup {None} : Current(t) =>
           (t # None /\ t.s \notin abandoned' => t.v = rotated'[t.s])
  <2>1. CASE UNCHANGED <<backend, abandoned>>
    BY <2>1 DEF TokensInv, BegunInv, Current
  <2>2. CASE /\ refreshAt \in {"asked", "stale"} /\ BackendRotates
             /\ abandoned' = abandoned \cup {refreshTok.s}
    BY <2>2, RotationLost
  <2> QED
    BY <2>1, <2>2 DEF Restart
<1>3. InUseInv'
  BY <1>1 DEF InUseInv
<1>4. BegunInv'
  BY <1>1, <1>2 DEF TokensInv, BegunInv
<1>5. CurrentInv'
  BY <1>1, <1>2, TokensTypes DEF TokensInv, CurrentInv, Current
<1> QED
  BY <1>3, <1>4, <1>5

\* Each step keeps the tokens that are kept the last ones.
LEMMA StepKeepsTokens == TokensInv /\ [Next]_vars => TokensInv'
<1> SUFFICES ASSUME TokensInv, [Next]_vars PROVE TokensInv'
  OBVIOUS
<1>1. TypeInv' /\ SavedInv'
  BY StepKeepsTypes, StepKeepsSavedInv DEF TokensInv
<1>2. CASE UNCHANGED vars
  <2>1. /\ UNCHANGED <<owner, begun, rotated, abandoned>>
        /\ UNCHANGED <<refresh, kcRefresh, refreshAt, refreshTok, switch, held, signIn>>
    BY <1>2 DEF vars, memory, keychain, refreshVars, switchVars, backend
  <2>2. \A s \in Owners : signIn'[s] = "new" => signIn[s] = "new"
    BY <2>1
  <2> QED
    BY <1>1, <2>1, <2>2, TokensFramed DEF TokensInv
<1>3. CASE RefreshNext
  BY <1>1, <1>3, RefreshKeepsTokens DEF TokensInv
<1>4. CASE \/ \E s \in Owners : SignIn(s) \/ SignInAccess(s) \/ SignInTold(s)
           \/ SignOut \/ SignOutTold \/ SignOutDelete
           \/ \E s \in Sessions : Revoke(s)
           \/ Validate \/ Validated
  BY <1>1, <1>4, SignInOrOutKeepsTokens DEF TokensInv
<1>5. CASE SwitchNext
  BY <1>1, <1>5, SwitchKeepsTokens DEF TokensInv
<1>6. CASE Restart
  BY <1>1, <1>6, RestartKeepsTokens DEF TokensInv
<1> QED
  BY <1>2, <1>3, <1>4, <1>5, <1>6 DEF Next

\* The owner that loginAsMember() keeps can still refresh when it is returned
\* to, whatever refresh was in flight when its member was joined or left.
THEOREM SessionOwnerCanReturn == Spec => []OwnerCanReturn
<1>1. TokensInv => OwnerCanReturn
  BY DEF TokensInv, CurrentInv, Current, OwnerCanReturn
<1> QED BY <1>1, TokensInit, StepKeepsTokens, PTL DEF Spec

\* storeTokens(): a failure or a crash between its writes "cannot strand the
\* next process with a server-revoked refresh token".
THEOREM SessionRestartFinds == Spec => []RestartFindsTheSession
<1>1. TokensInv => RestartFindsTheSession
  BY DEF TokensInv, CurrentInv, Current, RestartFindsTheSession
<1> QED BY <1>1, TokensInit, StepKeepsTokens, PTL DEF Spec
=============================================================================
