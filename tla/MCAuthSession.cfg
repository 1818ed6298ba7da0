\* See README.md: one sign-in, one login as a member, one rotation of either's tokens.
SPECIFICATION FairSpec
CONSTANTS
  Owners = {o1}
  Members = {m1}
  None = None
  MaxRotations = 1
INVARIANTS
  MemberNeverSaved
  OwnerCanReturn
  RestartFindsTheSession
PROPERTIES
  SwitchEnds
