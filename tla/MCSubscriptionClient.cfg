CONSTANTS
  Operations = {o1, o2}
  Lasting = {o1}
  Identities = {a, b}
  NoToken = NoToken
  MaxTokens = 2
SPECIFICATION FairSpec
INVARIANTS
  RunsOnThisGeneration
  ServedAsTheCaller
  StallIsWatched
PROPERTIES
  SubscribesWithTheCurrentToken
  SubscriptionsComeBack
