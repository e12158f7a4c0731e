SPECIFICATION Spec
CONSTANTS
  Sessions <- MCSessions
  Owner <- MCOwner
  Fields <- MCFields
  Quotes <- MCQuotes
  Bundles <- MCBundles
  Labels <- MCLabels
  Within <- MCWithin
  Shows <- MCShows
  Reviews <- MCReviews
  Questions <- MCQuestions
  Replies <- MCReplies
  Recovered <- MCRecovered
  NTurns = 3
  MaxMessages = 2
  MaxTurns = 2
  MaxEdits = 1
  MaxFaults = 2
INVARIANTS HistoryIsWhole ReplayIsOwnProse RecallIsCurrent GateWaitsForBlockers LossIsAnnounced
  ContextOnlyOffersNothing CardsAreTheAnswer
CHECK_DEADLOCK FALSE
