SPECIFICATION FairSpec
CONSTANTS
  None = None
  Proc = {p}
  Dir <- MCDir
  Home <- MCHome
  InDistro = {}
  Candidate <- MCCandidate
  Registered0 <- MCRegistered
  Repo0 <- MCRepo
  Changes <- MCChanges
  Unread <- MCUnread
  Remote = {"A", "B"}
  MaxEvents = 3
INVARIANT RowsAreRecordedOrAsked
PROPERTIES AnswersAreNearest EveryRootSettles
