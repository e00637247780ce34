CONSTANTS
  None = None
  Nil = Nil
  Filter1 = Filter1
  Filter2 = Filter2
  User1 = User1
  User2 = User2
  Job1 = Job1
  Job2 = Job2
  Job3 = Job3
  Slot1 = Slot1
  Slot2 = Slot2
  Slot3 = Slot3
  Job4 = Job4
  Loop = Loop
  Requests = {Loop, Slot1, Slot2, Slot3}
  Jobs = {Job1, Job2, Job3, Job4}
  Listed = {Job1, Job2, Job3}
  MaxFailures = 2
  Filters = {Filter1, Filter2}
  Users = {User1, User2}
  Owner <- MCOwner
  Selects <- MCSelects
  MaxTime = 2
  Files = {File1, File2, File3}
  MaxPeer = 2
  MaxLogins = 1
  Window = 1
  MaxClock = 2
  Earlier = Earlier
  Rows <- MCRows
  Rank <- MCRank
  Skills = {"go"}
  Queries <- MCQueries
  PageSize = 1
  Readers = {TRUE, FALSE}
  Clicks = {Click1, Click2}
  MaxBreaks = 1
SPECIFICATION SeekerSpec
INVARIANTS SubmittedIsMarked AlertsAreExact FilesHavePrimary AccountsAreWhole SessionsAreCurrent PagesCoverFeed
INVARIANTS NoticeIsTrue SignedOutHoldsNothing
SYMMETRY Symmetry
CHECK_DEADLOCK FALSE
