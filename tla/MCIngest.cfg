CONSTANTS
  Nil = Nil
  PageSize = 2
  MaxFailures = 2
  Cooldown = 1
  StaleAfter = 1
  MinGap = 1
  Target = 1
  Worlds <- MCWorlds
  Queries <- MCQueries
  Watched <- MCWatched
SPECIFICATION Spec
INVARIANTS TypeOK SeenIsActive SearchAgrees WholeBoardIsFetched StatedPayOnly
PROPERTY ListedJobIsShown
