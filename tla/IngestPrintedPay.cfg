CONSTANTS
  Nil = Nil
  PageSize = 2
  MaxFailures = 2
  Cooldown = 1
  StaleAfter = 1
  MinGap = 1
  Target = 1
  Worlds <- PrintedPayWorlds
  Queries <- MCQueries
  Watched <- MCWatched
SPECIFICATION Spec
INVARIANT StatedPayOnly
