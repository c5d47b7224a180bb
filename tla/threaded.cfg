SPECIFICATION FairSpec
CONSTANTS
  t1 = t1
  t2 = t2
  home = home
  scripts = scripts
  Null = Null
  Threads <- TwoThreads
  Threaded = TRUE
  Dirs <- OneDir
  Home = home
  UserCodes <- NoCode
  InfoExecFails <- Nowhere
INVARIANTS MutualExclusion OwnRequest OutputIsolation ErrorsAnswered
PROPERTY MutexReleased
