SPECIFICATION Spec
CONSTANTS
  t1 = t1
  t2 = t2
  home = home
  scripts = scripts
  Null = Null
  Threads <- OneThread
  Threaded = FALSE
  Dirs <- TwoDirs
  Home = home
  UserCodes <- OneCode
  InfoExecFails <- Anywhere
INVARIANTS CleanBetweenRequests OldwdAlive
