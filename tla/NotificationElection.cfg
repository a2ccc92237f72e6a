SPECIFICATION FairSpec
CONSTANTS
  Tabs = {1,2,3}
  MaxEvents = 3
  MaxCrashes = 2
INVARIANTS TypeOK OneTabShows OncePerTab
PROPERTIES SomeTabShows
CHECK_DEADLOCK FALSE
