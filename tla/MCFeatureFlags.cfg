SPECIFICATION FairSpec
CONSTANTS
  Publishers = {p1, p2}
  Tabs = {t1}
  Revisions = {1, 2}
  None = None
  MaxAge = 1
  Window = 1
  Interval = 1
INVARIANTS
  LastPublishedIsActive
  MilestonesNameWhatIsShown
PROPERTIES
  NeverOlder
  Distributed
