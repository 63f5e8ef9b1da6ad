SPECIFICATION MCSpec
CONSTANTS
  Views <- MCViews
  Contents <- MCContents
  Bars <- MCBars
  Spacer = 1
  NoPosition = NoPosition
  Layouts <- MCLayouts
  Pointers <- MCPointers
INVARIANTS
  ScrollsWhileOutside
  CellsRecorded
  AreaHolds
  CopiesWhatIsShown
  HeadsFollow
PROPERTIES
  KeepsPosition
ACTION_CONSTRAINT Narrow
CHECK_DEADLOCK FALSE
