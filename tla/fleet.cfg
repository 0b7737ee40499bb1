SPECIFICATION Spec
CONSTANTS
  DAY = 4
  Looms = {l1, l2, l3}
  Rules <- MCRules
  BOUNDARY_SIMULTANEITY = 1
  Fractions <- MCFractions
  Calendars <- MCCalendars
  MaxTime = 3
  MaxEdits = 1
SYMMETRY MCSymmetry
INVARIANTS CalendarTiles ChangeoverIsChange BatchCodedAlike WholeFleetIsSeen PowerCutIsReal
CHECK_DEADLOCK FALSE
