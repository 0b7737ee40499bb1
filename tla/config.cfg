SPECIFICATION Spec
CONSTANTS
  akshaan = akshaan
  shailendra = shailendra
  developer = developer
  engineering = engineering
  other = other
  fault = fault
  phone = phone
  old = old
  new = new
  Absent = Absent
  Null = Null
  Person <- MCPersons
  Team <- MCTeams
  Code <- MCCodes
  other_code = other
  SHIFT_KEYS <- MCShifts
  Number <- MCNumbers
  Setting <- MCSettings
  Base <- MCBase
  Request = {r1, r2}
  Doors = {"panel", "plans", "api"}
  MaxEdits = 3
  MaxRaced = 2
SYMMETRY MCSymmetry
INVARIANTS TypeOK LiveRoutes RestartKeepsLive
PROPERTIES EditsTakeEffect CoverIsKept
