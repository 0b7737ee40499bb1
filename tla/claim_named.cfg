SPECIFICATION Spec
CONSTANTS
  Phones = {p}
  Spaces = {g}
  Cards = {2}
  Looms = {1, 2}
  Options <- MCOptions
  Ticketable <- MCTicketable
  ETA_MAX_HOURS = 3
  Texts <- MCTexts
  Window = 1
  MaxIncidents = 2
  MaxTickets = 2
  MaxMessages = 2
  Request = {q1}
INVARIANTS NamedLoomWins
