SPECIFICATION Spec
CONSTANTS
  Asset = {loom}
  Request = {q1, q2}
  AgeCap = 2
  UnknownLadder <- MCUnknown
  Ticketable <- MCTicketable
  LadderFor <- MCLadderFor
  RecurThreshold = 2
  RecurRung = 1
  Codes <- MCCodes
  AutoCodes <- MCAuto
  Rosters <- MCFitter
  EtaHours = {1}
  Ops = {}
  Grace = 1
  MinDuration = 1
  RecurWindow = 1
  MaxIncidents = 1
  MaxTickets = 2
  MaxRows = 4
  MaxStops = 1
  MaxMisses = 1
  MaxFaults = 1
INVARIANTS OneTimerPerLadder OneOpenTicket ClosedTicketIsSilent AnsweredStopsAsking EtaSnoozes
