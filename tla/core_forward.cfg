SPECIFICATION Spec
CONSTANTS
  Asset = {loom}
  Request = {q1}
  AgeCap = 2
  UnknownLadder <- MCUnknown
  Ticketable <- MCTicketable
  LadderFor <- MCLadderFor
  RecurThreshold = 2
  RecurRung = 1
  Codes <- MCCodes
  AutoCodes <- MCAuto
  Rosters <- MCFitter
  EtaHours = {}
  Ops = {"named","panel","pass","remind","retire","offplan"}
  Grace = 1
  MinDuration = 1
  RecurWindow = 1
  MaxIncidents = 1
  MaxTickets = 1
  MaxRows = 4
  MaxStops = 1
  MaxMisses = 1
  MaxFaults = 0
INVARIANTS RetiredStaysRetired
PROPERTIES ContractHolds
