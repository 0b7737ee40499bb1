SPECIFICATION FairSpec
CONSTANTS
  Asset = {loom}
  Request = {}
  AgeCap = 2
  UnknownLadder <- MCUnknown
  Ticketable <- MCTicketable
  LadderFor <- MCLadderFor
  RecurThreshold = 2
  RecurRung = 1
  Codes <- MCCodes
  AutoCodes <- MCAuto
  Rosters <- MCFitter
  EtaHours = {}
  Ops = {}
  Grace = 1
  MinDuration = 1
  RecurWindow = 1
  MaxIncidents = 2
  MaxTickets = 2
  MaxRows = 4
  MaxStops = 2
  MaxMisses = 1
  MaxFaults = 0
PROPERTIES StoppedIsRaised
